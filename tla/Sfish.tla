------------------------------- MODULE Sfish -------------------------------
(***************************************************************************)
(* The shell: the loop of hw4/src/main.c with its pipes, the job list and  *)
(* the signal handlers of hw4/src/sfish.c, over child processes that run,  *)
(* stop and end, a terminal, and a user who types commands, ^C and ^Z.     *)
(*                                                                         *)
(* The main loop and the handlers are one thread: a handler runs between   *)
(* two steps of the loop, or out of sigsuspend, and the loop goes on when  *)
(* it is done.  signal() blocks a signal only while its own handler runs:  *)
(* any other is taken between two steps of the frames, whose handler goes *)
(* on when the inner one is done.  Children change between any two steps.  *)
(***************************************************************************)
EXTENDS Naturals, Sequences, SequencesExt, CommandLine

CONSTANTS
    Pids,       \* the processes fork can give, each once
    Shell,      \* the shell's own process group
    NoPid,
    Lines,      \* bound: the lines a user may type
    MaxInputs   \* bound: lines, keys and other events from outside

ASSUME SfishAssumption ==
    /\ Shell \notin Pids /\ NoPid \notin Pids /\ Shell # NoPid
    /\ MaxInputs \in Nat
    /\ \A l \in Lines : l \in Seq(STRING) /\ ~Contains(l, NULL) /\ \E i \in DOMAIN l : l[i] # Blank
    \* fg and kill are the actions Fg, KillPid and KillJob.
    /\ \A l \in Lines : MakePrograms(l)[1].type \notin {"fg", "kill"}

VARIABLES
    main,      \* where the loop is
    line,      \* history: the line that was read, until something is run or refused
    programs,  \* the programs of the line that are still to be run
    pgid,      \* the group of the command line: the pid of its first program
    newest,    \* the pid the last fork returned
    ifd,       \* the pipe the next program reads from, NoPid for the terminal;
               \* a pipe is named by the process that was forked after it
    writeEnds, \* the pipes of which the shell has the end to write to
    reads,     \* the pipe each process reads from
    holds,     \* the pipes of which each process has the end to write to
    running,   \* the signals whose handlers have begun, the innermost first
    at,        \* where the handler of each signal is
    old,       \* addJob, in each handler: what its new job goes in front of
    num,       \* addJob, in each handler: what it has read of jobNum
    masked,    \* SIGCHLD, SIGTSTP and SIGINT are blocked
    keysTaken, \* SIGINT and SIGTSTP have handlers and are not ignored
    pending,   \* the signals sent to the shell and not delivered
    list,      \* the job list, from its head
    jobNum,    \* the number of the next job
    currentJob,
    removal,   \* what removeJob has found
    proc,      \* the state of each process
    unseen,    \* the processes that have stopped, unreported by waitpid
    group,     \* the process group of each process
    tty,       \* the foreground group of the terminal
    inputs,    \* how many events came from outside
    torn,      \* history: a handler added a job while removeJob was about to
               \* unlink the head
    crossed    \* history: a handler listed a job while another had listed its own
               \* and not yet counted it

handled == <<list, jobNum, torn, crossed>>
jobs == <<handled, currentJob, removal>>
frames == <<running, at, old, num>>
children == <<proc, unseen, group>>
signals == <<masked, keysTaken, pending>>
pipes == <<ifd, writeEnds, reads, holds>>
command == <<line, programs, pgid, newest, pipes>>
vars == <<main, command, frames, signals, jobs, children, tty, inputs>>

NoJob == [pid |-> NoPid, pgid |-> NoPid, num |-> 0]
NoRemoval == [pid |-> NoPid, atHead |-> FALSE, rest |-> <<>>]
Sigs == {"CHLD", "TSTP", "INT"}

Init ==
    /\ main = "prompt"
    /\ running = <<>> /\ at = [s \in Sigs |-> "none"]
    /\ old = [s \in Sigs |-> <<>>] /\ num = [s \in Sigs |-> 0]
    /\ line = <<>> /\ programs = <<>> /\ pgid = NoPid /\ newest = NoPid
    /\ ifd = NoPid /\ writeEnds = {}
    /\ reads = [p \in Pids |-> NoPid] /\ holds = [p \in Pids |-> {}]
    /\ masked = FALSE /\ keysTaken = FALSE /\ pending = {}
    /\ list = <<>> /\ jobNum = 0 /\ currentJob = NoJob /\ removal = NoRemoval
    /\ proc = [p \in Pids |-> "unborn"]
    /\ unseen = {}
    /\ group = [p \in Pids |-> NoPid]
    /\ tty = Shell
    /\ inputs = 0
    /\ torn = FALSE /\ crossed = FALSE

Alive(p) == p \in Pids /\ proc[p] \in {"running", "stopped"}
Zombie(p) == proc[p] \in {"ended", "signaled"}
\* What waitpid(-1, WNOHANG | WUNTRACED) can report.
Reportable == {p \in Pids : Zombie(p)} \cup unseen
\* A group is there as long as a process is in it that was not reaped.
Exists(g) == g = Shell \/ \E p \in Pids : group[p] = g /\ (Alive(p) \/ Zombie(p))

\* An event from outside, at most MaxInputs of them.
Outside == inputs < MaxInputs /\ inputs' = inputs + 1

\* The loop goes on when no handler runs.
Steps(from) == main = from /\ running = <<>>

-----------------------------------------------------------------------------
(* Children *)

\* What becomes of the processes in ps, of which the shell hears by SIGCHLD.
Become(ps, state) ==
    /\ proc' = [p \in Pids |-> IF p \in ps THEN state ELSE proc[p]]
    /\ unseen' = IF state = "stopped" THEN unseen \cup ps ELSE unseen \ ps

\* exit, or a signal the handler knows (9 and 25).
Ends(p) ==
    /\ proc[p] = "running"
    /\ Become({p}, "ended")
    /\ pending' = pending \cup {"CHLD"}
    /\ UNCHANGED <<main, command, frames, masked, keysTaken, jobs, group, tty, inputs>>

\* A signal from elsewhere kills, stops or continues it.
Signaled(p) ==
    /\ Outside
    /\ \/ proc[p] = "running" /\ (Become({p}, "signaled") \/ Become({p}, "stopped"))
       \/ proc[p] = "stopped" /\ (Become({p}, "ended") \/ Become({p}, "running"))
    /\ pending' = pending \cup {"CHLD"}
    /\ UNCHANGED <<main, command, frames, masked, keysTaken, jobs, group, tty>>

Foreground == {p \in Pids : group[p] = tty /\ proc[p] = "running"}

\* ^Z or ^C: the processes of the terminal's group that do not catch it stop or
\* end, and the shell gets it when it is in that group and does not ignore it.
Key(sig) ==
    /\ Outside
    /\ \E ps \in SUBSET Foreground :
          /\ Become(ps, IF sig = "TSTP" THEN "stopped" ELSE "signaled")
          /\ pending' = pending \cup (IF ps = {} THEN {} ELSE {"CHLD"})
                                \cup (IF tty = Shell /\ keysTaken THEN {sig} ELSE {})
    /\ UNCHANGED <<main, command, frames, masked, keysTaken, jobs, group, tty>>

Environment ==
    \/ \E p \in Pids : Ends(p) \/ Signaled(p)
    \/ Key("TSTP") \/ Key("INT")

-----------------------------------------------------------------------------
(* The job list *)

JobsOf(pid) == {i \in DOMAIN list : list[i].pid = pid}

\* removeJob walks to the first job of the process and notes its neighbours...
RemoveFind ==
    /\ Steps("remove")
    /\ \/ /\ JobsOf(removal.pid) = {}
          /\ removal' = NoRemoval
          /\ main' = "leave"
       \/ \E i \in JobsOf(removal.pid) :
             /\ \A j \in JobsOf(removal.pid) : i <= j
             /\ removal' = [removal EXCEPT !.atHead = (i = 1),
                                           !.rest = SubSeq(list, i + 1, Len(list))]
             /\ main' = "unlink"
    /\ UNCHANGED <<command, frames, signals, handled, currentJob, children,
                   tty, inputs>>

PrevptrNeverSet == removal.rest
\* Handlers only add in front, so the job is as far from the end as it was.
Found == Len(list) - Len(removal.rest)
\* A head that was found is replaced by what followed it, whatever handlers have
\* put in front of it since.
Unlinked == IF removal.atHead THEN removal.rest ELSE RemoveAt(list, Found)

\* ... and then unlinks it.
RemoveUnlink ==
    /\ Steps("unlink")
    /\ list' = Unlinked
    /\ removal' = NoRemoval
    /\ main' = "leave"
    /\ UNCHANGED <<command, frames, signals, jobNum, currentJob, torn, crossed, children, tty,
                   inputs>>

-----------------------------------------------------------------------------
(* The signal handlers *)

\* The handler of sig is the innermost one, and at this place.
At(sig, place) == running # <<>> /\ Head(running) = sig /\ at[sig] = place
Goes(sig, place) == at' = [at EXCEPT ![sig] = place] /\ UNCHANGED running
Returns(sig) == at' = [at EXCEPT ![sig] = "none"] /\ running' = Tail(running)

Entry == [INT |-> "interrupt", TSTP |-> "reap", CHLD |-> "children"]

\* A handler begins.  While another runs, only that one's signal is blocked; the
\* loop's mask lets none through but in sigsuspend, which returns after it.
Deliver(sig) ==
    /\ sig \in pending /\ at[sig] = "none"
    /\ running # <<>> \/ ~masked \/ main = "suspended"
    /\ pending' = pending \ {sig}
    /\ running' = <<sig>> \o running
    /\ at' = [at EXCEPT ![sig] = Entry[sig]]
    /\ main' = IF main = "suspended" THEN "woken" ELSE main
    /\ UNCHANGED <<command, old, num, masked, keysTaken, jobs, children, tty, inputs>>

\* kill with a signal that the current job's process may catch.
SendToCurrent(state) ==
    \/ /\ Alive(currentJob.pid) /\ proc[currentJob.pid] = "running"
       /\ Become({currentJob.pid}, state)
       /\ pending' = pending \cup {"CHLD"}
    \/ UNCHANGED <<proc, unseen, pending>>

\* Before the first command there is no current job to follow.
NoCurrentJob == currentJob = NoJob

\* sigint_handler.
Interrupt ==
    /\ At("INT", "interrupt")
    /\ SendToCurrent("signaled")
    /\ main' = IF NoCurrentJob THEN "crashed" ELSE main
    /\ Returns("INT")
    /\ UNCHANGED <<command, old, num, masked, keysTaken, jobs, group, tty, inputs>>

HandlerIsDone == Returns("CHLD")
\* The loop of sigchld_handler goes on until waitpid has nothing to report.
NextChild == Goes("CHLD", "children")

\* One waitpid of sigchld_handler: a process that ended is reaped, any other
\* report is taken for the current job's stop.
Children ==
    /\ At("CHLD", "children")
    /\ \/ /\ Reportable = {}
          /\ Returns("CHLD")
          /\ UNCHANGED <<proc, unseen>>
       \/ \E p \in Reportable :
             /\ IF proc[p] = "ended" THEN NextChild ELSE Goes("CHLD", "reap")
             /\ proc' = IF Zombie(p) THEN [proc EXCEPT ![p] = "reaped"] ELSE proc
             /\ unseen' = unseen \ {p}
    /\ UNCHANGED <<main, command, old, num, signals, jobs, group, tty, inputs>>

\* sigtstp_handler, on its own or called by sigchld_handler: its waitpid may
\* reap a process unnoticed; then the current job is added to the list and its
\* process told to stop, whichever process the signal was about.
Reaps(z) == proc' = [proc EXCEPT ![z] = "reaped"]

StopReaps(sig) ==
    /\ At(sig, "reap")
    /\ \/ \E z \in Pids : Zombie(z) /\ Reaps(z)
       \/ (\A z \in Pids : ~Zombie(z)) /\ UNCHANGED proc
    /\ Goes(sig, "add")
    /\ UNCHANGED <<main, command, old, num, signals, jobs, unseen, group, tty, inputs>>

StopCrashes(sig) ==
    /\ At(sig, "add") /\ NoCurrentJob
    /\ main' = "crashed"
    /\ UNCHANGED <<command, frames, signals, jobs, children, tty, inputs>>

Adds == UNCHANGED <<main, command, signals, currentJob, removal, children, tty, inputs>>

\* addJob: the new job goes in front of the list, if there is one.  A list does
\* not become empty while a handler runs, so head may as well be read once.
AddTests(sig) ==
    /\ At(sig, "add") /\ ~NoCurrentJob
    /\ Goes(sig, IF list = <<>> THEN "first" ELSE "number")
    /\ old' = [old EXCEPT ![sig] = list]
    /\ UNCHANGED <<num, handled>> /\ Adds

NumberGoesOn == jobNum
\* Numbers begin again at 1 when the list was empty.
FirstNumber == 1

AddFirst(sig) ==
    /\ At(sig, "first")
    /\ jobNum' = FirstNumber
    /\ Goes(sig, "number")
    /\ UNCHANGED <<old, num, list, torn, crossed>> /\ Adds

NumberByLength == Len(list) + 1
NumberRead == jobNum

AddNumbers(sig) ==
    /\ At(sig, "number")
    /\ num' = [num EXCEPT ![sig] = NumberRead]
    /\ Goes(sig, "link")
    /\ UNCHANGED <<old, handled>> /\ Adds

\* The handler has read jobNum, or is about to, to count the job it has listed.
Counting(sig) == at[sig] \in {"count", "next"}

\* A copy of the current job becomes the head, and what a handler has put in
\* front of the old one since is lost.
AddLinks(sig) ==
    /\ At(sig, "link")
    /\ list' = <<[currentJob EXCEPT !.num = num[sig]]>> \o old[sig]
    /\ torn' = (torn \/ removal.atHead)
    /\ crossed' = (crossed \/ \E s \in Sigs : Counting(s))
    /\ old' = [old EXCEPT ![sig] = <<>>] /\ num' = [num EXCEPT ![sig] = 0]
    /\ Goes(sig, "count")
    /\ UNCHANGED jobNum /\ Adds

\* jobNum++ reads...
AddCounts(sig) ==
    /\ At(sig, "count")
    /\ num' = [num EXCEPT ![sig] = jobNum]
    /\ Goes(sig, "next")
    /\ UNCHANGED <<old, handled>> /\ Adds

\* ... and writes.
AddNext(sig) ==
    /\ At(sig, "next")
    /\ jobNum' = num[sig] + 1
    /\ num' = [num EXCEPT ![sig] = 0]
    /\ Goes(sig, "tell")
    /\ UNCHANGED <<old, list, torn, crossed>> /\ Adds

AddJob(sig) ==
    \/ AddTests(sig) \/ AddFirst(sig) \/ AddNumbers(sig) \/ AddLinks(sig)
    \/ AddCounts(sig) \/ AddNext(sig)

\* The end of sigtstp_handler, which is a return into sigchld_handler's loop or
\* from the signal.
StopTells(sig) ==
    /\ At(sig, "tell")
    /\ SendToCurrent("stopped")
    /\ IF sig = "CHLD" THEN NextChild ELSE Returns(sig)
    /\ UNCHANGED <<main, command, old, num, masked, keysTaken, jobs, group, tty, inputs>>

-----------------------------------------------------------------------------
(* Running a command line *)

\* A blank line, and the end of the input, which is reported again and again,
\* change nothing.
ReadLine(l) ==
    /\ Steps("prompt") /\ Outside
    /\ line' = l
    /\ programs' = MakePrograms(l)
    /\ pgid' = NoPid /\ ifd' = NoPid
    /\ main' = IF Exits(l) THEN "exited"
               ELSE IF programs'[1].type = "PROGRAM" THEN "launch" ELSE "leave"
    /\ UNCHANGED <<newest, writeEnds, reads, holds, frames, signals, jobs, children, tty>>

\* Pids mean nothing to the shell: the next one may as well be a fixed one.
Unborn == {p \in Pids : proc[p] = "unborn"}
NextPid == CHOOSE p \in Unborn : TRUE

NotMasked == FALSE
\* sigprocmask(SIG_BLOCK) before fork.
MaskedAtFork == TRUE

\* Each program is looked at when its turn comes: those before it have run.  A
\* part of blanks has no name, which is compared all the same.
RefuseProgram ==
    /\ Steps("launch")
    /\ \/ Head(programs).name = NULL /\ main' = "crashed"
       \/ /\ Head(programs).name # NULL
          /\ Head(programs).name = "|" \/ Head(programs).type # "PROGRAM"
          /\ main' = "leave"
    /\ UNCHANGED <<command, frames, signals, jobs, children, tty, inputs>>

\* The handlers are installed...
InstallHandlers ==
    /\ Steps("launch")
    /\ Head(programs).name \notin {NULL, "|"} /\ Head(programs).type = "PROGRAM"
    /\ line' = <<>>
    /\ keysTaken' = TRUE
    /\ main' = "fork"
    /\ UNCHANGED <<programs, pgid, newest, pipes, frames, masked, pending, jobs, children,
                   tty, inputs>>

\* ... then the signals are blocked, and a child is forked.  A pipe was made
\* for it, and it has every end to write to that the shell has.
Fork ==
    /\ Steps("fork")
    /\ masked' = MaskedAtFork
    /\ Unborn # {}
    /\ newest' = NextPid
    /\ writeEnds' = writeEnds \cup {NextPid}
    /\ reads' = [reads EXCEPT ![NextPid] = ifd]
    /\ holds' = [holds EXCEPT ![NextPid] = writeEnds']
    /\ proc' = [proc EXCEPT ![NextPid] = "running"]
    /\ group' = [group EXCEPT ![NextPid] = Shell]
    /\ main' = "forked"
    /\ UNCHANGED <<line, programs, pgid, ifd, frames, keysTaken, pending, jobs, unseen, tty,
                   inputs>>

\* The child becomes the current job.
SetJob ==
    /\ Steps("forked")
    /\ pgid' = IF pgid = NoPid THEN newest ELSE pgid
    /\ currentJob' = [currentJob EXCEPT !.pid = newest, !.pgid = pgid']
    /\ main' = "grouping"
    /\ UNCHANGED <<line, programs, newest, pipes, frames, signals, handled, removal, children, tty, inputs>>

\* setpgid, in the parent only: it fails when the child has called exec, or when
\* the group it should join is gone with the program that led it.
SetGroup ==
    /\ Steps("grouping")
    /\ \/ /\ pgid = newest \/ Exists(pgid)
          /\ group' = [group EXCEPT ![newest] = pgid]
       \/ UNCHANGED group
    /\ main' = "foreground"
    /\ UNCHANGED <<command, frames, signals, jobs, proc, unseen, tty, inputs>>

\* tcsetpgrp, for the first program: it fails for a group that does not exist.
SetForeground ==
    /\ Steps("foreground")
    /\ tty' = IF pgid = newest /\ Exists(pgid) THEN pgid ELSE tty
    /\ main' = "suspended"
    /\ UNCHANGED <<command, frames, signals, jobs, children, inputs>>

WriteEndKept == writeEnds
WriteEndClosed == writeEnds \ {newest}

\* sigsuspend has returned: the signals are unblocked, and the next program is
\* run on the other end of the pipe, if there is one, although this one may not
\* have ended.
Resume ==
    /\ Steps("woken")
    /\ masked' = FALSE
    /\ writeEnds' = WriteEndClosed
    /\ ifd' = newest
    /\ programs' = Tail(programs)
    /\ main' = IF programs' = <<>> THEN "leave" ELSE "launch"
    /\ UNCHANGED <<line, pgid, newest, reads, holds, frames, keysTaken, pending, jobs,
                   children, tty, inputs>>

\* tcsetpgrp(STDOUT_FILENO, mypgid) after every command.
GivenBack == Shell

\* The end of the loop and its beginning: the terminal is the shell's again, and
\* ^C and ^Z are ignored from here on, also one that was not yet delivered.
Leave ==
    /\ Steps("leave")
    /\ tty' = GivenBack
    /\ keysTaken' = FALSE
    /\ pending' = pending \ {"INT", "TSTP"}
    /\ main' = "prompt"
    /\ line' = <<>> /\ programs' = <<>>
    /\ UNCHANGED <<pgid, newest, pipes, frames, masked, jobs, children, inputs>>

-----------------------------------------------------------------------------
(* fg and kill *)

\* fg: the job with the number becomes the current job; when there is none the
\* shell follows a null pointer.
Fg(j) ==
    /\ Steps("prompt") /\ Outside
    /\ \/ \E i \in DOMAIN list :
             /\ list[i].num = j /\ \A k \in 1..(i - 1) : list[k].num # j
             /\ currentJob' = [list[i] EXCEPT !.num = 0]
             /\ main' = "continue"
       \/ /\ \A i \in DOMAIN list : list[i].num # j
          /\ main' = "crashed"
          /\ UNCHANGED currentJob
    /\ UNCHANGED <<command, frames, signals, handled, removal, children, tty>>

\* kill(pid, SIGCONT).
FgContinues ==
    /\ Steps("continue")
    /\ IF proc[currentJob.pid] = "stopped"
       THEN Become({currentJob.pid}, "running") /\ pending' = pending \cup {"CHLD"}
       ELSE UNCHANGED <<proc, unseen, pending>>
    /\ main' = "front"
    /\ UNCHANGED <<command, frames, masked, keysTaken, jobs, group, tty, inputs>>

\* The job gets the terminal, for as long as it takes to remove it from the
\* list: the shell does not wait for it.
FgForeground ==
    /\ Steps("front")
    /\ tty' = IF Exists(currentJob.pgid) THEN currentJob.pgid ELSE tty
    /\ removal' = [NoRemoval EXCEPT !.pid = currentJob.pid]
    /\ main' = "remove"
    /\ UNCHANGED <<command, frames, signals, handled, currentJob, children,
                   inputs>>

\* SIGKILL, to a process the user named by its pid or found by its job.
Kills(p) ==
    /\ IF Alive(p)
       THEN Become({p}, "ended") /\ pending' = pending \cup {"CHLD"}
       ELSE UNCHANGED <<proc, unseen, pending>>
    /\ removal' = [NoRemoval EXCEPT !.pid = p]
    /\ main' = "remove"

KillPid(p) ==
    /\ Steps("prompt") /\ Outside
    /\ Kills(p)
    /\ UNCHANGED <<command, frames, masked, keysTaken, handled, currentJob,
                   group, tty>>

\* kill %j looks at the head of the list again and again.  With an empty list
\* the number itself is taken for a pid, and is none of a child.
KillJob(j) ==
    /\ Steps("prompt") /\ Outside
    /\ \/ list # <<>> /\ list[1].num = j /\ Kills(list[1].pid)
       \/ /\ list # <<>> /\ list[1].num # j
          /\ main' = "stuck"
          /\ UNCHANGED <<proc, unseen, pending, removal>>
       \/ list = <<>> /\ Kills(NoPid)
    /\ UNCHANGED <<command, frames, masked, keysTaken, handled, currentJob,
                   group, tty>>

\* kill without an argument looks at what is not there.
KillNothing ==
    /\ Steps("prompt") /\ Outside
    /\ main' = "crashed"
    /\ UNCHANGED <<command, frames, signals, jobs, children, tty>>

-----------------------------------------------------------------------------

Stop(sig) == StopReaps(sig) \/ StopCrashes(sig) \/ AddJob(sig) \/ StopTells(sig)

Handlers ==
    \/ \E sig \in Sigs : Deliver(sig)
    \/ Interrupt \/ Children
    \/ \E sig \in {"CHLD", "TSTP"} : Stop(sig)

Loop ==
    \/ RefuseProgram \/ InstallHandlers \/ Fork \/ SetJob \/ SetGroup \/ SetForeground \/ Resume \/ Leave
    \/ FgContinues \/ FgForeground \/ RemoveFind \/ RemoveUnlink

User ==
    \/ \E l \in Lines : ReadLine(l)
    \/ \E j \in 1..MaxInputs : Fg(j) \/ KillJob(j)
    \/ \E p \in Pids : KillPid(p)
    \/ KillNothing

\* A crash ends the shell, and so does exit.
Ended == main \in {"crashed", "exited"}

Next == ~Ended /\ (Handlers \/ Loop \/ User \/ Environment)

Spec == Init /\ [][Next]_vars

\* The shell's process is scheduled; of the user and the children nothing is
\* assumed.
FairSpec == Spec /\ WF_vars(~Ended /\ (Handlers \/ Loop))

=============================================================================
