-------------------------- MODULE SfishProperties --------------------------
(* What is claimed of the shell's job control. *)
EXTENDS Sfish, FiniteSets

PidOrNone == Pids \cup {NoPid}
Job == [pid : PidOrNone, pgid : PidOrNone, num : Nat]
ListedJob == [pid : Pids, pgid : Pids, num : Nat \ {0}]
Places == {"prompt", "launch", "fork", "forked", "grouping", "foreground", "suspended",
           "woken", "leave", "continue", "front", "remove", "unlink", "stuck", "crashed", "exited"}
HandlerPlaces == {"none", "interrupt", "children", "reap", "add", "first", "number", "link",
                  "count", "next", "tell"}

\* The types of the variables, but for programs, of which LineIsMeant speaks; a
\* job in the list names a process.
TypeOK ==
    /\ main \in Places
    /\ running \in Seq(Sigs) /\ at \in [Sigs -> HandlerPlaces]
    /\ old \in [Sigs -> Seq(ListedJob)] /\ num \in [Sigs -> Nat]
    /\ line \in Lines \cup {<<>>}
    /\ ifd \in PidOrNone /\ writeEnds \subseteq Pids
    /\ reads \in [Pids -> PidOrNone] /\ holds \in [Pids -> SUBSET Pids]
    /\ pgid \in PidOrNone /\ newest \in PidOrNone
    /\ masked \in BOOLEAN /\ keysTaken \in BOOLEAN
    /\ pending \subseteq Sigs
    /\ list \in Seq(ListedJob)
    /\ jobNum \in Nat /\ currentJob \in Job
    /\ removal \in [pid : PidOrNone, atHead : BOOLEAN, rest : Seq(ListedJob)]
    /\ proc \in [Pids -> {"unborn", "running", "stopped", "ended", "signaled", "reaped"}]
    /\ unseen \subseteq {p \in Pids : proc[p] = "stopped"}
    /\ group \in [Pids -> Pids \cup {NoPid, Shell}]
    /\ tty \in Pids \cup {Shell}
    /\ inputs \in 0..MaxInputs /\ torn \in BOOLEAN /\ crossed \in BOOLEAN

\* Signals are not counted, but a change of a child is never overlooked: as long
\* as waitpid has something to report SIGCHLD is pending or its handler is at
\* work, if other handlers let it, and will call waitpid again.
NothingOverlooked ==
    Reportable # {} => "CHLD" \in pending \/ at["CHLD"] # "none"

\* No wake-up is lost between fork and sigsuspend: when the shell waits and its
\* newest child runs no more, a signal is pending that will wake it.
WaitsOnlyForTheRunning ==
    main = "suspended" /\ proc[newest] # "running" => pending # {}

\* The shell comes back from sigsuspend when the child it has just forked stops
\* or ends, however early that happens, and every process that ended is reaped,
\* also when several signals were merged into one, unless the shell has ended.
EverySignalServed ==
    /\ (main = "suspended" /\ proc[newest] # "running") ~> main # "suspended"
    /\ \A p \in Pids : Zombie(p) ~> (proc[p] = "reaped" \/ Ended)

\* When the handlers are done no two jobs of the list have the same number, and
\* the next number is free: fg finds at most one job.  One order of two handlers
\* is the exception: one lists its job when the other, which it interrupts, has
\* listed its own and not yet counted it; both have then read the same number.
JobNumbersDistinct ==
    running = <<>> /\ ~crossed =>
        /\ \A i, k \in DOMAIN list : list[i].num = list[k].num => i = k
        /\ \A i \in DOMAIN list : list[i].num < jobNum

\* At the prompt, with no signal on its way, the current job's process is in the
\* list if it is stopped, unless a handler added a job while removeJob was about
\* to unlink the head.
StoppedJobListed ==
    main = "prompt" /\ running = <<>> /\ pending = {} /\ ~torn
        /\ currentJob.pid \in Pids /\ proc[currentJob.pid] = "stopped"
    => JobsOf(currentJob.pid) # {}

\* A program that reads from a pipe comes to the end of its input when the one
\* that writes to it has ended: nobody else can write to it, neither the shell nor
\* a program that was forked in between.
PipesEnd ==
    \A p \in Pids : (\E q \in Pids : reads[q] = p) =>
        /\ p \notin writeEnds
        /\ \A r \in Pids : p \in holds[r] => r = p

-----------------------------------------------------------------------------
(* A line as a user means it: in each part a program and its arguments, then   *)
(* at most one file to read and at most one to write, in any order.            *)

Redirection(t) == t \in {"<", ">"}
Texts(l) == [i \in DOMAIN Parts(l) |-> Words(Parts(l)[i])]

Regular(part) ==
    /\ part # <<>> /\ ~Redirection(part[1])
    /\ \A i, j \in DOMAIN part : part[i] = part[j] /\ Redirection(part[i]) => i = j
    /\ \A i \in DOMAIN part : Redirection(part[i]) =>
          /\ i < Len(part) /\ ~Redirection(part[i + 1])
          /\ i + 2 <= Len(part) => Redirection(part[i + 2])

FileBehind(part, sign) ==
    IF Contains(part, sign) THEN part[1 + CHOOSE i \in DOMAIN part : part[i] = sign] ELSE NULL

Meant(part) ==
    [type    |-> TypeOf(part[1]),
     name    |-> part[1],
     args    |-> SubSeq(part, 1, CHOOSE n \in DOMAIN part :
                    /\ \A i \in 1..n : ~Redirection(part[i])
                    /\ n = Len(part) \/ Redirection(part[n + 1])),
     infile  |-> FileBehind(part, "<"),
     outfile |-> FileBehind(part, ">")]

\* Such a line is run as it is meant, and a part with more redirections than that
\* is refused.
LineIsMeant ==
    line # <<>> /\ Texts(line) # <<>> =>
        \A n \in DOMAIN Texts(line) :
            LET part == Texts(line)[n]
                signs == {i \in DOMAIN part : Redirection(part[i])}
            IN  /\ Regular(part) => programs[n] = Meant(part)
                /\ Cardinality(signs) > 2 => programs[n].type = "BAD"

=============================================================================
