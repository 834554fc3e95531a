----------------------------- MODULE SfishProofs -----------------------------
(***************************************************************************)
(* Theorems about the shell, for any number of processes and any lines:    *)
(* the types, that no wake-up and no change of a child is lost, that pipes *)
(* end, that job numbers are distinct, that no stopped job is lost, and    *)
(* that a line is run as it is meant.                                      *)
(***************************************************************************)
EXTENDS SfishProperties, Induction, SequenceTheorems, TLAPS

States == {"unborn", "running", "stopped", "ended", "signaled", "reaped"}

\* Between fork and sigsuspend, and until the end that was written to is closed.
Waiting == {"forked", "grouping", "foreground", "suspended"}
HasChild == Waiting \cup {"woken"}

-----------------------------------------------------------------------------
(* The types *)

\* A handler in addJob: it has tested the list and not yet put its job in front;
\* it uses the number; it has begun.
Linking == {"first", "number", "link"}
Numbered == {"number", "link", "count", "next"}
Added == Linking \cup {"count", "next", "tell"}

CurrentKnown ==
    /\ currentJob # NoJob => currentJob.pid \in Pids /\ currentJob.pgid \in Pids
    /\ main \in {"continue", "front"} => currentJob # NoJob
    /\ \A s \in Sigs : at[s] \in Added => currentJob # NoJob

ChildKnown == main \in HasChild => newest \in Pids

NumberKnown ==
    /\ main = "unlink" \/ list # <<>> => jobNum # 0
    /\ \A s \in Sigs : (at[s] \in Numbered => jobNum # 0) /\ (at[s] = "link" => num[s] # 0)

\* The job removeJob has found stays in the list until it is unlinked, and in what
\* a handler is about to make the list.
JobNoted ==
    main = "unlink" =>
        /\ Len(removal.rest) < Len(list)
        /\ \A s \in Sigs : at[s] \in Linking => Len(removal.rest) < Len(old[s])

\* The handlers that are somewhere have begun and not returned.
FramesBegun == \A s \in Sigs : at[s] # "none" => \E i \in DOMAIN running : running[i] = s

TInv == TypeOK /\ CurrentKnown /\ ChildKnown /\ NumberKnown /\ JobNoted /\ FramesBegun

LEMMA NoFrames == TInv /\ running = <<>> => \A s \in Sigs : at[s] = "none"
BY DEF TInv, FramesBegun

\* What becomes of processes is a state, and never that they are unborn again.
LEMMA BecomeTypes ==
    ASSUME TypeOK, NEW ps \in SUBSET Pids, NEW state \in States \ {"unborn"},
           Become(ps, state)
    PROVE  /\ proc' \in [Pids -> States]
           /\ unseen' \subseteq {p \in Pids : proc'[p] = "stopped"}
           /\ \A p \in Pids : proc[p] # "unborn" => proc'[p] # "unborn"
BY DEF TypeOK, States, Become

LEMMA SendTypes ==
    ASSUME TypeOK, NEW state \in {"signaled", "stopped"}, SendToCurrent(state)
    PROVE  /\ proc' \in [Pids -> States]
           /\ unseen' \subseteq {p \in Pids : proc'[p] = "stopped"}
           /\ pending' \in {pending, pending \cup {"CHLD"}}
           /\ \A p \in Pids : proc[p] # "unborn" => proc'[p] # "unborn"
<1>1. CASE Become({currentJob.pid}, state) /\ currentJob.pid \in Pids
           /\ pending' = pending \cup {"CHLD"}
  <2>1. {currentJob.pid} \in SUBSET Pids /\ state \in States \ {"unborn"}
    BY <1>1 DEF States
  <2> QED
    BY <2>1, <1>1, BecomeTypes
<1>2. CASE UNCHANGED <<proc, unseen, pending>>
  BY <1>2 DEF TypeOK, States
<1> QED
  BY <1>1, <1>2 DEF SendToCurrent, Alive

LEMMA NoneListed == <<>> \in Seq(ListedJob)
OBVIOUS

LEMMA InitTypes == Init => TInv
<1> SUFFICES ASSUME Init
             PROVE  TInv
  OBVIOUS
<1>1. NoJob \in Job
  BY DEF NoJob, Job, PidOrNone
<1>2. NoRemoval \in [pid : PidOrNone, atHead : BOOLEAN, rest : Seq(ListedJob)]
  BY NoneListed DEF NoRemoval, PidOrNone
<1>3. /\ proc \in [Pids -> States] /\ group \in [Pids -> Pids \cup {NoPid, Shell}]
      /\ reads \in [Pids -> PidOrNone] /\ holds \in [Pids -> SUBSET Pids]
      /\ at \in [Sigs -> HandlerPlaces] /\ num \in [Sigs -> Nat] /\ running \in Seq(Sigs)
      /\ old \in [Sigs -> Seq(ListedJob)] /\ \A s \in Sigs : at[s] = "none"
  BY NoneListed DEF Init, States, PidOrNone, HandlerPlaces
<1>4. 0 \in 0..MaxInputs
  BY SfishAssumption
<1>5. TypeOK
  BY <1>1, <1>2, <1>3, <1>4, NoneListed DEF Init, TypeOK, Places, PidOrNone, States
<1> QED
  BY <1>3, <1>5 DEF Init, TInv, CurrentKnown, ChildKnown, NumberKnown, JobNoted, FramesBegun,
     HasChild, Waiting, Added, Linking, Numbered

LEMMA EnvironmentTypes == TInv /\ Environment => TInv'
<1> SUFFICES ASSUME TInv, Environment
             PROVE  TInv'
  OBVIOUS
<1>1. PICK ps \in SUBSET Pids, state \in States \ {"unborn"} : Become(ps, state)
  <2>1. ASSUME NEW p \in Pids, Ends(p) \/ Signaled(p)
        PROVE  \E state \in States \ {"unborn"} : Become({p}, state)
    BY <2>1 DEF Ends, Signaled, States
  <2>2. ASSUME NEW sig, Key(sig)
        PROVE  \E ps \in SUBSET Pids, state \in States \ {"unborn"} : Become(ps, state)
    BY <2>2 DEF Key, States, Foreground
  <2> QED
    BY <2>1, <2>2 DEF Environment
<1>2. /\ proc' \in [Pids -> States]
      /\ unseen' \subseteq {p \in Pids : proc'[p] = "stopped"}
  BY <1>1, BecomeTypes DEF TInv
<1>3. /\ UNCHANGED <<main, command, frames, masked, keysTaken, jobs, group, tty>>
      /\ inputs' = inputs \/ Outside
  BY DEF Environment, Ends, Signaled, Key
<1>4. pending' \subseteq Sigs
  BY DEF Environment, Ends, Signaled, Key, TInv, TypeOK, Sigs
<1>5. inputs' \in 0..MaxInputs
  BY <1>3, SfishAssumption DEF Outside, TInv, TypeOK
<1> QED
  BY <1>2, <1>3, <1>4, <1>5 DEF TInv, TypeOK, CurrentKnown, ChildKnown, NumberKnown, JobNoted,
                                FramesBegun, command, pipes, frames, handled, jobs, States

\* A handler goes from one place to another, or returns.
LEMMA GoesOn ==
    ASSUME TInv, NEW sig \in Sigs, NEW from, At(sig, from), from # "none",
           NEW place \in HandlerPlaces \ {"none"}, Goes(sig, place)
    PROVE  /\ running' = running /\ at' \in [Sigs -> HandlerPlaces] /\ FramesBegun'
           /\ at[sig] = from /\ at'[sig] = place
           /\ \A s \in Sigs : s # sig => at'[s] = at[s]
<1>1. running' = running /\ at' = [at EXCEPT ![sig] = place] /\ at \in [Sigs -> HandlerPlaces]
  BY DEF Goes, TInv, TypeOK
<1>2. at[sig] = from
  BY DEF At
<1>3. \A s \in Sigs : at'[s] = IF s = sig THEN place ELSE at[s]
  BY <1>1
<1>4. FramesBegun'
  BY <1>1, <1>2, <1>3 DEF TInv, FramesBegun
<1> QED
  BY <1>1, <1>2, <1>3, <1>4

LEMMA ReturnsTo ==
    ASSUME TInv, NEW sig \in Sigs, NEW from, At(sig, from), Returns(sig)
    PROVE  /\ running' \in Seq(Sigs) /\ at' \in [Sigs -> HandlerPlaces] /\ FramesBegun'
           /\ at[sig] = from /\ at'[sig] = "none"
           /\ \A s \in Sigs : s # sig => at'[s] = at[s]
<1>1. /\ running' = Tail(running) /\ at' = [at EXCEPT ![sig] = "none"]
      /\ at \in [Sigs -> HandlerPlaces] /\ running \in Seq(Sigs)
      /\ running # <<>> /\ Head(running) = sig /\ at[sig] = from
  BY DEF Returns, At, TInv, TypeOK
<1>2. \A s \in Sigs : at'[s] = IF s = sig THEN "none" ELSE at[s]
  BY <1>1
<1>3. at' \in [Sigs -> HandlerPlaces]
  BY <1>1 DEF HandlerPlaces
<1>4. /\ Tail(running) \in Seq(Sigs) /\ DOMAIN Tail(running) = 1..(Len(running) - 1)
      /\ Len(running) \in Nat
      /\ \A i \in 2..Len(running) : Tail(running)[i - 1] = running[i]
  BY <1>1
<1>5. ASSUME NEW s \in Sigs, at'[s] # "none"
      PROVE  \E i \in DOMAIN running' : running'[i] = s
  <2>1. s # sig /\ at[s] # "none"
    BY <1>2, <1>5
  <2>2. PICK i \in DOMAIN running : running[i] = s
    BY <2>1 DEF TInv, FramesBegun
  <2>3. i \in 2..Len(running)
    BY <1>1, <2>1, <2>2
  <2>4. i - 1 \in DOMAIN running' /\ running'[i - 1] = s
    BY <1>1, <1>4, <2>2, <2>3
  <2> QED
    BY <2>4
<1> QED
  BY <1>1, <1>2, <1>3, <1>4, <1>5 DEF FramesBegun

\* What a step of the handler of sig does, as far as the types go.
HandlerStep(sig) ==
    /\ running' \in Seq(Sigs) /\ at' \in [Sigs -> HandlerPlaces] /\ FramesBegun'
    /\ old' \in [Sigs -> Seq(ListedJob)] /\ num' \in [Sigs -> Nat]
    /\ \A s \in Sigs : s # sig => at'[s] = at[s] /\ old'[s] = old[s] /\ num'[s] = num[s]
    /\ list' \in Seq(ListedJob) /\ jobNum' \in Nat
    /\ jobNum # 0 \/ list' # <<>> => jobNum' # 0
    /\ at'[sig] \in Added => currentJob # NoJob
    /\ at'[sig] \in Numbered => jobNum' # 0
    /\ at'[sig] = "link" => num'[sig] # 0
    /\ main = "unlink" => /\ Len(removal.rest) < Len(list')
                          /\ at'[sig] \in Linking => Len(removal.rest) < Len(old'[sig])
    /\ main' \in {main, "crashed"} \/ (main = "suspended" /\ main' = "woken")
    /\ proc' \in [Pids -> States] /\ unseen' \subseteq {p \in Pids : proc'[p] = "stopped"}
    /\ pending' \subseteq Sigs /\ torn' \in BOOLEAN /\ crossed' \in BOOLEAN
    /\ UNCHANGED <<command, masked, keysTaken, currentJob, removal, group, tty, inputs>>

LEMMA HandlerStepTypes ==
    ASSUME TInv, NEW sig \in Sigs, HandlerStep(sig)
    PROVE  TInv'
<1> USE DEF HandlerStep, command, pipes
<1>1. TypeOK'
  BY DEF TInv, TypeOK, Places, States
<1>2. CurrentKnown'
  BY DEF TInv, CurrentKnown
<1>3. ChildKnown'
  BY DEF TInv, ChildKnown, HasChild, Waiting
<1>4. NumberKnown'
  BY DEF TInv, NumberKnown
<1>5. JobNoted'
  BY DEF TInv, JobNoted
<1> QED
  BY <1>1, <1>2, <1>3, <1>4, <1>5 DEF TInv

\* A step of a handler that leaves the job list alone, and addJob's variables.
LEMMA ListUntouched ==
    ASSUME TInv, NEW sig \in Sigs,
           running' \in Seq(Sigs), at' \in [Sigs -> HandlerPlaces], FramesBegun',
           at'[sig] \notin Added, \A s \in Sigs : s # sig => at'[s] = at[s],
           main' \in {main, "crashed"} \/ (main = "suspended" /\ main' = "woken"),
           proc' \in [Pids -> States], unseen' \subseteq {p \in Pids : proc'[p] = "stopped"},
           pending' \subseteq Sigs,
           UNCHANGED <<command, old, num, handled, masked, keysTaken, currentJob, removal, group,
                       tty, inputs>>
    PROVE  TInv'
<1>1. HandlerStep(sig)
  BY DEF HandlerStep, TInv, TypeOK, NumberKnown, JobNoted, handled, Added, Numbered, Linking
<1> QED
  BY <1>1, HandlerStepTypes

LEMMA SignalTypes == TInv /\ (\E sig \in Sigs : Deliver(sig)) => TInv'
<1> SUFFICES ASSUME TInv, NEW sig \in Sigs, Deliver(sig)
             PROVE  TInv'
  OBVIOUS
<1> USE DEF jobs, children
<1>1. /\ running' = <<sig>> \o running /\ at' = [at EXCEPT ![sig] = Entry[sig]]
      /\ at \in [Sigs -> HandlerPlaces] /\ running \in Seq(Sigs)
  BY DEF Deliver, TInv, TypeOK
<1>2. Entry[sig] \in {"interrupt", "reap", "children"}
  BY DEF Entry, Sigs
<1>3. at' \in [Sigs -> HandlerPlaces] /\ \A s \in Sigs : at'[s] = IF s = sig THEN Entry[sig] ELSE at[s]
  BY <1>1, <1>2 DEF HandlerPlaces
<1>4. /\ <<sig>> \o running \in Seq(Sigs) /\ Len(running) \in Nat
      /\ DOMAIN (<<sig>> \o running) = 1..(Len(running) + 1) /\ (<<sig>> \o running)[1] = sig
      /\ \A i \in 1..Len(running) : (<<sig>> \o running)[i + 1] = running[i]
  BY <1>1
<1>5. ASSUME NEW s \in Sigs, at'[s] # "none"
      PROVE  \E i \in DOMAIN running' : running'[i] = s
  <2>1. CASE s = sig
    <3>1. 1 \in 1..(Len(running) + 1)
      BY <1>4
    <3>2. 1 \in DOMAIN running' /\ running'[1] = sig
      BY <1>1, <1>4, <3>1, Zenon
    <3> QED
      BY <2>1, <3>2
  <2>2. CASE s # sig
    <3>1. PICK i \in DOMAIN running : running[i] = s
      BY <1>3, <1>5, <2>2 DEF TInv, FramesBegun
    <3>2. i + 1 \in DOMAIN running' /\ running'[i + 1] = s
      BY <1>1, <1>4, <3>1
    <3> QED
      BY <3>2
  <2> QED
    BY <2>1, <2>2
<1>6. /\ proc' = proc /\ unseen' = unseen /\ pending' \subseteq pending
      /\ UNCHANGED <<command, old, num, handled, masked, keysTaken, currentJob, removal, group,
                     tty, inputs>>
      /\ main' = main \/ (main = "suspended" /\ main' = "woken")
  BY DEF Deliver, signals
<1>7. at'[sig] \notin Added
  BY <1>2, <1>3 DEF Added, Linking
<1>8. FramesBegun'
  BY <1>5 DEF FramesBegun
<1>9. running' \in Seq(Sigs)
  BY <1>1, <1>4
<1>10. /\ proc' \in [Pids -> States] /\ unseen' \subseteq {p \in Pids : proc'[p] = "stopped"}
       /\ pending' \subseteq Sigs
  <2>1. /\ proc \in [Pids -> States] /\ unseen \subseteq {p \in Pids : proc[p] = "stopped"}
        /\ pending \subseteq Sigs
    BY DEF TInv, TypeOK, States
  <2> QED
    BY <1>6, <2>1, Zenon
<1>11. \A s \in Sigs : s # sig => at'[s] = at[s]
  BY <1>3
<1>12. main' \in {main, "crashed"} \/ (main = "suspended" /\ main' = "woken")
  BY <1>6
<1> HIDE DEF jobs, children
<1> QED
  BY <1>3, <1>6, <1>7, <1>8, <1>9, <1>10, <1>11, <1>12, ListUntouched, Zenon

\* addJob, step by step.
LEMMA AddJobTypes ==
    ASSUME TInv, NEW sig \in Sigs, AddJob(sig)
    PROVE  TInv'
<1> USE DEF Adds, children, signals
<1>1. CASE AddTests(sig)
  <2> DEFINE place == IF list = <<>> THEN "first" ELSE "number"
  <2>1. At(sig, "add") /\ Goes(sig, place) /\ currentJob # NoJob
    BY <1>1 DEF AddTests, NoCurrentJob
  <2>2. place \in {"first", "number"} /\ place \in HandlerPlaces \ {"none"}
    BY DEF HandlerPlaces
  <2>3. /\ running' = running /\ at' \in [Sigs -> HandlerPlaces] /\ FramesBegun'
        /\ at'[sig] = place /\ \A s \in Sigs : s # sig => at'[s] = at[s]
    BY <2>1, <2>2, GoesOn
  <2>4. /\ old' \in [Sigs -> Seq(ListedJob)] /\ old'[sig] = list
        /\ \A s \in Sigs : s # sig => old'[s] = old[s]
    BY <1>1 DEF AddTests, TInv, TypeOK
  <2>5. UNCHANGED <<num, handled, main, command, signals, currentJob, removal, children, tty, inputs>>
    BY <1>1 DEF AddTests
  <2>6. HandlerStep(sig)
    BY <2>1, <2>2, <2>3, <2>4, <2>5
    DEF HandlerStep, TInv, TypeOK, NumberKnown, JobNoted, handled, Numbered, Linking, States
  <2> QED
    BY <2>6, HandlerStepTypes
<1>2. CASE AddFirst(sig)
  <2>1. At(sig, "first") /\ Goes(sig, "number")
    BY <1>2 DEF AddFirst
  <2>2. /\ running' = running /\ at' \in [Sigs -> HandlerPlaces] /\ FramesBegun'
        /\ at[sig] = "first" /\ at'[sig] = "number" /\ \A s \in Sigs : s # sig => at'[s] = at[s]
    BY <2>1, GoesOn DEF HandlerPlaces
  <2>3. jobNum' = 1
        /\ UNCHANGED <<old, num, list, torn, crossed, main, command, signals, currentJob, removal,
                       children, tty, inputs>>
    BY <1>2 DEF AddFirst, FirstNumber
  <2>4. HandlerStep(sig)
    BY <2>2, <2>3 DEF HandlerStep, TInv, TypeOK, CurrentKnown, NumberKnown, JobNoted, Added, Numbered,
       Linking, States
  <2> QED
    BY <2>4, HandlerStepTypes
<1>3. CASE AddNumbers(sig)
  <2>1. At(sig, "number") /\ Goes(sig, "link")
    BY <1>3 DEF AddNumbers
  <2>2. /\ running' = running /\ at' \in [Sigs -> HandlerPlaces] /\ FramesBegun'
        /\ at[sig] = "number" /\ at'[sig] = "link" /\ \A s \in Sigs : s # sig => at'[s] = at[s]
    BY <2>1, GoesOn DEF HandlerPlaces
  <2>3. /\ num' \in [Sigs -> Nat] /\ num'[sig] = jobNum
        /\ \A s \in Sigs : s # sig => num'[s] = num[s]
    BY <1>3 DEF AddNumbers, NumberRead, TInv, TypeOK
  <2>4. UNCHANGED <<old, handled, main, command, signals, currentJob, removal, children, tty, inputs>>
    BY <1>3 DEF AddNumbers
  <2>5. HandlerStep(sig)
    BY <2>2, <2>3, <2>4 DEF HandlerStep, TInv, TypeOK, CurrentKnown, NumberKnown, JobNoted, Added,
       Numbered, Linking, States, handled
  <2> QED
    BY <2>5, HandlerStepTypes
<1>4. CASE AddLinks(sig)
  <2> DEFINE new == [currentJob EXCEPT !.num = num[sig]]
  <2>1. At(sig, "link") /\ Goes(sig, "count")
    BY <1>4 DEF AddLinks
  <2>2. /\ running' = running /\ at' \in [Sigs -> HandlerPlaces] /\ FramesBegun'
        /\ at[sig] = "link" /\ at'[sig] = "count" /\ \A s \in Sigs : s # sig => at'[s] = at[s]
    BY <2>1, GoesOn DEF HandlerPlaces
  <2>3. new \in ListedJob
    BY <2>2 DEF TInv, TypeOK, CurrentKnown, NumberKnown, Added, Linking, Job, ListedJob
  <2>4. list' = <<new>> \o old[sig] /\ old[sig] \in Seq(ListedJob)
    BY <1>4 DEF AddLinks, TInv, TypeOK
  <2>5. list' \in Seq(ListedJob) /\ Len(list') = Len(old[sig]) + 1
    <3> HIDE DEF new
    <3> QED
      BY <2>3, <2>4
  <2> HIDE DEF new
  <2>6. /\ num' \in [Sigs -> Nat] /\ old' \in [Sigs -> Seq(ListedJob)]
        /\ \A s \in Sigs : s # sig => num'[s] = num[s] /\ old'[s] = old[s]
    BY <1>4, NoneListed DEF AddLinks, TInv, TypeOK
  <2>7. torn' \in BOOLEAN /\ crossed' \in BOOLEAN
        /\ UNCHANGED <<jobNum, main, command, signals, currentJob, removal, children, tty, inputs>>
    BY <1>4 DEF AddLinks
  <2>8. main = "unlink" => Len(removal.rest) < Len(list')
    BY <2>2, <2>4, <2>5 DEF TInv, TypeOK, JobNoted, Linking
  <2>9. jobNum # 0 /\ currentJob # NoJob
    BY <2>2 DEF TInv, NumberKnown, CurrentKnown, Numbered, Added, Linking
  <2>10. HandlerStep(sig)
    BY <2>2, <2>5, <2>6, <2>7, <2>8, <2>9 DEF HandlerStep, TInv, TypeOK, Linking, States
  <2> QED
    BY <2>10, HandlerStepTypes
<1>5. CASE AddCounts(sig)
  <2>1. At(sig, "count") /\ Goes(sig, "next")
    BY <1>5 DEF AddCounts
  <2>2. /\ running' = running /\ at' \in [Sigs -> HandlerPlaces] /\ FramesBegun'
        /\ at[sig] = "count" /\ at'[sig] = "next" /\ \A s \in Sigs : s # sig => at'[s] = at[s]
    BY <2>1, GoesOn DEF HandlerPlaces
  <2>3. num' \in [Sigs -> Nat] /\ \A s \in Sigs : s # sig => num'[s] = num[s]
    BY <1>5 DEF AddCounts, TInv, TypeOK
  <2>4. UNCHANGED <<old, handled, main, command, signals, currentJob, removal, children, tty, inputs>>
    BY <1>5 DEF AddCounts
  <2>5. HandlerStep(sig)
    BY <2>2, <2>3, <2>4 DEF HandlerStep, TInv, TypeOK, CurrentKnown, NumberKnown, JobNoted, Added,
       Numbered, Linking, States, handled
  <2> QED
    BY <2>5, HandlerStepTypes
<1>6. CASE AddNext(sig)
  <2>1. At(sig, "next") /\ Goes(sig, "tell")
    BY <1>6 DEF AddNext
  <2>2. /\ running' = running /\ at' \in [Sigs -> HandlerPlaces] /\ FramesBegun'
        /\ at[sig] = "next" /\ at'[sig] = "tell" /\ \A s \in Sigs : s # sig => at'[s] = at[s]
    BY <2>1, GoesOn DEF HandlerPlaces
  <2>3. /\ num' \in [Sigs -> Nat] /\ \A s \in Sigs : s # sig => num'[s] = num[s]
        /\ jobNum' \in Nat \ {0}
    BY <1>6 DEF AddNext, TInv, TypeOK
  <2>4. UNCHANGED <<old, list, torn, crossed, main, command, signals, currentJob, removal, children,
                    tty, inputs>>
    BY <1>6 DEF AddNext
  <2>5. HandlerStep(sig)
    BY <2>2, <2>3, <2>4 DEF HandlerStep, TInv, TypeOK, CurrentKnown, NumberKnown, JobNoted, Added,
       Numbered, Linking, States
  <2> QED
    BY <2>5, HandlerStepTypes
<1> QED
  BY <1>1, <1>2, <1>3, <1>4, <1>5, <1>6 DEF AddJob

LEMMA HandlerTypes == TInv /\ Handlers => TInv'
<1> SUFFICES ASSUME TInv, Handlers
             PROVE  TInv'
  OBVIOUS
<1> USE DEF jobs, children, signals
<1>a. "INT" \in Sigs /\ "CHLD" \in Sigs /\ {"CHLD", "TSTP"} \subseteq Sigs
  BY DEF Sigs
<1>1. CASE Interrupt
  <2>1. SendToCurrent("signaled") /\ At("INT", "interrupt") /\ Returns("INT")
        /\ main' \in {main, "crashed"}
        /\ UNCHANGED <<command, old, num, handled, masked, keysTaken, currentJob, removal, group,
                       tty, inputs>>
    BY <1>1 DEF Interrupt
  <2>2. /\ proc' \in [Pids -> States] /\ unseen' \subseteq {p \in Pids : proc'[p] = "stopped"}
        /\ pending' \in {pending, pending \cup {"CHLD"}}
    BY <2>1, SendTypes DEF TInv
  <2>3. pending' \subseteq Sigs
    BY <1>a, <2>2 DEF TInv, TypeOK
  <2>4. /\ running' \in Seq(Sigs) /\ at' \in [Sigs -> HandlerPlaces] /\ FramesBegun'
        /\ at'["INT"] \notin Added /\ \A s \in Sigs : s # "INT" => at'[s] = at[s]
    BY <1>a, <2>1, ReturnsTo DEF Added, Linking
  <2> QED
    BY <1>a, <2>1, <2>2, <2>3, <2>4, ListUntouched
<1>2. CASE Children
  <2>1. /\ proc' \in [Pids -> States] /\ unseen' \subseteq {p \in Pids : proc'[p] = "stopped"}
    <3>1. CASE UNCHANGED <<proc, unseen>>
      BY <3>1 DEF TInv, TypeOK, States
    <3>2. ASSUME NEW p \in Reportable,
                 proc' = IF Zombie(p) THEN [proc EXCEPT ![p] = "reaped"] ELSE proc,
                 unseen' = unseen \ {p}
          PROVE  /\ proc' \in [Pids -> States]
                 /\ unseen' \subseteq {q \in Pids : proc'[q] = "stopped"}
      BY <3>2 DEF TInv, TypeOK, States
    <3> QED
      BY <1>2, <3>1, <3>2 DEF Children
  <2>2. At("CHLD", "children")
        /\ (Returns("CHLD") \/ Goes("CHLD", "children") \/ Goes("CHLD", "reap"))
        /\ UNCHANGED <<main, command, old, num, handled, pending, masked, keysTaken, currentJob,
                       removal, group, tty, inputs>>
    BY <1>2 DEF Children, NextChild
  <2>3. /\ running' \in Seq(Sigs) /\ at' \in [Sigs -> HandlerPlaces] /\ FramesBegun'
        /\ at'["CHLD"] \notin Added /\ \A s \in Sigs : s # "CHLD" => at'[s] = at[s]
    <3>1. CASE Returns("CHLD")
      BY <1>a, <2>2, <3>1, ReturnsTo DEF Added, Linking
    <3>2. ASSUME NEW place \in {"children", "reap"}, Goes("CHLD", place)
          PROVE  /\ running' \in Seq(Sigs) /\ at' \in [Sigs -> HandlerPlaces] /\ FramesBegun'
                 /\ at'["CHLD"] \notin Added /\ \A s \in Sigs : s # "CHLD" => at'[s] = at[s]
      <4>1. place \in HandlerPlaces \ {"none"} /\ place \notin Added
        BY DEF HandlerPlaces, Added, Linking
      <4>2. running \in Seq(Sigs) /\ "children" # "none"
        BY DEF TInv, TypeOK
      <4> QED
        BY <1>a, <2>2, <3>2, <4>1, <4>2, GoesOn, Zenon
    <3> QED
      BY <2>2, <3>1, <3>2
  <2>4. pending' \subseteq Sigs
    BY <2>2 DEF TInv, TypeOK
  <2> QED
    BY <1>a, <2>1, <2>2, <2>3, <2>4, ListUntouched
<1>3. ASSUME NEW sig \in Sigs, StopReaps(sig) PROVE TInv'
  <2>1. /\ proc' \in [Pids -> States] /\ unseen' \subseteq {p \in Pids : proc'[p] = "stopped"}
    BY <1>3 DEF StopReaps, Reaps, Zombie, TInv, TypeOK, States
  <2>2. At(sig, "reap") /\ Goes(sig, "add")
        /\ UNCHANGED <<main, command, old, num, handled, pending, masked, keysTaken, currentJob,
                       removal, group, tty, inputs>>
    BY <1>3 DEF StopReaps
  <2>3. /\ running' \in Seq(Sigs) /\ at' \in [Sigs -> HandlerPlaces] /\ FramesBegun'
        /\ at'[sig] \notin Added /\ \A s \in Sigs : s # sig => at'[s] = at[s]
    BY <2>2, GoesOn DEF HandlerPlaces, Added, Linking, TInv, TypeOK
  <2>4. pending' \subseteq Sigs
    BY <2>2 DEF TInv, TypeOK
  <2> QED
    BY <2>1, <2>2, <2>3, <2>4, ListUntouched
<1>4. ASSUME NEW sig \in Sigs, StopCrashes(sig) PROVE TInv'
  BY <1>4 DEF StopCrashes, command, pipes, frames, handled, TInv, TypeOK, CurrentKnown, ChildKnown,
     NumberKnown, JobNoted, FramesBegun, HasChild, Waiting, Places
<1>5. ASSUME NEW sig \in Sigs, StopTells(sig) PROVE TInv'
  <2>1. SendToCurrent("stopped") /\ At(sig, "tell") /\ (Returns(sig) \/ Goes(sig, "children"))
        /\ UNCHANGED <<main, command, old, num, handled, masked, keysTaken, currentJob, removal,
                       group, tty, inputs>>
    BY <1>5 DEF StopTells, NextChild
  <2>2. /\ proc' \in [Pids -> States] /\ unseen' \subseteq {p \in Pids : proc'[p] = "stopped"}
        /\ pending' \in {pending, pending \cup {"CHLD"}}
    BY <2>1, SendTypes DEF TInv
  <2>3. pending' \subseteq Sigs
    BY <1>a, <2>2 DEF TInv, TypeOK
  <2>4. /\ running' \in Seq(Sigs) /\ at' \in [Sigs -> HandlerPlaces] /\ FramesBegun'
        /\ at'[sig] \notin Added /\ \A s \in Sigs : s # sig => at'[s] = at[s]
    <3>1. CASE Returns(sig)
      BY <2>1, <3>1, ReturnsTo DEF Added, Linking
    <3>2. CASE Goes(sig, "children")
      BY <2>1, <3>2, GoesOn DEF HandlerPlaces, Added, Linking, TInv, TypeOK
    <3> QED
      BY <2>1, <3>1, <3>2
  <2> QED
    BY <2>1, <2>2, <2>3, <2>4, ListUntouched
<1> QED
  BY <1>a, <1>1, <1>2, <1>3, <1>4, <1>5, SignalTypes, AddJobTypes DEF Handlers, Stop

\* A part of a list of jobs.
LEMMA PartOfList ==
    ASSUME NEW s \in Seq(ListedJob), NEW m \in Nat \ {0}, NEW n \in Nat, n <= Len(s), m <= n + 1
    PROVE  /\ SubSeq(s, m, n) \in Seq(ListedJob) /\ Len(SubSeq(s, m, n)) = n - m + 1
           /\ \A i \in 1..(n - m + 1) : SubSeq(s, m, n)[i] = s[m + i - 1]
<1>1. \A i \in m..n : s[i] \in ListedJob
  OBVIOUS
<1>2. m \in Int /\ n \in Int
  OBVIOUS
<1>3. SubSeq(s, m, n) \in Seq(ListedJob)
  BY <1>1, <1>2, SubSeqProperties
<1>4. Len(SubSeq(s, m, n)) = n - m + 1
  BY <1>1, <1>2
<1>5. \A i \in 1..(n - m + 1) : SubSeq(s, m, n)[i] = s[m + i - 1]
  BY <1>1, <1>2
<1> QED
  BY <1>3, <1>4, <1>5

LEMMA NextPidUnborn == Unborn # {} => NextPid \in Pids /\ proc[NextPid] = "unborn"
BY DEF Unborn, NextPid

\* What removeJob leaves of the list.
LEMMA UnlinkedTypes ==
    ASSUME TInv, main = "unlink"
    PROVE  /\ Unlinked \in Seq(ListedJob)
           /\ ~removal.atHead => /\ Found \in DOMAIN list
                                /\ Unlinked = SubSeq(list, 1, Found - 1)
                                              \o SubSeq(list, Found + 1, Len(list))
<1>1. CASE removal.atHead
  BY <1>1 DEF Unlinked, TInv, TypeOK
<1>2. CASE ~removal.atHead
  <2> DEFINE n == Found
  <2>1. list \in Seq(ListedJob) /\ n \in 1..Len(list) /\ Len(list) \in Nat
    <3>1. removal.rest \in Seq(ListedJob) /\ list \in Seq(ListedJob)
      BY DEF TInv, TypeOK
    <3>2. Len(removal.rest) \in Nat /\ Len(list) \in Nat /\ Len(removal.rest) < Len(list)
      BY <3>1 DEF TInv, JobNoted
    <3> QED
      BY <3>1, <3>2 DEF Found
  <2>2. Unlinked = SubSeq(list, 1, n - 1) \o SubSeq(list, n + 1, Len(list))
    BY <1>2 DEF Unlinked, RemoveAt
  <2> HIDE DEF n
  <2>3. SubSeq(list, 1, n - 1) \in Seq(ListedJob) /\ SubSeq(list, n + 1, Len(list)) \in Seq(ListedJob)
    BY <2>1, SubSeqProperties
  <2>4. Unlinked \in Seq(ListedJob)
    BY <2>2, <2>3, ConcatProperties
  <2> QED
    BY <2>1, <2>2, <2>4 DEF n
<1> QED
  BY <1>1, <1>2

LEMMA LaunchTypes ==
    TInv /\ (RefuseProgram \/ InstallHandlers \/ Fork \/ SetJob \/ SetGroup \/ SetForeground
             \/ Resume \/ Leave) => TInv'
<1> SUFFICES ASSUME TInv, \/ RefuseProgram \/ InstallHandlers \/ Fork \/ SetJob \/ SetGroup
                             \/ SetForeground \/ Resume \/ Leave
             PROVE  TInv'
  OBVIOUS
<1> USE DEF command, pipes, frames, handled, jobs, children, signals
<1>1. CASE RefuseProgram \/ InstallHandlers
  <2>1. CASE RefuseProgram
    BY <2>1, SMTT(30) DEF RefuseProgram, Steps, TInv, TypeOK, CurrentKnown, ChildKnown, NumberKnown, JobNoted, FramesBegun,
       HasChild, Waiting, Places
  <2>2. CASE InstallHandlers
    BY <2>2, SMTT(30) DEF InstallHandlers, Steps, TInv, TypeOK, CurrentKnown, ChildKnown, NumberKnown,
       JobNoted, FramesBegun, HasChild, Waiting, Places
  <2> QED
    BY <1>1, <2>1, <2>2
<1>2. CASE Fork
  <2>1. newest' = NextPid /\ NextPid \in Pids /\ proc[NextPid] = "unborn"
    BY <1>2, NextPidUnborn DEF Fork
  <2>2. /\ proc' = [proc EXCEPT ![NextPid] = "running"]
        /\ group' = [group EXCEPT ![NextPid] = Shell]
        /\ writeEnds' = writeEnds \cup {NextPid}
        /\ reads' = [reads EXCEPT ![NextPid] = ifd]
        /\ holds' = [holds EXCEPT ![NextPid] = writeEnds']
        /\ masked' = TRUE /\ main' = "forked" /\ main = "fork"
        /\ UNCHANGED <<line, programs, pgid, ifd, frames, keysTaken, pending, jobs, unseen, tty,
                       inputs>>
    BY <1>2 DEF Fork, Steps, MaskedAtFork
  <2>3. proc' \in [Pids -> States] /\ unseen' \subseteq {p \in Pids : proc'[p] = "stopped"}
    BY <2>1, <2>2 DEF TInv, TypeOK, States
  <2>4. /\ group' \in [Pids -> Pids \cup {NoPid, Shell}] /\ writeEnds' \in SUBSET Pids
        /\ reads' \in [Pids -> PidOrNone]
    BY <2>1, <2>2 DEF TInv, TypeOK, PidOrNone
  <2>5. holds' \in [Pids -> SUBSET Pids]
    BY <2>2, <2>4 DEF TInv, TypeOK
  <2> QED
    BY <2>1, <2>2, <2>3, <2>4, <2>5
    DEF TInv, TypeOK, CurrentKnown, ChildKnown, NumberKnown, JobNoted, FramesBegun, HasChild, Waiting, Places, PidOrNone,
        States
<1>3. CASE SetJob
  <2>1. newest \in Pids /\ main = "forked" /\ main' = "grouping"
    BY <1>3 DEF SetJob, Steps, TInv, ChildKnown, HasChild, Waiting
  <2>2. pgid' \in Pids
    BY <1>3, <2>1 DEF SetJob, TInv, TypeOK, PidOrNone
  <2>3. currentJob' \in Job /\ currentJob'.pid \in Pids /\ currentJob'.pgid \in Pids
    BY <1>3, <2>1, <2>2, ZenonT(30) DEF SetJob, TInv, TypeOK, Job, PidOrNone
  <2> QED
    <3>1. currentJob' # NoJob
      BY <2>3, SfishAssumption DEF NoJob
    <3>2. TypeOK'
      BY <1>3, <2>1, <2>2, <2>3 DEF SetJob, TInv, TypeOK, Places, PidOrNone
    <3> QED
      BY <1>3, <2>1, <2>3, <3>1, <3>2 DEF SetJob, TInv, CurrentKnown, ChildKnown, NumberKnown,
         JobNoted, FramesBegun, HasChild, Waiting
<1>4. CASE SetGroup
  <2>1. newest \in Pids /\ main = "grouping" /\ main' = "foreground"
    BY <1>4 DEF SetGroup, Steps, TInv, ChildKnown, HasChild, Waiting
  <2>2. group' \in [Pids -> Pids \cup {NoPid, Shell}]
    BY <1>4, <2>1 DEF SetGroup, TInv, TypeOK, PidOrNone
  <2> QED
    BY <1>4, <2>1, <2>2 DEF SetGroup, TInv, TypeOK, CurrentKnown, ChildKnown, NumberKnown, JobNoted, FramesBegun,
       HasChild, Waiting, Places
<1>5. CASE SetForeground
  <2>1. newest \in Pids /\ main = "foreground" /\ main' = "suspended"
    BY <1>5 DEF SetForeground, Steps, TInv, ChildKnown, HasChild, Waiting
  <2>2. tty' \in Pids \cup {Shell}
    BY <1>5, <2>1 DEF SetForeground, TInv, TypeOK
  <2> QED
    BY <1>5, <2>1, <2>2 DEF SetForeground, TInv, TypeOK, CurrentKnown, ChildKnown, NumberKnown, JobNoted, FramesBegun,
       HasChild, Waiting, Places
<1>6. CASE Resume
  <2>1. newest \in Pids /\ main' \in {"leave", "launch"}
    BY <1>6 DEF Resume, Steps, TInv, ChildKnown, HasChild, Waiting
  <2>2. TypeOK'
    <3>1. ifd' \in PidOrNone /\ writeEnds' \in SUBSET Pids
      BY <1>6, <2>1 DEF Resume, WriteEndClosed, TInv, TypeOK, PidOrNone
    <3>2. masked' \in BOOLEAN
      BY <1>6 DEF Resume
    <3>3. main' \in Places
      BY <2>1 DEF Places
    <3> QED
      BY <1>6, <3>1, <3>2, <3>3 DEF Resume, TInv, TypeOK
  <2>3. CurrentKnown' /\ ChildKnown' /\ NumberKnown' /\ JobNoted' /\ FramesBegun'
    BY <1>6, <2>1, SMTT(30) DEF Resume, Steps, TInv, CurrentKnown, ChildKnown, NumberKnown, JobNoted, FramesBegun, HasChild,
       Waiting
  <2> QED
    BY <2>2, <2>3 DEF TInv
<1>7. CASE Leave
  BY <1>7 DEF Leave, Steps, GivenBack, TInv, TypeOK, CurrentKnown, ChildKnown, NumberKnown, JobNoted, FramesBegun,
              HasChild, Waiting, Places
<1> QED
  BY <1>1, <1>2, <1>3, <1>4, <1>5, <1>6, <1>7

LEMMA RemovalTypes ==
    TInv /\ (FgContinues \/ FgForeground \/ RemoveFind \/ RemoveUnlink) => TInv'
<1> SUFFICES ASSUME TInv, FgContinues \/ FgForeground \/ RemoveFind \/ RemoveUnlink
             PROVE  TInv'
  OBVIOUS
<1> USE DEF command, pipes, frames, handled, jobs, children, signals
<1>1. CASE FgContinues
  <2>1. currentJob.pid \in Pids
    BY <1>1 DEF FgContinues, Steps, TInv, CurrentKnown
  <2>2. /\ proc' \in [Pids -> States] /\ unseen' \subseteq {p \in Pids : proc'[p] = "stopped"}
        /\ pending' \in {pending, pending \cup {"CHLD"}}
    <3>1. CASE Become({currentJob.pid}, "running") /\ pending' = pending \cup {"CHLD"}
      <4>1. {currentJob.pid} \in SUBSET Pids /\ "running" \in States \ {"unborn"}
        BY <2>1 DEF States
      <4> QED
        BY <4>1, <3>1, BecomeTypes DEF TInv
    <3>2. CASE UNCHANGED <<proc, unseen, pending>>
      BY <3>2 DEF TInv, TypeOK, States
    <3> QED
      BY <1>1, <3>1, <3>2 DEF FgContinues
  <2> QED
    <3>1. pending' \subseteq Sigs
      BY <2>2 DEF Sigs, TInv, TypeOK
    <3>2. TypeOK'
      BY <1>1, <2>2, <3>1 DEF FgContinues, TInv, TypeOK, Places, States
    <3> QED
      BY <1>1, <3>2 DEF FgContinues, Steps, TInv, CurrentKnown, ChildKnown, NumberKnown,
         JobNoted, FramesBegun, HasChild, Waiting
<1>2. CASE FgForeground
  <2>1. currentJob.pid \in Pids /\ currentJob.pgid \in Pids
    BY <1>2 DEF FgForeground, Steps, TInv, CurrentKnown
  <2>2. removal' \in [pid : PidOrNone, atHead : BOOLEAN, rest : Seq(ListedJob)]
    BY <1>2, <2>1, NoneListed DEF FgForeground, NoRemoval, PidOrNone
  <2>3. tty' \in Pids \cup {Shell}
    BY <1>2, <2>1 DEF FgForeground, TInv, TypeOK
  <2> QED
    BY <1>2, <2>2, <2>3 DEF FgForeground, Steps, TInv, TypeOK, CurrentKnown, ChildKnown,
       NumberKnown, JobNoted, FramesBegun, HasChild, Waiting, Places
<1>3. CASE RemoveFind
  <2>1. CASE removal' = NoRemoval /\ main' = "leave"
    <3>1. removal' \in [pid : PidOrNone, atHead : BOOLEAN, rest : Seq(ListedJob)]
      BY <2>1, NoneListed DEF NoRemoval, PidOrNone
    <3> QED
      BY <1>3, <2>1, <3>1 DEF RemoveFind, TInv, TypeOK, CurrentKnown, ChildKnown, NumberKnown,
         JobNoted, FramesBegun, HasChild, Waiting, Places
  <2>2. ASSUME NEW i \in DOMAIN list, main' = "unlink",
               removal' = [removal EXCEPT !.atHead = (i = 1),
                                          !.rest = SubSeq(list, i + 1, Len(list))]
        PROVE  TInv'
    <3>1. list \in Seq(ListedJob) /\ list[i] \in ListedJob /\ Len(list) \in Nat
      BY DEF TInv, TypeOK
    <3>2. /\ SubSeq(list, i + 1, Len(list)) \in Seq(ListedJob)
          /\ Len(SubSeq(list, i + 1, Len(list))) = Len(list) - (i + 1) + 1
      <4>1. i + 1 \in Nat \ {0} /\ Len(list) <= Len(list) /\ i + 1 <= Len(list) + 1
        BY <3>1
      <4> QED
        BY <3>1, <4>1, PartOfList, Zenon
    <3>3. Len(list) - (i + 1) + 1 < Len(list)
      BY <3>1
    <3>4. removal' \in [pid : PidOrNone, atHead : BOOLEAN, rest : Seq(ListedJob)]
      BY <2>2, <3>2 DEF TInv, TypeOK
    <3>5. list # <<>>
      BY <3>1
    <3>6. Len(removal'.rest) < Len(list)
      BY <2>2, <3>2, <3>3 DEF TInv, TypeOK
    <3>7. \A s \in Sigs : at[s] = "none"
      BY <1>3, NoFrames DEF RemoveFind, Steps
    <3> QED
      BY <1>3, <2>2, <3>4, <3>5, <3>6, <3>7 DEF Linking, RemoveFind, TInv, TypeOK, CurrentKnown, ChildKnown,
         NumberKnown, JobNoted, FramesBegun, HasChild, Waiting, Places
  <2> QED
    BY <1>3, <2>1, <2>2 DEF RemoveFind, JobsOf
<1>4. CASE RemoveUnlink
  <2>1. list' \in Seq(ListedJob)
    BY <1>4, UnlinkedTypes DEF RemoveUnlink, Steps
  <2>2. removal' \in [pid : PidOrNone, atHead : BOOLEAN, rest : Seq(ListedJob)]
    BY <1>4, NoneListed DEF RemoveUnlink, NoRemoval, PidOrNone
  <2> QED
    BY <1>4, <2>1, <2>2 DEF RemoveUnlink, Steps, TInv, TypeOK, CurrentKnown, ChildKnown, NumberKnown,
       JobNoted, FramesBegun, HasChild, Waiting, Places
<1> QED
  BY <1>1, <1>2, <1>3, <1>4

LEMMA UserTypes == TInv /\ User => TInv'
<1> SUFFICES ASSUME TInv, User
             PROVE  TInv'
  OBVIOUS
<1> USE DEF command, pipes, frames, handled, jobs, children, signals
<1>1. inputs' \in 0..MaxInputs
  <2>1. Outside
    BY DEF User, ReadLine, Fg, KillJob, KillPid, KillNothing
  <2> QED
    BY <2>1, SfishAssumption DEF Outside, TInv, TypeOK
<1>2. ASSUME NEW l \in Lines, ReadLine(l) PROVE TInv'
  BY <1>1, <1>2 DEF ReadLine, Steps, TInv, TypeOK, CurrentKnown, ChildKnown, NumberKnown,
     JobNoted, FramesBegun, HasChild, Waiting, Places, PidOrNone
<1>3. ASSUME NEW j, Fg(j) PROVE TInv'
  <2>1. CASE main' = "continue"
    <3>1. PICK i \in DOMAIN list : currentJob' = [list[i] EXCEPT !.num = 0]
      BY <1>3, <2>1 DEF Fg
    <3>2. list[i] \in ListedJob
      BY DEF TInv, TypeOK
    <3>3. currentJob' \in Job /\ currentJob'.pid \in Pids /\ currentJob'.pgid \in Pids
      BY <3>1, <3>2 DEF ListedJob, Job, PidOrNone
    <3>4. currentJob' # NoJob
      BY <3>3, SfishAssumption DEF NoJob
    <3> QED
      BY <1>1, <1>3, <2>1, <3>3, <3>4 DEF Fg, Steps, TInv, TypeOK, CurrentKnown, ChildKnown,
         NumberKnown, JobNoted, FramesBegun, HasChild, Waiting, Places
  <2>2. CASE main' = "crashed" /\ UNCHANGED currentJob
    BY <1>1, <1>3, <2>2 DEF Fg, Steps, TInv, TypeOK, CurrentKnown, ChildKnown, NumberKnown,
       JobNoted, FramesBegun, HasChild, Waiting, Places
  <2> QED
    BY <1>3, <2>1, <2>2 DEF Fg
<1>4. ASSUME NEW p \in PidOrNone, Kills(p)
      PROVE  /\ proc' \in [Pids -> States]
             /\ unseen' \subseteq {q \in Pids : proc'[q] = "stopped"}
             /\ pending' \in {pending, pending \cup {"CHLD"}} /\ main' = "remove"
             /\ removal' \in [pid : PidOrNone, atHead : BOOLEAN, rest : Seq(ListedJob)]
  <2>1. CASE Alive(p)
    <3>1. {p} \in SUBSET Pids /\ "ended" \in States \ {"unborn"} /\ Become({p}, "ended")
      BY <1>4, <2>1 DEF Kills, Alive, States
    <3>2. /\ proc' \in [Pids -> States]
          /\ unseen' \subseteq {q \in Pids : proc'[q] = "stopped"}
      BY <3>1, BecomeTypes DEF TInv
    <3> QED
      BY <1>4, <2>1, <3>2, NoneListed DEF Kills, NoRemoval, PidOrNone
  <2>2. CASE ~Alive(p)
    BY <1>4, <2>2, NoneListed DEF Kills, NoRemoval, PidOrNone, TInv, TypeOK, States
  <2> QED
    BY <2>1, <2>2
<1>5. ASSUME NEW p \in PidOrNone, Kills(p), main = "prompt",
             UNCHANGED <<command, frames, masked, keysTaken, handled, currentJob,
                         group, tty>>
      PROVE  TInv'
  <2>1. /\ proc' \in [Pids -> States]
        /\ unseen' \subseteq {q \in Pids : proc'[q] = "stopped"}
        /\ pending' \in {pending, pending \cup {"CHLD"}} /\ main' = "remove"
        /\ removal' \in [pid : PidOrNone, atHead : BOOLEAN, rest : Seq(ListedJob)]
    BY <1>4, <1>5
  <2> QED
    <3>1. pending' \subseteq Sigs
      BY <2>1 DEF Sigs, TInv, TypeOK
    <3>2. TypeOK'
      BY <1>1, <1>5, <2>1, <3>1 DEF TInv, TypeOK, Places, States
    <3> QED
      BY <1>5, <2>1, <3>2 DEF TInv, CurrentKnown, ChildKnown, NumberKnown, JobNoted, FramesBegun,
         HasChild, Waiting
<1>6. ASSUME NEW p \in Pids, KillPid(p) PROVE TInv'
  BY <1>5, <1>6 DEF KillPid, Steps, PidOrNone
<1>7. ASSUME NEW j, KillJob(j) PROVE TInv'
  <2>1. CASE list # <<>> /\ Kills(list[1].pid)
    <3>1. list[1].pid \in PidOrNone
      <4>1. list \in Seq(ListedJob) /\ 1 \in 1..Len(list)
        BY <2>1 DEF TInv, TypeOK
      <4>2. list[1] \in ListedJob
        BY <4>1
      <4> QED
        BY <4>2 DEF ListedJob, PidOrNone
    <3> QED
      BY <3>1, <2>1, <1>7, <1>5 DEF KillJob, Steps
  <2>2. CASE main' = "stuck" /\ UNCHANGED <<proc, unseen, pending, removal>>
    BY <1>1, <1>7, <2>2 DEF KillJob, Steps, TInv, TypeOK, CurrentKnown, ChildKnown, NumberKnown,
       JobNoted, FramesBegun, HasChild, Waiting, Places
  <2>3. CASE Kills(NoPid)
    BY <2>3, <1>7, <1>5 DEF KillJob, Steps, PidOrNone
  <2> QED
    BY <1>7, <2>1, <2>2, <2>3 DEF KillJob
<1>8. CASE KillNothing
  BY <1>1, <1>8 DEF KillNothing, Steps, TInv, TypeOK, CurrentKnown, ChildKnown, NumberKnown,
     JobNoted, FramesBegun, HasChild, Waiting, Places
<1> QED
  BY <1>2, <1>3, <1>6, <1>7, <1>8 DEF User

LEMMA StepTypes == TInv /\ [Next]_vars => TInv'
<1>1. TInv /\ UNCHANGED vars => TInv'
  BY DEF vars, command, pipes, frames, handled, jobs, children, signals, TInv, TypeOK, CurrentKnown, ChildKnown,
         NumberKnown, JobNoted, FramesBegun
<1> QED
  BY <1>1, EnvironmentTypes, HandlerTypes, LaunchTypes, RemovalTypes, UserTypes
  DEF Next, Loop

\* Whatever children, handlers and the user do, the types hold; in particular a
\* job in the list always names a process, and no handler adds the empty current
\* job to it.
THEOREM TypeCorrect == Spec => []TypeOK
<1>1. TInv => TypeOK
  BY DEF TInv
<1> QED
  BY <1>1, InitTypes, StepTypes, PTL DEF Spec

-----------------------------------------------------------------------------
(* Signals *)

\* From fork until sigsuspend the signals are blocked, so a change of the child
\* waits for sigsuspend.
ChildWatched ==
    main \in Waiting =>
        /\ masked /\ running = <<>>
        /\ proc[newest] # "running" => "CHLD" \in pending

SInv == NothingOverlooked /\ ChildWatched

LEMMA EnvironmentSignals == TInv /\ SInv /\ Environment => SInv'
<1> SUFFICES ASSUME TInv, SInv, Environment
             PROVE  SInv'
  OBVIOUS
<1>1. UNCHANGED <<newest, masked, main, running, at>>
  BY DEF Environment, Ends, Signaled, Key, command, frames
<1>2. CASE "CHLD" \in pending'
  BY <1>1, <1>2 DEF SInv, NothingOverlooked, ChildWatched
<1>3. CASE "CHLD" \notin pending'
  <2>1. PICK sig \in {"TSTP", "INT"}, ps \in SUBSET Foreground :
           /\ Become(ps, IF sig = "TSTP" THEN "stopped" ELSE "signaled")
           /\ pending' = pending \cup (IF ps = {} THEN {} ELSE {"CHLD"})
                                 \cup (IF tty = Shell /\ keysTaken THEN {sig} ELSE {})
    BY <1>3 DEF Environment, Ends, Signaled, Key
  <2>2. ps = {} /\ pending \subseteq pending' /\ "CHLD" \notin pending
    BY <1>3, <2>1
  <2>3. proc' = proc /\ unseen' = unseen
    BY <2>1, <2>2 DEF Become, TInv, TypeOK
  <2> QED
    BY <1>1, <2>2, <2>3 DEF SInv, NothingOverlooked, ChildWatched, Reportable, Zombie
<1> QED
  BY <1>2, <1>3

\* What every step of a handler leaves alone, and where the loop is after it.
LEMMA HandlersAside ==
    ASSUME Handlers
    PROVE  /\ UNCHANGED <<command, masked, keysTaken, currentJob, removal, group, tty, inputs>>
           /\ main' \in {main, "crashed"} \/ (main = "suspended" /\ main' = "woken")
           /\ (\E sig \in Sigs : Deliver(sig)) \/ running # <<>>
<1> USE DEF jobs, children, signals
<1>1. CASE (\E sig \in Sigs : Deliver(sig)) \/ Interrupt \/ Children
  BY <1>1 DEF Deliver, Interrupt, Children, At
<1>2. ASSUME NEW sig \in {"CHLD", "TSTP"}, StopReaps(sig) \/ StopCrashes(sig) \/ StopTells(sig)
      PROVE  /\ UNCHANGED <<command, masked, keysTaken, currentJob, removal, group, tty, inputs>>
             /\ main' \in {main, "crashed"} /\ running # <<>>
  BY <1>2 DEF StopReaps, StopCrashes, StopTells, At
<1>3. ASSUME NEW sig \in {"CHLD", "TSTP"}, AddJob(sig)
      PROVE  /\ UNCHANGED <<command, masked, keysTaken, currentJob, removal, group, tty, inputs>>
             /\ main' = main /\ running # <<>>
  BY <1>3 DEF AddJob, AddTests, AddFirst, AddNumbers, AddLinks, AddCounts, AddNext, Adds, At
<1> QED
  BY <1>1, <1>2, <1>3 DEF Handlers, Stop

\* addJob is a matter of the handler it is called by.
LEMMA AddJobAside ==
    ASSUME TInv, NEW sig \in Sigs, AddJob(sig)
    PROVE  /\ at[sig] \in {"add"} \cup Linking \cup {"count", "next"} /\ at'[sig] \in Added
           /\ \A s \in Sigs : s # sig => at'[s] = at[s]
           /\ UNCHANGED <<main, command, signals, currentJob, removal, children, tty, inputs, running>>
<1>1. PICK from \in {"add"} \cup Linking \cup {"count", "next"}, place \in Added :
         At(sig, from) /\ Goes(sig, place)
  BY DEF AddJob, AddTests, AddFirst, AddNumbers, AddLinks, AddCounts, AddNext, Linking, Added
<1>2. from # "none" /\ place \in HandlerPlaces \ {"none"}
  BY DEF HandlerPlaces, Added, Linking
<1>3. /\ at[sig] = from /\ at'[sig] = place /\ running' = running
      /\ \A s \in Sigs : s # sig => at'[s] = at[s]
  BY <1>1, <1>2, GoesOn
<1>4. UNCHANGED <<main, command, signals, currentJob, removal, children, tty, inputs>>
  BY DEF AddJob, AddTests, AddFirst, AddNumbers, AddLinks, AddCounts, AddNext, Adds
<1> QED
  BY <1>3, <1>4

LEMMA HandlerSignals == TInv /\ SInv /\ Handlers => SInv'
<1> SUFFICES ASSUME TInv, SInv, Handlers
             PROVE  SInv'
  OBVIOUS
<1> USE DEF jobs, children, signals
<1>a. "INT" \in Sigs /\ "CHLD" \in Sigs /\ {"CHLD", "TSTP"} \subseteq Sigs
  BY DEF Sigs
<1>1. main' \notin Waiting
  <2>1. CASE \E sig \in Sigs : Deliver(sig)
    BY <2>1 DEF Deliver, SInv, ChildWatched, Waiting
  <2>2. CASE running # <<>>
    BY <2>2, HandlersAside DEF SInv, ChildWatched, Waiting
  <2> QED
    BY <2>1, <2>2, HandlersAside
<1>b. CASE at'["CHLD"] # "none"
  BY <1>1, <1>b DEF SInv, ChildWatched, NothingOverlooked
<1>c. CASE /\ at["CHLD"] = "none" \/ Reportable = {}
           /\ "CHLD" \in pending' \/ (UNCHANGED <<proc, unseen>> /\ pending \subseteq pending' \cup {"TSTP", "INT"})
  <2>1. Reportable # {} => "CHLD" \in pending
    BY <1>c DEF SInv, NothingOverlooked
  <2>2. NothingOverlooked'
    BY <1>c, <2>1 DEF NothingOverlooked, Reportable, Zombie
  <2> QED
    BY <1>1, <2>2 DEF SInv, ChildWatched
<1>2. ASSUME NEW sig \in Sigs, Deliver(sig) PROVE SInv'
  <2>1. /\ at' = [at EXCEPT ![sig] = Entry[sig]] /\ at \in [Sigs -> HandlerPlaces]
        /\ pending' = pending \ {sig} /\ UNCHANGED <<proc, unseen>>
    BY <1>2 DEF Deliver, TInv, TypeOK
  <2>2. CASE sig = "CHLD"
    BY <1>a, <1>b, <2>1, <2>2 DEF Entry, Sigs
  <2>3. CASE sig # "CHLD"
    <3>1. at'["CHLD"] = at["CHLD"] /\ pending \subseteq pending' \cup {"TSTP", "INT"}
      BY <1>a, <2>1, <2>3 DEF Sigs
    <3> QED
      BY <1>b, <1>c, <2>1, <3>1
  <2> QED
    BY <2>2, <2>3
<1>3. CASE Interrupt
  <2>1. At("INT", "interrupt") /\ Returns("INT") /\ SendToCurrent("signaled")
    BY <1>3 DEF Interrupt
  <2>2. at'["CHLD"] = at["CHLD"]
    BY <1>a, <2>1, ReturnsTo
  <2>3. "CHLD" \in pending' \/ UNCHANGED <<proc, unseen, pending>>
    BY <2>1 DEF SendToCurrent
  <2> QED
    BY <1>b, <1>c, <2>2, <2>3
<1>4. CASE Children
  <2>1. CASE Returns("CHLD") /\ Reportable = {} /\ UNCHANGED <<proc, unseen>>
    BY <1>4, <1>c, <2>1 DEF Children
  <2>2. ASSUME NEW place \in {"children", "reap"}, Goes("CHLD", place) PROVE SInv'
    <3>1. at'["CHLD"] = place
      BY <1>a, <2>2 DEF Goes, TInv, TypeOK
    <3> QED
      BY <1>b, <3>1
  <2> QED
    BY <1>4, <2>1, <2>2 DEF Children, NextChild
<1>5. ASSUME NEW sig \in Sigs, StopReaps(sig) PROVE SInv'
  <2>1. /\ at'[sig] = "add" /\ \A s \in Sigs : s # sig => at'[s] = at[s]
        /\ unseen' = unseen /\ pending' = pending
    BY <1>5 DEF StopReaps, Goes, TInv, TypeOK
  <2>2. Reportable' \subseteq Reportable
    BY <1>5, <2>1 DEF StopReaps, Reaps, Reportable, Zombie, TInv, TypeOK
  <2>3. CASE at'["CHLD"] = "none"
    <3>1. at["CHLD"] = "none"
      BY <1>a, <2>1, <2>3
    <3> QED
      BY <1>1, <2>1, <2>2, <3>1 DEF SInv, ChildWatched, NothingOverlooked
  <2> QED
    BY <1>b, <2>3
<1>6. ASSUME NEW sig \in Sigs, StopCrashes(sig) PROVE SInv'
  BY <1>6, <1>b, <1>c DEF StopCrashes, frames
<1>7. ASSUME NEW sig \in Sigs, AddJob(sig) PROVE SInv'
  <2>1. /\ at'[sig] # "none" /\ \A s \in Sigs : s # sig => at'[s] = at[s]
        /\ UNCHANGED <<proc, unseen, pending>>
    BY <1>7, AddJobAside DEF Added, Linking
  <2> QED
    BY <1>a, <1>b, <1>c, <2>1
<1>8. ASSUME NEW sig \in Sigs, StopTells(sig) PROVE SInv'
  <2>1. "CHLD" \in pending' \/ UNCHANGED <<proc, unseen, pending>>
    BY <1>8 DEF StopTells, SendToCurrent
  <2>2. CASE sig = "CHLD"
    <3>1. Goes("CHLD", "children")
      BY <1>8, <2>2 DEF StopTells, NextChild
    <3>2. at'["CHLD"] = "children"
      BY <1>a, <3>1 DEF Goes, TInv, TypeOK
    <3> QED
      BY <1>b, <3>2
  <2>3. CASE sig # "CHLD"
    <3>1. At(sig, "tell") /\ Returns(sig)
      BY <1>8, <2>3 DEF StopTells
    <3>2. at'["CHLD"] = at["CHLD"]
      BY <1>a, <2>3, <3>1, ReturnsTo
    <3> QED
      BY <1>b, <1>c, <2>1, <3>2
  <2> QED
    BY <2>2, <2>3
<1> QED
  BY <1>a, <1>2, <1>3, <1>4, <1>5, <1>6, <1>7, <1>8 DEF Handlers, Stop

LEMMA LoopSignals == TInv /\ SInv /\ Loop => SInv'
<1> SUFFICES ASSUME TInv, SInv, Loop
             PROVE  SInv'
  OBVIOUS
<1> USE DEF command, pipes, frames, handled, jobs, children, signals
<1>1. CASE RefuseProgram \/ InstallHandlers \/ Resume \/ FgForeground \/ RemoveFind \/ RemoveUnlink
  <2>1. /\ main' \notin Waiting
        /\ UNCHANGED <<proc, unseen, pending, running, at>>
    BY <1>1 DEF RefuseProgram, InstallHandlers, Resume, FgForeground, RemoveFind, RemoveUnlink,
                Waiting
  <2> QED
    BY <2>1 DEF SInv, NothingOverlooked, ChildWatched, Reportable, Zombie
<1>2. CASE Leave
  BY <1>2 DEF Leave, SInv, NothingOverlooked, ChildWatched, Reportable, Zombie, Waiting
<1>3. CASE SetJob \/ SetGroup \/ SetForeground
  <2>1. /\ main \in Waiting
        /\ UNCHANGED <<proc, unseen, pending, running, at, masked, newest>>
    BY <1>3 DEF SetJob, SetGroup, SetForeground, Steps, Waiting
  <2> QED
    BY <2>1 DEF SInv, NothingOverlooked, ChildWatched, Reportable, Zombie
<1>4. CASE Fork
  <2>1. NextPid \in Pids /\ proc[NextPid] = "unborn"
    BY <1>4, NextPidUnborn DEF Fork
  <2>2. /\ newest' = NextPid /\ proc' = [proc EXCEPT ![NextPid] = "running"]
        /\ UNCHANGED <<unseen, pending, running, at>> /\ running = <<>> /\ masked'
    BY <1>4 DEF Fork, Steps, MaskedAtFork
  <2>3. Reportable' \subseteq Reportable /\ proc'[newest'] = "running"
    BY <2>1, <2>2 DEF Reportable, Zombie, TInv, TypeOK
  <2> QED
    BY <2>2, <2>3 DEF SInv, NothingOverlooked, ChildWatched
<1>5. CASE FgContinues
  <2>1. main' \notin Waiting /\ running' = running /\ at' = at
        /\ ("CHLD" \in pending' \/ UNCHANGED <<proc, unseen, pending>>)
    BY <1>5 DEF FgContinues, Waiting
  <2> QED
    BY <2>1 DEF SInv, NothingOverlooked, ChildWatched, Reportable, Zombie
<1> QED
  BY <1>1, <1>2, <1>3, <1>4, <1>5 DEF Loop

LEMMA UserSignals == TInv /\ SInv /\ User => SInv'
<1> SUFFICES ASSUME TInv, SInv, User
             PROVE  SInv'
  OBVIOUS
<1>1. /\ main' \notin Waiting /\ running' = running /\ at' = at
      /\ "CHLD" \in pending' \/ UNCHANGED <<proc, unseen, pending>>
  BY DEF User, ReadLine, Fg, KillPid, KillJob, KillNothing, Kills, Waiting, signals, children, frames
<1> QED
  BY <1>1 DEF SInv, NothingOverlooked, ChildWatched, Reportable, Zombie

LEMMA SignalsKept == Spec => [](TInv /\ SInv)
<1>1. Init => SInv
  BY DEF Init, SInv, NothingOverlooked, ChildWatched, Reportable, Zombie, Waiting
<1>2. TInv /\ SInv /\ UNCHANGED vars => SInv'
  BY DEF vars, command, pipes, frames, handled, jobs, children, signals, SInv, NothingOverlooked, ChildWatched,
         Reportable, Zombie
<1>3. TInv /\ SInv /\ [Next]_vars => SInv'
  BY <1>2, EnvironmentSignals, HandlerSignals, LoopSignals, UserSignals DEF Next
<1> QED
  BY <1>1, <1>3, InitTypes, StepTypes, PTL DEF Spec

\* SIGCHLD is not counted, but no change of a child is lost: for any number of
\* children that end or stop at once, one SIGCHLD or its handler remains.
THEOREM NoChangeOverlooked == Spec => []NothingOverlooked
<1>1. SInv => NothingOverlooked
  BY DEF SInv
<1> QED
  BY <1>1, SignalsKept, PTL

\* The shell never waits for a child that has stopped or ended already, because
\* the signals are blocked from before fork until sigsuspend.
THEOREM NoWakeUpLost == Spec => []WaitsOnlyForTheRunning
<1>1. SInv => WaitsOnlyForTheRunning
  BY DEF SInv, ChildWatched, WaitsOnlyForTheRunning, Waiting
<1> QED
  BY <1>1, SignalsKept, PTL

-----------------------------------------------------------------------------
(* Pipes *)

\* A process that was forked stays one that was forked.
StaysBorn == \A p \in Pids : proc[p] # "unborn" => proc'[p] # "unborn"

\* The shell can write to no pipe but the one of the child it has just forked, a
\* child to none but its own, and no pipe is named by a process still to come.
PInv ==
    /\ main \in HasChild => writeEnds = {newest}
    /\ main \notin HasChild \cup {"crashed"} => writeEnds = {}
    /\ \A p \in Pids : holds[p] \subseteq {p}
    /\ \A p \in Pids : reads[p] \notin writeEnds
    /\ \A p \in Pids : proc[p] = "unborn" => p # ifd /\ p # newest
    /\ \A p, q \in Pids : proc[p] = "unborn" => reads[q] # p

LEMMA EnvironmentBirths == TInv /\ Environment => StaysBorn
<1> SUFFICES ASSUME TInv, Environment
             PROVE  StaysBorn
  OBVIOUS
<1>1. ASSUME NEW p \in Pids, Ends(p) \/ Signaled(p) PROVE StaysBorn
  BY <1>1 DEF Ends, Signaled, Become, StaysBorn, TInv, TypeOK
<1>2. ASSUME NEW sig, Key(sig) PROVE StaysBorn
  BY <1>2 DEF Key, Become, StaysBorn, TInv, TypeOK
<1> QED
  BY <1>1, <1>2 DEF Environment

LEMMA HandlerBirths == TInv /\ Handlers => StaysBorn
<1> SUFFICES ASSUME TInv, Handlers
             PROVE  StaysBorn
  OBVIOUS
<1>1. ASSUME NEW sig \in Sigs, Deliver(sig) \/ StopCrashes(sig) \/ AddJob(sig) PROVE StaysBorn
  BY <1>1, AddJobAside DEF Deliver, StopCrashes, children, StaysBorn
<1>2. CASE Interrupt
  BY <1>2, SendTypes DEF Interrupt, TInv, StaysBorn
<1>3. CASE Children
  BY <1>3 DEF Children, StaysBorn, TInv, TypeOK
<1>4. ASSUME NEW sig \in Sigs, StopReaps(sig) PROVE StaysBorn
  BY <1>4 DEF StopReaps, Reaps, StaysBorn, TInv, TypeOK
<1>5. ASSUME NEW sig \in Sigs, StopTells(sig) PROVE StaysBorn
  BY <1>5, SendTypes DEF StopTells, TInv, StaysBorn
<1>6. {"CHLD", "TSTP"} \subseteq Sigs
  BY DEF Sigs
<1> QED
  BY <1>1, <1>2, <1>3, <1>4, <1>5, <1>6 DEF Handlers, Stop

LEMMA LoopBirths == TInv /\ (Loop \/ User) => StaysBorn
<1> SUFFICES ASSUME TInv, Loop \/ User
             PROVE  StaysBorn
  OBVIOUS
<1>1. ASSUME NEW p, Kills(p) PROVE StaysBorn
  BY <1>1 DEF Kills, Become, StaysBorn, TInv, TypeOK
<1>2. CASE User
  BY <1>1, <1>2 DEF User, ReadLine, Fg, KillPid, KillJob, KillNothing, children, StaysBorn
<1>3. CASE RefuseProgram \/ InstallHandlers \/ SetJob \/ SetGroup \/ SetForeground \/ Resume
           \/ Leave \/ FgForeground \/ RemoveFind \/ RemoveUnlink
  BY <1>3 DEF RefuseProgram, InstallHandlers, SetJob, SetGroup, SetForeground, Resume, Leave,
              FgForeground, RemoveFind, RemoveUnlink, children, StaysBorn
<1>4. CASE Fork
  BY <1>4 DEF Fork, StaysBorn, TInv, TypeOK
<1>5. CASE FgContinues
  BY <1>5 DEF FgContinues, Become, StaysBorn, TInv, TypeOK
<1> QED
  BY <1>2, <1>3, <1>4, <1>5 DEF Loop

\* A step that leaves the pipes alone and neither forks nor resumes.
LEMMA PipesLeftAlone ==
    ASSUME PInv, StaysBorn, UNCHANGED <<newest, writeEnds, reads, holds>>, ifd' \in {ifd, NoPid},
           \/ main' = "crashed"
           \/ main # "crashed" /\ (main' \in HasChild <=> main \in HasChild)
    PROVE  PInv'
BY SfishAssumption DEF PInv, StaysBorn, HasChild, Waiting

LEMMA ForkPipes == TInv /\ PInv /\ Fork => PInv'
<1> SUFFICES ASSUME TInv, PInv, Fork
             PROVE  PInv'
  OBVIOUS
<1>1. NextPid \in Pids /\ proc[NextPid] = "unborn"
  BY NextPidUnborn DEF Fork
<1>2. /\ newest' = NextPid /\ main' = "forked" /\ ifd' = ifd /\ writeEnds' = {NextPid}
      /\ reads' = [reads EXCEPT ![NextPid] = ifd] /\ holds' = [holds EXCEPT ![NextPid] = {NextPid}]
      /\ proc' = [proc EXCEPT ![NextPid] = "running"]
  BY DEF Fork, Steps, PInv, HasChild, Waiting
<1>3. NextPid # ifd /\ \A q \in Pids : reads[q] # NextPid
  BY <1>1 DEF PInv
<1>4. \A p \in Pids : holds'[p] \subseteq {p}
  BY <1>1, <1>2 DEF PInv, TInv, TypeOK
<1>5. \A p \in Pids : reads'[p] \in {ifd, reads[p]} /\ reads'[p] \notin writeEnds'
  BY <1>1, <1>2, <1>3 DEF TInv, TypeOK
<1>6. \A p \in Pids : proc'[p] = "unborn" => proc[p] = "unborn" /\ p # NextPid
  BY <1>1, <1>2 DEF TInv, TypeOK
<1>7. /\ \A p \in Pids : proc'[p] = "unborn" => p # ifd' /\ p # newest'
      /\ \A p, q \in Pids : proc'[p] = "unborn" => reads'[q] # p
  BY <1>2, <1>5, <1>6 DEF PInv
<1> QED
  BY <1>2, <1>4, <1>5, <1>7 DEF PInv, HasChild, Waiting

LEMMA StepPipes == TInv /\ PInv /\ [Next]_vars => PInv'
<1> SUFFICES ASSUME TInv, PInv, [Next]_vars
             PROVE  PInv'
  OBVIOUS
<1> USE DEF command, pipes, jobs, children, signals
<1>1. CASE UNCHANGED vars
  BY <1>1 DEF vars, PInv
<1>2. CASE ~Ended /\ (Environment \/ Handlers)
  <2>1. StaysBorn
    BY <1>2, EnvironmentBirths, HandlerBirths
  <2>2. CASE Environment
    BY <1>2, <2>1, <2>2, PipesLeftAlone DEF Environment, Ends, Signaled, Key, Ended
  <2>3. CASE Handlers
    <3>1. main' \in {main, "crashed"} \/ (main = "suspended" /\ main' = "woken")
      BY <2>3, HandlersAside
    <3>2. UNCHANGED command
      BY <2>3, HandlersAside
    <3> QED
      BY <1>2, <2>1, <3>1, <3>2, PipesLeftAlone DEF HasChild, Waiting, Ended
  <2> QED
    BY <1>2, <2>2, <2>3
<1>3. CASE Loop \/ User
  <2>1. StaysBorn
    BY <1>3, LoopBirths
  <2>2. CASE User
    <3>1. main = "prompt" /\ UNCHANGED <<newest, writeEnds, reads, holds>> /\ ifd' \in {ifd, NoPid}
      BY <2>2 DEF User, ReadLine, Fg, KillPid, KillJob, KillNothing, Steps
    <3>2. main' \notin HasChild
      BY <2>2 DEF User, ReadLine, Fg, KillPid, KillJob, KillNothing, Kills, HasChild, Waiting
    <3> QED
      BY <2>1, <3>1, <3>2, PipesLeftAlone DEF HasChild, Waiting
  <2>3. CASE RefuseProgram \/ InstallHandlers \/ SetJob \/ SetGroup \/ SetForeground \/ Leave
             \/ FgContinues \/ FgForeground \/ RemoveFind \/ RemoveUnlink
    <3>1. UNCHANGED <<newest, pipes>>
      BY <2>3 DEF RefuseProgram, InstallHandlers, SetJob, SetGroup, SetForeground, Leave,
                  FgContinues, FgForeground, RemoveFind, RemoveUnlink
    <3>2. \/ main' = "crashed"
          \/ main # "crashed" /\ (main' \in HasChild <=> main \in HasChild)
      BY <2>3 DEF RefuseProgram, InstallHandlers, SetJob, SetGroup, SetForeground, Leave, Steps,
                  FgContinues, FgForeground, RemoveFind, RemoveUnlink, HasChild, Waiting
    <3> QED
      BY <2>1, <3>1, <3>2, PipesLeftAlone
  <2>4. CASE Resume
    <3>1. /\ main = "woken" /\ main' \in {"leave", "launch"} /\ ifd' = newest
          /\ writeEnds' = writeEnds \ {newest}
          /\ UNCHANGED <<newest, reads, holds, proc>>
      BY <2>4 DEF Resume, Steps, WriteEndClosed
    <3> QED
      BY <3>1 DEF PInv, HasChild, Waiting
  <2> QED
    BY <1>3, <2>2, <2>3, <2>4, ForkPipes DEF Loop
<1> QED
  BY <1>1, <1>2, <1>3 DEF Next

\* Whatever line is run, and however its programs come and go, the end to write
\* to of a pipe that is read is held by the program that writes to it alone.
THEOREM ReadersSeeTheEnd == Spec => []PipesEnd
<1>1. Init => PInv
  BY SfishAssumption DEF Init, PInv, HasChild, Waiting
<1>2. PInv => PipesEnd
  BY DEF PInv, PipesEnd
<1> QED
  BY <1>1, <1>2, InitTypes, StepTypes, StepPipes, PTL DEF Spec

-----------------------------------------------------------------------------
(* Job numbers *)

\* The jobs of a list have different numbers; the numbers are below n.
Distinct(l) == \A i, k \in DOMAIN l : l[i].num = l[k].num => i = k
Below(l, n) == \A i \in DOMAIN l : l[i].num < n

\* The handler of o has interrupted that of s, itself or from further inside.
Inside(o, s) == \E i, k \in DOMAIN running : i < k /\ running[i] = o /\ running[k] = s

\* Each handler runs once at a time.
RunningOnce ==
    /\ \A i, k \in DOMAIN running : running[i] = running[k] => i = k
    /\ \A i \in DOMAIN running : at[running[i]] # "none"

\* In the part of addJob that others may disturb.
Busy(s) == at[s] \in Linking \/ Counting(s)

\* No handler is in that part but those that will be done before s goes on.
Free(s) == \A o \in Sigs \ {s} : Busy(o) => Inside(o, s)

\* The numbers of the list, when no handler is about to replace it: the next one is
\* free as soon as the last job is counted.
NumbersListed ==
    (\A s \in Sigs : at[s] \notin Linking) =>
        /\ Distinct(list) /\ Below(list, jobNum + 1)
        /\ (\A s \in Sigs : ~Counting(s)) => Below(list, jobNum)

\* The numbers of what a handler is about to make the list, when no other that it
\* has interrupted is at work.
NumbersHeld ==
    \A s \in Sigs : Free(s) =>
        /\ at[s] = "number" => Distinct(old[s]) /\ Below(old[s], jobNum)
        /\ at[s] = "link" => Distinct(old[s]) /\ Below(old[s], num[s]) /\ num[s] <= jobNum

\* One handler at most has listed a job and not counted it.
CountedOnce ==
    /\ \A s \in Sigs : at[s] = "next" => num[s] = jobNum
    /\ \A s, o \in Sigs : Counting(s) /\ Counting(o) => s = o
    /\ \A s \in Sigs : Counting(s) => list # <<>>

\* A handler that has found the list empty, and those it has interrupted.
FirstAlone ==
    \A o \in Sigs : at[o] = "first" =>
        /\ old[o] = <<>>
        /\ \A s \in Sigs : Counting(s) => Inside(s, o)
        /\ \A s \in Sigs \ {o} : ~Inside(s, o) =>
              /\ at[s] = "number" => old[s] = <<>>
              /\ at[s] = "link" => old[s] = <<>> /\ num[s] = 1

NoneListedYet ==
    list = <<>> => \A s \in Sigs :
        /\ at[s] = "number" => old[s] = <<>> /\ jobNum = 1
        /\ at[s] = "link" => old[s] = <<>> /\ num[s] = 1

\* What removeJob may put in the place of the list.
NumbersNoted == main = "unlink" => Distinct(removal.rest) /\ Below(removal.rest, jobNum)

NumbersKept ==
    NumbersListed /\ NumbersHeld /\ CountedOnce /\ FirstAlone /\ NoneListedYet /\ NumbersNoted

NInv == RunningOnce /\ (~crossed => NumbersKept)

\* What is below a number is below any larger one.
LEMMA BelowMore ==
    ASSUME NEW l \in Seq(ListedJob), NEW m \in Nat, NEW n \in Nat, m <= n, Below(l, m)
    PROVE  Below(l, n)
<1>1. \A i \in DOMAIN l : l[i] \in ListedJob
  OBVIOUS
<1>2. \A i \in DOMAIN l : l[i].num \in Nat
  BY <1>1 DEF ListedJob
<1> QED
  BY <1>2 DEF Below

\* A list that leaves jobs out has distinct numbers if the whole list has.
LEMMA LeavingOut ==
    ASSUME NEW l, NEW t, NEW n, NEW f, \A i \in DOMAIN t : f[i] \in DOMAIN l /\ t[i] = l[f[i]],
           \A i, k \in DOMAIN t : f[i] = f[k] => i = k, Distinct(l), Below(l, n)
    PROVE  Distinct(t) /\ Below(t, n)
BY DEF Distinct, Below

\* A step that leaves the lists and the numbers alone, and every handler that is
\* in the part of addJob that others may disturb.
LEMMA NumbersAside ==
    ASSUME NumbersKept, UNCHANGED <<list, jobNum, old, num>>,
           \A s \in Sigs : Busy(s) \/ Busy(s)' => at'[s] = at[s],
           \A o, s \in Sigs : Busy(o) /\ Busy(s) => (Inside(o, s)' <=> Inside(o, s)),
           main' # "unlink" \/ (main = "unlink" /\ removal' = removal)
    PROVE  NumbersKept'
<1>1. \A s \in Sigs : /\ at'[s] \in Linking <=> at[s] \in Linking
                      /\ Counting(s)' <=> Counting(s)
                      /\ Busy(s)' <=> Busy(s)
                      /\ Busy(s) => at'[s] = at[s]
  BY DEF Busy, Counting
<1>2. NumbersListed'
  BY <1>1 DEF NumbersKept, NumbersListed, Distinct, Below
<1>3. ASSUME NEW s \in Sigs, Free(s)', Busy(s) PROVE Free(s)
  BY <1>1, <1>3 DEF Free
<1>4. NumbersHeld'
  BY <1>1, <1>3 DEF NumbersKept, NumbersHeld, Busy, Linking, Distinct, Below
<1>5. CountedOnce'
  BY <1>1 DEF NumbersKept, CountedOnce, Counting, Busy
<1>6. \A s \in Sigs : at'[s] \in {"first", "number", "link"} => Busy(s) /\ at'[s] = at[s]
  BY <1>1 DEF Busy, Linking
<1>7. \A s \in Sigs : Counting(s) => Busy(s)
  BY DEF Busy
<1>8. FirstAlone'
  BY <1>1, <1>6, <1>7 DEF NumbersKept, FirstAlone
<1>9. NoneListedYet'
  BY <1>6 DEF NumbersKept, NoneListedYet
<1>10. NumbersNoted'
  BY DEF NumbersKept, NumbersNoted, Distinct, Below
<1> QED
  BY <1>2, <1>4, <1>5, <1>8, <1>9, <1>10 DEF NumbersKept

\* When no handler runs, the numbers of the list are all there is.
LEMMA QuietNumbers ==
    ASSUME TInv, \A s \in Sigs : at[s] = "none"
    PROVE  NumbersListed /\ NumbersHeld /\ CountedOnce /\ FirstAlone /\ NoneListedYet
           <=> Distinct(list) /\ Below(list, jobNum)
<1>1. list \in Seq(ListedJob) /\ jobNum \in Nat /\ jobNum <= jobNum + 1 /\ jobNum + 1 \in Nat
  BY DEF TInv, TypeOK
<1>2. Below(list, jobNum) => Below(list, jobNum + 1)
  BY <1>1, BelowMore
<1> QED
  BY <1>2 DEF NumbersListed, NumbersHeld, CountedOnce, FirstAlone, NoneListedYet, Counting, Linking

LEMMA QuietAfter ==
    ASSUME TInv', \A s \in Sigs : at'[s] = "none", (Distinct(list) /\ Below(list, jobNum))'
    PROVE  (NumbersListed /\ NumbersHeld /\ CountedOnce /\ FirstAlone /\ NoneListedYet)'
<1>a. TypeOK'
  BY DEF TInv
<1>b. list' \in Seq(ListedJob)
  BY <1>a DEF TypeOK
<1>c. jobNum' \in Nat
  BY <1>a DEF TypeOK
<1> DEFINE n == jobNum'
<1>d. n \in Nat
  BY <1>c
<1> HIDE DEF n
<1>1. n <= n + 1 /\ n + 1 \in Nat
  BY ONLY <1>d
<1>2. Distinct(list') /\ Below(list', jobNum')
  BY DEF Distinct, Below
<1>3. Below(list', n + 1)
  BY <1>b, <1>d, <1>1, <1>2, BelowMore DEF n
<1> QED
  BY <1>2, <1>3 DEF NumbersListed, NumbersHeld, CountedOnce, FirstAlone, NoneListedYet, Counting,
     Linking, Distinct, Below, n

\* The innermost handler is inside all others that have begun, and none is inside it.
Innermost(sig) ==
    \A s \in Sigs \ {sig} : ~Inside(s, sig) /\ (at[s] # "none" => Inside(sig, s))

LEMMA HeadIsInnermost ==
    ASSUME TInv, RunningOnce, NEW sig \in Sigs, NEW place, At(sig, place)
    PROVE  Innermost(sig)
<1>1. running \in Seq(Sigs) /\ Len(running) \in Nat /\ DOMAIN running = 1..Len(running)
      /\ 1 \in DOMAIN running /\ running[1] = sig
  BY DEF At, TInv, TypeOK
<1>2. ASSUME NEW s \in Sigs \ {sig}, at[s] # "none" PROVE Inside(sig, s)
  <2>1. PICK i \in DOMAIN running : running[i] = s
    BY <1>2 DEF TInv, FramesBegun
  <2>2. 1 < i
    BY <1>1, <2>1
  <2> QED
    BY <1>1, <2>1, <2>2 DEF Inside
<1>3. ASSUME NEW s \in Sigs \ {sig}, Inside(s, sig) PROVE FALSE
  <2>1. PICK i, k \in DOMAIN running : i < k /\ running[k] = sig
    BY <1>3 DEF Inside
  <2>2. k = 1
    BY <1>1, <2>1 DEF RunningOnce
  <2> QED
    BY <1>1, <2>1, <2>2
<1> QED
  BY <1>2, <1>3 DEF Innermost

\* A step of addJob is one of the innermost handler, and moves no other.
LEMMA AddJobInside ==
    ASSUME TInv, RunningOnce, NEW sig \in Sigs, AddJob(sig)
    PROVE  /\ Innermost(sig) /\ RunningOnce'
           /\ \A o, s \in Sigs : Inside(o, s)' <=> Inside(o, s)
           /\ \A s \in Sigs \ {sig} : at'[s] = at[s] /\ (Counting(s)' <=> Counting(s))
           /\ \A s \in Sigs \ {sig} : at[s] # "none" /\ Free(s)' => Free(s)
           /\ \A s \in Sigs \ {sig} : Free(sig) => at[s] \notin Linking /\ ~Counting(s)
           /\ Free(sig)' <=> Free(sig)
<1>1. \E place : At(sig, place)
  BY DEF AddJob, AddTests, AddFirst, AddNumbers, AddLinks, AddCounts, AddNext
<1>2. Innermost(sig)
  BY <1>1, HeadIsInnermost
<1>3. /\ at'[sig] \in Added /\ running' = running /\ \A s \in Sigs \ {sig} : at'[s] = at[s]
  BY AddJobAside
<1>4. RunningOnce'
  <2>1. running \in Seq(Sigs)
    BY DEF TInv, TypeOK
  <2>2. \A i \in DOMAIN running : running[i] \in Sigs
    BY <2>1
  <2> QED
    BY <1>3, <2>2 DEF RunningOnce, Added, Linking
<1>5. \A o, s \in Sigs : Inside(o, s)' <=> Inside(o, s)
  BY <1>3 DEF Inside
<1>6. \A s \in Sigs \ {sig} : at'[s] = at[s] /\ (Counting(s)' <=> Counting(s)) /\ (Busy(s)' <=> Busy(s))
  BY <1>3 DEF Counting, Busy
<1>7. ASSUME NEW s \in Sigs \ {sig}, at[s] # "none", Free(s)' PROVE Free(s)
  BY <1>2, <1>5, <1>6, <1>7 DEF Free, Innermost
<1>8. \A s \in Sigs \ {sig} : Free(sig) => ~Busy(s)
  BY <1>2 DEF Free, Innermost
<1>9. Free(sig)' <=> Free(sig)
  BY <1>5, <1>6 DEF Free
<1> QED
  BY <1>2, <1>4, <1>5, <1>6, <1>7, <1>8, <1>9 DEF Busy

\* addJob tests the list.
LEMMA AddTestsNumbers ==
    ASSUME TInv, RunningOnce, NumbersKept, NEW sig \in Sigs, AddTests(sig)
    PROVE  NumbersKept'
<1>1. /\ Innermost(sig) /\ \A o, s \in Sigs : Inside(o, s)' <=> Inside(o, s)
      /\ \A s \in Sigs \ {sig} : at'[s] = at[s] /\ (Counting(s)' <=> Counting(s))
      /\ \A s \in Sigs \ {sig} : at[s] # "none" /\ Free(s)' => Free(s)
      /\ \A s \in Sigs \ {sig} : Free(sig) => at[s] \notin Linking /\ ~Counting(s)
      /\ Free(sig)' <=> Free(sig)
  BY AddJobInside DEF AddJob
<1>2. /\ at[sig] = "add" /\ at'[sig] = (IF list = <<>> THEN "first" ELSE "number")
      /\ old'[sig] = list /\ \A s \in Sigs \ {sig} : old'[s] = old[s]
      /\ UNCHANGED <<main, removal, num, list, jobNum>>
  BY DEF AddTests, At, Goes, Adds, TInv, TypeOK, handled
<1>3. at'[sig] \in Linking /\ at[sig] \notin Linking /\ ~Counting(sig) /\ ~Counting(sig)'
  BY <1>2 DEF Linking, Counting
<1>4. NumbersListed'
  BY <1>3 DEF NumbersListed
<1>5. NumbersHeld'
  <2>1. ASSUME Free(sig)', at'[sig] = "number"
        PROVE  Distinct(old[sig])' /\ Below(old[sig], jobNum)'
    <3>1. Distinct(list) /\ Below(list, jobNum)
      BY <1>1, <1>3, <2>1 DEF NumbersKept, NumbersListed
    <3> QED
      BY <1>2, <3>1 DEF Distinct, Below
  <2>2. ASSUME NEW s \in Sigs \ {sig}, Free(s)', at'[s] \in {"number", "link"}
        PROVE  /\ at'[s] = "number" => Distinct(old[s])' /\ Below(old[s], jobNum)'
               /\ at'[s] = "link" => Distinct(old[s])' /\ Below(old[s], num[s])' /\ num'[s] <= jobNum'
    <3>1. Free(s) /\ at'[s] = at[s]
      BY <1>1, <2>2
    <3> QED
      BY <1>2, <3>1 DEF NumbersKept, NumbersHeld, Distinct, Below
  <2> QED
    BY <1>2, <2>1, <2>2 DEF NumbersHeld
<1>6. CountedOnce'
  BY <1>1, <1>2, <1>3 DEF NumbersKept, CountedOnce
<1>7. FirstAlone'
  <2>1. ASSUME at'[sig] = "first"
        PROVE  /\ old'[sig] = <<>> /\ \A s \in Sigs : ~Counting(s)'
               /\ \A s \in Sigs \ {sig} : /\ at'[s] = "number" => old'[s] = <<>>
                                          /\ at'[s] = "link" => old'[s] = <<>> /\ num'[s] = 1
    <3>1. list = <<>>
      BY <1>2, <2>1
    <3> QED
      BY <1>1, <1>2, <1>3, <3>1 DEF NumbersKept, CountedOnce, NoneListedYet
  <2>2. ASSUME NEW o \in Sigs \ {sig}, at'[o] = "first"
        PROVE  /\ old'[o] = <<>> /\ \A s \in Sigs : Counting(s)' => Inside(s, o)'
               /\ \A s \in Sigs \ {o} : ~Inside(s, o)' =>
                     /\ at'[s] = "number" => old'[s] = <<>>
                     /\ at'[s] = "link" => old'[s] = <<>> /\ num'[s] = 1
    <3>1. at[o] = "first" /\ Inside(sig, o)
      BY <1>1, <2>2 DEF Innermost
    <3> QED
      BY <1>1, <1>2, <1>3, <3>1 DEF NumbersKept, FirstAlone
  <2> QED
    BY <2>1, <2>2 DEF FirstAlone
<1>8. NoneListedYet'
  BY <1>1, <1>2 DEF NumbersKept, NoneListedYet
<1>9. NumbersNoted'
  BY <1>2 DEF NumbersKept, NumbersNoted, Distinct, Below
<1> QED
  BY <1>4, <1>5, <1>6, <1>7, <1>8, <1>9 DEF NumbersKept

\* addJob begins to number.
LEMMA AddFirstNumbers ==
    ASSUME TInv, RunningOnce, NumbersKept, NEW sig \in Sigs, AddFirst(sig)
    PROVE  NumbersKept'
<1>1. /\ Innermost(sig) /\ \A o, s \in Sigs : Inside(o, s)' <=> Inside(o, s)
      /\ \A s \in Sigs \ {sig} : at'[s] = at[s] /\ (Counting(s)' <=> Counting(s))
  BY AddJobInside DEF AddJob
<1>2. /\ at[sig] = "first" /\ at'[sig] = "number" /\ jobNum' = 1
      /\ UNCHANGED <<main, removal, num, list, old>>
  BY DEF AddFirst, At, Goes, Adds, FirstNumber, TInv, TypeOK
<1>3. /\ old[sig] = <<>> /\ ~Counting(sig) /\ ~Counting(sig)' /\ at'[sig] \in Linking
      /\ \A s \in Sigs \ {sig} : /\ ~Counting(s) /\ ~Counting(s)'
                                 /\ at[s] = "number" => old[s] = <<>>
                                 /\ at[s] = "link" => old[s] = <<>> /\ num[s] = 1
  BY <1>1, <1>2 DEF NumbersKept, FirstAlone, Innermost, Counting, Linking
<1>4. NumbersListed'
  BY <1>3 DEF NumbersListed
<1>5. NumbersHeld'
  <2>1. \A s \in Sigs : at'[s] \in {"number", "link"} => old'[s] = <<>> /\ (at'[s] = "link" => num'[s] = 1)
    BY <1>1, <1>2, <1>3
  <2>2. \A s \in Sigs : old'[s] = <<>> => Distinct(old[s])' /\ Below(old[s], jobNum)' /\ Below(old[s], num[s])'
    BY DEF Distinct, Below
  <2> QED
    BY <1>2, <2>1, <2>2 DEF NumbersHeld
<1>6. CountedOnce'
  BY <1>1, <1>3 DEF CountedOnce, Counting
<1>7. FirstAlone'
  <2>1. ASSUME NEW o \in Sigs, at'[o] = "first"
        PROVE  /\ old'[o] = <<>> /\ \A s \in Sigs : Counting(s)' => Inside(s, o)'
               /\ \A s \in Sigs \ {o} : ~Inside(s, o)' =>
                     /\ at'[s] = "number" => old'[s] = <<>>
                     /\ at'[s] = "link" => old'[s] = <<>> /\ num'[s] = 1
    <3>1. o # sig /\ at[o] = "first" /\ Inside(sig, o)
      BY <1>1, <1>2, <2>1 DEF Innermost
    <3> QED
      BY <1>1, <1>2, <1>3, <3>1 DEF NumbersKept, FirstAlone
  <2> QED
    BY <2>1 DEF FirstAlone
<1>8. NoneListedYet'
  BY <1>1, <1>2, <1>3 DEF NoneListedYet
<1>9. main # "unlink"
  BY <1>2, <1>3 DEF TInv, TypeOK, JobNoted, Linking
<1>10. NumbersNoted'
  BY <1>2, <1>9 DEF NumbersNoted
<1> QED
  BY <1>4, <1>5, <1>6, <1>7, <1>8, <1>10 DEF NumbersKept

\* addJob reads the number.
LEMMA AddNumbersNumbers ==
    ASSUME TInv, RunningOnce, NumbersKept, NEW sig \in Sigs, AddNumbers(sig)
    PROVE  NumbersKept'
<1>1. /\ Innermost(sig) /\ \A o, s \in Sigs : Inside(o, s)' <=> Inside(o, s)
      /\ \A s \in Sigs \ {sig} : at'[s] = at[s] /\ (Counting(s)' <=> Counting(s))
      /\ \A s \in Sigs \ {sig} : at[s] # "none" /\ Free(s)' => Free(s)
      /\ Free(sig)' <=> Free(sig)
  BY AddJobInside DEF AddJob
<1>2. /\ at[sig] = "number" /\ at'[sig] = "link"
      /\ num'[sig] = jobNum /\ \A s \in Sigs \ {sig} : num'[s] = num[s]
      /\ UNCHANGED <<main, removal, list, old, jobNum>> /\ jobNum \in Nat
  BY DEF AddNumbers, At, Goes, Adds, NumberRead, TInv, TypeOK, handled
<1>3. at'[sig] \in Linking /\ ~Counting(sig) /\ ~Counting(sig)'
  BY <1>2 DEF Linking, Counting
<1>4. NumbersListed'
  BY <1>3 DEF NumbersListed
<1>5. NumbersHeld'
  <2>1. ASSUME Free(sig)'
        PROVE  Distinct(old[sig])' /\ Below(old[sig], num[sig])' /\ num'[sig] <= jobNum'
    BY <1>1, <1>2, <2>1 DEF NumbersKept, NumbersHeld, Distinct, Below
  <2>2. ASSUME NEW s \in Sigs \ {sig}, Free(s)', at'[s] \in {"number", "link"}
        PROVE  /\ at'[s] = "number" => Distinct(old[s])' /\ Below(old[s], jobNum)'
               /\ at'[s] = "link" => Distinct(old[s])' /\ Below(old[s], num[s])' /\ num'[s] <= jobNum'
    <3>1. Free(s) /\ at'[s] = at[s]
      BY <1>1, <2>2
    <3> QED
      BY <1>2, <3>1 DEF NumbersKept, NumbersHeld, Distinct, Below
  <2> QED
    BY <1>2, <2>1, <2>2 DEF NumbersHeld
<1>6. CountedOnce'
  BY <1>1, <1>2, <1>3 DEF NumbersKept, CountedOnce
<1>7. FirstAlone'
  <2>1. ASSUME NEW o \in Sigs, at'[o] = "first"
        PROVE  /\ old'[o] = <<>> /\ \A s \in Sigs : Counting(s)' => Inside(s, o)'
               /\ \A s \in Sigs \ {o} : ~Inside(s, o)' =>
                     /\ at'[s] = "number" => old'[s] = <<>>
                     /\ at'[s] = "link" => old'[s] = <<>> /\ num'[s] = 1
    <3>1. o # sig /\ at[o] = "first" /\ Inside(sig, o)
      BY <1>1, <1>2, <2>1 DEF Innermost
    <3> QED
      BY <1>1, <1>2, <1>3, <3>1 DEF NumbersKept, FirstAlone
  <2> QED
    BY <2>1 DEF FirstAlone
<1>8. NoneListedYet'
  BY <1>1, <1>2 DEF NumbersKept, NoneListedYet
<1>9. NumbersNoted'
  BY <1>2 DEF NumbersKept, NumbersNoted, Distinct, Below
<1> QED
  BY <1>4, <1>5, <1>6, <1>7, <1>8, <1>9 DEF NumbersKept

\* What the handler has put the list to: its job, and behind it what was old.
LEMMA LinkedList ==
    ASSUME TInv, NEW sig \in Sigs, AddLinks(sig)
    PROVE  /\ at[sig] = "link" /\ at'[sig] = "count" /\ \A s \in Sigs : s # sig => at'[s] = at[s]
           /\ old[sig] \in Seq(ListedJob) /\ Len(old[sig]) \in Nat
           /\ DOMAIN old[sig] = 1..Len(old[sig])
           /\ list' \in Seq(ListedJob) /\ Len(list') = Len(old[sig]) + 1
           /\ DOMAIN list' = 1..(Len(old[sig]) + 1)
           /\ list'[1].pid = currentJob.pid /\ list'[1].num = num[sig]
           /\ \A i \in 1..Len(old[sig]) : list'[i + 1] = old[sig][i]
           /\ \A s \in Sigs : s # sig => old'[s] = old[s] /\ num'[s] = num[s]
           /\ currentJob.pid \in Pids
<1> DEFINE new == [currentJob EXCEPT !.num = num[sig]]
<1>1. At(sig, "link") /\ Goes(sig, "count") /\ list' = <<new>> \o old[sig]
  BY DEF AddLinks
<1>2. /\ at[sig] = "link" /\ at'[sig] = "count" /\ \A s \in Sigs : s # sig => at'[s] = at[s]
  BY <1>1, GoesOn DEF HandlerPlaces
<1>3. new.pid = currentJob.pid /\ new.num = num[sig] /\ currentJob.pid \in Pids /\ new \in ListedJob
  BY <1>2 DEF TInv, TypeOK, CurrentKnown, NumberKnown, Added, Linking, Job, ListedJob
<1>4. old[sig] \in Seq(ListedJob)
  BY DEF TInv, TypeOK
<1>5. \A s \in Sigs : s # sig => old'[s] = old[s] /\ num'[s] = num[s]
  BY DEF AddLinks, TInv, TypeOK
<1> HIDE DEF new
<1>6. /\ list' \in Seq(ListedJob) /\ Len(list') = Len(old[sig]) + 1 /\ Len(old[sig]) \in Nat
      /\ DOMAIN list' = 1..(Len(old[sig]) + 1) /\ DOMAIN old[sig] = 1..Len(old[sig])
      /\ list'[1] = new /\ \A i \in 1..Len(old[sig]) : list'[i + 1] = old[sig][i]
  BY <1>1, <1>3, <1>4
<1> QED
  BY <1>2, <1>3, <1>4, <1>5, <1>6

\* The new list, when no handler has listed a job that is not counted.
LEMMA AddLinksNumbers ==
    ASSUME TInv, RunningOnce, NumbersKept, NEW sig \in Sigs, AddLinks(sig), ~crossed'
    PROVE  NumbersKept'
<1>1. /\ Innermost(sig) /\ \A o, s \in Sigs : Inside(o, s)' <=> Inside(o, s)
      /\ \A s \in Sigs \ {sig} : at'[s] = at[s] /\ (Counting(s)' <=> Counting(s))
      /\ \A s \in Sigs \ {sig} : at[s] # "none" /\ Free(s)' => Free(s)
  BY AddJobInside DEF AddJob
<1>2. /\ at[sig] = "link" /\ at'[sig] = "count" /\ UNCHANGED <<main, removal, jobNum>>
      /\ \A s \in Sigs : ~Counting(s)
  BY DEF AddLinks, At, Goes, Adds, TInv, TypeOK
<1>3. /\ Len(old[sig]) \in Nat /\ old[sig] \in Seq(ListedJob)
      /\ DOMAIN old[sig] = 1..Len(old[sig]) /\ DOMAIN list' = 1..(Len(old[sig]) + 1)
      /\ list'[1].num = num[sig] /\ \A i \in 1..Len(old[sig]) : list'[i + 1] = old[sig][i]
      /\ \A s \in Sigs \ {sig} : old'[s] = old[s] /\ num'[s] = num[s]
  BY LinkedList
<1>4. Counting(sig)' /\ at'[sig] \notin Linking /\ \A s \in Sigs \ {sig} : ~Counting(s)'
  BY <1>1, <1>2 DEF Counting, Linking
<1>5. ASSUME \A s \in Sigs : at'[s] \notin Linking
      PROVE  Distinct(list') /\ Below(list', jobNum' + 1)
  <2> DEFINE o == old[sig]
             n == num[sig]
  <2>1. Free(sig)
    BY <1>1, <1>2, <1>5 DEF Free, Busy
  <2>2. Distinct(o) /\ Below(o, n) /\ n <= jobNum /\ n \in Nat /\ jobNum \in Nat
    BY <1>2, <2>1 DEF NumbersKept, NumbersHeld, TInv, TypeOK
  <2>3. \A i \in DOMAIN o : o[i].num \in Nat
    <3>1. \A i \in DOMAIN o : o[i] \in ListedJob
      BY <1>3
    <3> QED
      BY <3>1 DEF ListedJob
  <2>4. /\ Len(o) \in Nat /\ DOMAIN o = 1..Len(o) /\ DOMAIN list' = 1..(Len(o) + 1)
        /\ list'[1].num = n /\ \A i \in 1..Len(o) : list'[i + 1] = o[i]
    BY <1>3
  <2> HIDE DEF o, n
  <2>5. \A i \in DOMAIN list' : i = 1 \/ (i - 1 \in DOMAIN o /\ list'[i] = o[i - 1])
    BY <2>4
  <2>6. \A i \in DOMAIN o : o[i].num < n
    BY <2>2 DEF Below
  <2>7. \A i, k \in DOMAIN o : o[i].num = o[k].num => i = k
    BY <2>2 DEF Distinct
  <2>8. ASSUME NEW i \in DOMAIN list' PROVE list'[i].num < jobNum + 1
    <3>1. CASE i = 1
      BY <2>2, <2>4, <3>1
    <3>2. CASE i - 1 \in DOMAIN o /\ list'[i] = o[i - 1]
      BY <2>2, <2>3, <2>6, <3>2
    <3> QED
      BY <2>5, <3>1, <3>2
  <2>9. ASSUME NEW i \in DOMAIN list', NEW k \in DOMAIN list', list'[i].num = list'[k].num PROVE i = k
    <3>1. i \in Int /\ k \in Int
      BY <2>4
    <3>2. CASE i = 1 /\ k = 1
      BY <3>2
    <3>3. CASE i = 1 /\ k - 1 \in DOMAIN o /\ list'[k] = o[k - 1]
      BY <2>2, <2>3, <2>4, <2>6, <2>9, <3>3
    <3>4. CASE k = 1 /\ i - 1 \in DOMAIN o /\ list'[i] = o[i - 1]
      BY <2>2, <2>3, <2>4, <2>6, <2>9, <3>4
    <3>5. CASE i - 1 \in DOMAIN o /\ list'[i] = o[i - 1] /\ k - 1 \in DOMAIN o /\ list'[k] = o[k - 1]
      <4>1. i - 1 = k - 1
        BY <2>7, <2>9, <3>5
      <4> QED
        BY <3>1, <4>1
    <3> QED
      BY <2>5, <3>2, <3>3, <3>4, <3>5
  <2> QED
    BY <1>2, <2>8, <2>9 DEF Distinct, Below
<1>6. NumbersListed'
  <2>1. (\A s \in Sigs : at'[s] \notin Linking) => Distinct(list)' /\ Below(list, jobNum + 1)'
    BY <1>5 DEF Distinct, Below
  <2> QED
    BY <1>4, <2>1 DEF NumbersListed
<1>7. NumbersHeld'
  <2>1. ASSUME NEW s \in Sigs, Free(s)', at'[s] \in {"number", "link"}
        PROVE  /\ at'[s] = "number" => Distinct(old[s])' /\ Below(old[s], jobNum)'
               /\ at'[s] = "link" => Distinct(old[s])' /\ Below(old[s], num[s])' /\ num'[s] <= jobNum'
    <3>1. s # sig /\ Free(s) /\ at'[s] = at[s]
      BY <1>1, <1>2, <2>1
    <3> QED
      BY <1>2, <1>3, <3>1 DEF NumbersKept, NumbersHeld, Distinct, Below
  <2> QED
    BY <2>1 DEF NumbersHeld
<1>8. list' # <<>>
  BY <1>3
<1>9. CountedOnce'
  <2>1. \A s \in Sigs : at'[s] # "next"
    BY <1>2, <1>4 DEF Counting
  <2> QED
    BY <1>4, <1>8, <2>1 DEF CountedOnce
<1>10. FirstAlone'
  <2>1. ASSUME NEW o \in Sigs, at'[o] = "first"
        PROVE  /\ old'[o] = <<>> /\ \A s \in Sigs : Counting(s)' => Inside(s, o)'
               /\ \A s \in Sigs \ {o} : ~Inside(s, o)' =>
                     /\ at'[s] = "number" => old'[s] = <<>>
                     /\ at'[s] = "link" => old'[s] = <<>> /\ num'[s] = 1
    <3>1. o # sig /\ at[o] = "first" /\ Inside(sig, o)
      BY <1>1, <1>2, <2>1 DEF Innermost
    <3> QED
      BY <1>1, <1>3, <1>4, <3>1 DEF NumbersKept, FirstAlone
  <2> QED
    BY <2>1 DEF FirstAlone
<1>11. NoneListedYet'
  BY <1>8 DEF NoneListedYet
<1>12. NumbersNoted'
  BY <1>2 DEF NumbersKept, NumbersNoted, Distinct, Below
<1> QED
  BY <1>6, <1>7, <1>9, <1>10, <1>11, <1>12 DEF NumbersKept

\* jobNum++, in two steps.
LEMMA AddCountsNumbers ==
    ASSUME TInv, RunningOnce, NumbersKept, NEW sig \in Sigs, AddCounts(sig)
    PROVE  NumbersKept'
<1>1. /\ Innermost(sig) /\ \A o, s \in Sigs : Inside(o, s)' <=> Inside(o, s)
      /\ \A s \in Sigs \ {sig} : at'[s] = at[s] /\ (Counting(s)' <=> Counting(s))
      /\ \A s \in Sigs \ {sig} : at[s] # "none" /\ Free(s)' => Free(s)
  BY AddJobInside DEF AddJob
<1>2. /\ at[sig] = "count" /\ at'[sig] = "next"
      /\ num'[sig] = jobNum /\ \A s \in Sigs \ {sig} : num'[s] = num[s]
      /\ UNCHANGED <<main, removal, list, old, jobNum>>
  BY DEF AddCounts, At, Goes, Adds, TInv, TypeOK, handled
<1>3. /\ at[sig] \notin Linking /\ at'[sig] \notin Linking /\ Counting(sig) /\ Counting(sig)'
      /\ at'[sig] \notin {"first", "number", "link"}
  BY <1>2 DEF Linking, Counting
<1>4. NumbersListed'
  BY <1>1, <1>2, <1>3 DEF NumbersKept, NumbersListed, Distinct, Below
<1>5. NumbersHeld'
  <2>1. ASSUME NEW s \in Sigs, Free(s)', at'[s] \in {"number", "link"}
        PROVE  /\ at'[s] = "number" => Distinct(old[s])' /\ Below(old[s], jobNum)'
               /\ at'[s] = "link" => Distinct(old[s])' /\ Below(old[s], num[s])' /\ num'[s] <= jobNum'
    <3>1. s # sig /\ Free(s) /\ at'[s] = at[s]
      BY <1>1, <1>2, <2>1
    <3> QED
      BY <1>2, <3>1 DEF NumbersKept, NumbersHeld, Distinct, Below
  <2> QED
    BY <2>1 DEF NumbersHeld
<1>6. CountedOnce'
  BY <1>1, <1>2, <1>3 DEF NumbersKept, CountedOnce
<1>7. FirstAlone'
  BY <1>1, <1>2, <1>3 DEF NumbersKept, FirstAlone
<1>8. NoneListedYet'
  BY <1>1, <1>2, <1>3 DEF NumbersKept, NoneListedYet
<1>9. NumbersNoted'
  BY <1>2 DEF NumbersKept, NumbersNoted, Distinct, Below
<1> QED
  BY <1>4, <1>5, <1>6, <1>7, <1>8, <1>9 DEF NumbersKept

LEMMA AddNextNumbers ==
    ASSUME TInv, RunningOnce, NumbersKept, NEW sig \in Sigs, AddNext(sig)
    PROVE  NumbersKept'
<1>1. /\ Innermost(sig) /\ \A o, s \in Sigs : Inside(o, s)' <=> Inside(o, s)
      /\ \A s \in Sigs \ {sig} : at'[s] = at[s] /\ (Counting(s)' <=> Counting(s))
      /\ \A s \in Sigs \ {sig} : at[s] # "none" /\ Free(s)' => Free(s)
  BY AddJobInside DEF AddJob
<1>2. /\ at[sig] = "next" /\ at'[sig] = "tell" /\ jobNum' = num[sig] + 1
      /\ \A s \in Sigs \ {sig} : num'[s] = num[s]
      /\ UNCHANGED <<main, removal, list, old>>
  BY DEF AddNext, At, Goes, Adds, TInv, TypeOK
<1>3. /\ at[sig] \notin Linking /\ at'[sig] \notin Linking /\ Counting(sig) /\ ~Counting(sig)'
      /\ at'[sig] \notin {"first", "number", "link"}
  BY <1>2 DEF Linking, Counting
<1>4. /\ jobNum' = jobNum + 1 /\ jobNum \in Nat /\ list # <<>>
      /\ \A s \in Sigs \ {sig} : ~Counting(s) /\ ~Counting(s)'
  BY <1>1, <1>2, <1>3 DEF NumbersKept, CountedOnce, TInv, TypeOK
<1>5. \A l \in Seq(ListedJob) : Below(l, jobNum) => Below(l, jobNum')
  <2>1. jobNum' \in Nat /\ jobNum <= jobNum'
    BY <1>4
  <2> QED
    BY <1>4, <2>1, BelowMore
<1>6. /\ list \in Seq(ListedJob) /\ removal.rest \in Seq(ListedJob)
      /\ \A s \in Sigs : old[s] \in Seq(ListedJob) /\ num[s] \in Nat
  BY DEF TInv, TypeOK
<1>7. NumbersListed'
  <2>1. ASSUME \A s \in Sigs : at'[s] \notin Linking
        PROVE  Distinct(list) /\ Below(list, jobNum')
    BY <1>1, <1>3, <1>4, <2>1 DEF NumbersKept, NumbersListed
  <2>2. ASSUME Below(list, jobNum') PROVE Below(list, jobNum' + 1)
    <3>1. jobNum' \in Nat /\ jobNum' + 1 \in Nat /\ jobNum' <= jobNum' + 1
      BY <1>4
    <3> QED
      BY <1>6, <2>2, <3>1, BelowMore
  <2> QED
    BY <1>2, <2>1, <2>2 DEF NumbersListed, Distinct, Below
<1>8. NumbersHeld'
  <2>1. ASSUME NEW s \in Sigs, Free(s)', at'[s] \in {"number", "link"}
        PROVE  /\ at'[s] = "number" => Distinct(old[s])' /\ Below(old[s], jobNum)'
               /\ at'[s] = "link" => Distinct(old[s])' /\ Below(old[s], num[s])' /\ num'[s] <= jobNum'
    <3>1. s # sig /\ Free(s) /\ at'[s] = at[s] /\ at[s] # "none"
      BY <1>1, <1>2, <2>1
    <3>2. CASE at[s] = "number"
      <4>1. Distinct(old[s]) /\ Below(old[s], jobNum')
        BY <1>5, <1>6, <3>1, <3>2 DEF NumbersKept, NumbersHeld
      <4> QED
        BY <1>2, <3>1, <3>2, <4>1 DEF Distinct, Below
    <3>3. CASE at[s] = "link"
      <4>1. Distinct(old[s]) /\ Below(old[s], num[s]) /\ num[s] <= jobNum
        BY <3>1, <3>3 DEF NumbersKept, NumbersHeld
      <4>2. num[s] <= jobNum'
        BY <1>4, <1>6, <4>1
      <4> QED
        BY <1>2, <3>1, <3>3, <4>1, <4>2 DEF Distinct, Below
    <3> QED
      BY <2>1, <3>1, <3>2, <3>3
  <2> QED
    BY <2>1 DEF NumbersHeld
<1>9. CountedOnce'
  <2>1. \A s \in Sigs : ~Counting(s)'
    BY <1>3, <1>4
  <2> QED
    BY <2>1 DEF CountedOnce, Counting
<1>10. FirstAlone'
  <2>1. \A s \in Sigs : ~Counting(s)'
    BY <1>3, <1>4
  <2>2. ASSUME NEW o \in Sigs, at'[o] = "first"
        PROVE  /\ old'[o] = <<>>
               /\ \A s \in Sigs \ {o} : ~Inside(s, o)' =>
                     /\ at'[s] = "number" => old'[s] = <<>>
                     /\ at'[s] = "link" => old'[s] = <<>> /\ num'[s] = 1
    BY <1>1, <1>2, <1>3, <2>2 DEF NumbersKept, FirstAlone
  <2> QED
    BY <2>1, <2>2 DEF FirstAlone
<1>11. NoneListedYet'
  BY <1>2, <1>4 DEF NoneListedYet
<1>12. NumbersNoted'
  <2>1. main = "unlink" => Distinct(removal.rest) /\ Below(removal.rest, jobNum')
    BY <1>5, <1>6 DEF NumbersKept, NumbersNoted
  <2> QED
    BY <1>2, <2>1 DEF NumbersNoted, Distinct, Below
<1> QED
  BY <1>7, <1>8, <1>9, <1>10, <1>11, <1>12 DEF NumbersKept

LEMMA AddJobNumbers ==
    ASSUME TInv, NInv, NEW sig \in Sigs, AddJob(sig)
    PROVE  NInv'
<1>1. RunningOnce'
  BY AddJobInside DEF NInv
<1>2. ~crossed' => ~crossed
  BY DEF AddJob, AddTests, AddFirst, AddNumbers, AddLinks, AddCounts, AddNext, handled
<1>3. ~crossed' => NumbersKept'
  BY <1>2, AddTestsNumbers, AddFirstNumbers, AddNumbersNumbers, AddLinksNumbers, AddCountsNumbers,
     AddNextNumbers DEF NInv, AddJob
<1> QED
  BY <1>1, <1>3 DEF NInv


\* The list without its slot n: the jobs below n keep their slot, the others move
\* down by one.
LEMMA WithoutSlot ==
    ASSUME NEW s \in Seq(ListedJob), NEW n \in 1..Len(s),
           NEW t, t = SubSeq(s, 1, n - 1) \o SubSeq(s, n + 1, Len(s))
    PROVE  /\ DOMAIN t = 1..(Len(s) - 1)
           /\ \A i \in 1..(Len(s) - 1) : i < n => t[i] = s[i]
           /\ \A i \in 1..(Len(s) - 1) : ~(i < n) => t[i] = s[i + 1]
<1> DEFINE a == SubSeq(s, 1, n - 1)
           b == SubSeq(s, n + 1, Len(s))
           len == Len(s)
<1>1. len \in Nat /\ n \in Nat /\ 1 <= n /\ n <= len
  OBVIOUS
<1>2. t = a \o b
  OBVIOUS
<1>3. /\ a \in Seq(ListedJob) /\ Len(a) = n - 1 - 1 + 1
      /\ \A i \in 1..(n - 1 - 1 + 1) : a[i] = s[1 + i - 1]
  <2>1. 1 \in Nat \ {0} /\ n - 1 \in Nat /\ n - 1 <= Len(s) /\ 1 <= n - 1 + 1
    BY <1>1
  <2> QED
    BY <2>1, PartOfList, Zenon
<1>4. /\ b \in Seq(ListedJob) /\ Len(b) = Len(s) - (n + 1) + 1
      /\ \A i \in 1..(Len(s) - (n + 1) + 1) : b[i] = s[(n + 1) + i - 1]
  <2>1. n + 1 \in Nat \ {0} /\ Len(s) \in Nat /\ Len(s) <= Len(s) /\ n + 1 <= Len(s) + 1
    BY <1>1
  <2> QED
    BY <2>1, PartOfList, Zenon
<1>5. Len(s) = len
  OBVIOUS
<1> HIDE DEF a, b, len
<1>6. Len(a) = n - 1 /\ Len(b) = len - n /\ Len(a) + Len(b) = len - 1
  <2>1. n - 1 - 1 + 1 = n - 1 /\ len - (n + 1) + 1 = len - n /\ (n - 1) + (len - n) = len - 1
    BY <1>1
  <2> QED
    BY <1>3, <1>4, <1>5, <2>1
<1>7. /\ t \in Seq(ListedJob) /\ Len(t) = Len(a) + Len(b)
      /\ \A i \in 1..(Len(a) + Len(b)) : t[i] = IF i <= Len(a) THEN a[i] ELSE b[i - Len(a)]
  <2>1. a \in Seq(ListedJob) /\ b \in Seq(ListedJob)
    BY <1>3, <1>4
  <2>2. /\ a \o b \in Seq(ListedJob) /\ Len(a \o b) = Len(a) + Len(b)
        /\ \A i \in 1..(Len(a) + Len(b)) : (a \o b)[i] = IF i <= Len(a) THEN a[i] ELSE b[i - Len(a)]
    BY ONLY <2>1, ConcatProperties, Zenon
  <2> QED
    BY ONLY <1>2, <2>2
<1>8. DOMAIN t = 1..(len - 1)
  <2>1. DOMAIN t = 1..Len(t)
    BY ONLY <1>7
  <2> QED
    BY <1>6, <1>7, <2>1
<1>9. ASSUME NEW i \in 1..(len - 1), i < n PROVE t[i] = s[i]
  <2>1. /\ i \in 1..(Len(a) + Len(b)) /\ i <= Len(a)
        /\ i \in 1..(n - 1 - 1 + 1) /\ 1 + i - 1 = i
    <3>1. i <= n - 1 /\ i \in 1..(n - 1 - 1 + 1) /\ 1 + i - 1 = i
      BY <1>1, <1>9
    <3> QED
      BY <1>6, <3>1
  <2>2. t[i] = a[i]
    BY <1>7, <2>1, Zenon
  <2>3. a[i] = s[1 + i - 1]
    BY <1>3, <2>1, Zenon
  <2> QED
    BY <2>1, <2>2, <2>3
<1>10. ASSUME NEW i \in 1..(len - 1), ~(i < n) PROVE t[i] = s[i + 1]
  <2> DEFINE k == i - (n - 1)
  <2>1. k \in 1..(len - (n + 1) + 1) /\ ~(i <= n - 1) /\ (n + 1) + k - 1 = i + 1
    BY <1>1, <1>10
  <2>2. i \in 1..(Len(a) + Len(b)) /\ ~(i <= Len(a)) /\ i - Len(a) = k
    BY <1>6, <2>1
  <2> HIDE DEF k
  <2>3. t[i] = b[k]
    BY <1>7, <2>2, Zenon
  <2>4. b[k] = s[(n + 1) + k - 1]
    BY <1>4, <1>5, <2>1, Zenon
  <2> QED
    BY <2>1, <2>3, <2>4
<1> QED
  BY <1>5, <1>8, <1>9, <1>10, Zenon

\* What removeJob leaves of the list leaves jobs out.
LEMMA UnlinkNumbers == TInv /\ NInv /\ RemoveUnlink => NInv'
<1> SUFFICES ASSUME TInv, NInv, RemoveUnlink
             PROVE  NInv'
  OBVIOUS
<1>1. main = "unlink" /\ main' = "leave" /\ jobNum' = jobNum /\ crossed' = crossed /\ list' = Unlinked
      /\ UNCHANGED frames
  BY DEF RemoveUnlink, Steps
<1>2. list \in Seq(ListedJob) /\ Len(list) \in Nat /\ DOMAIN list = 1..Len(list)
  BY DEF TInv, TypeOK
<1>3. \A s \in Sigs : at[s] = "none"
  BY NoFrames DEF RemoveUnlink, Steps
<1>4. RunningOnce'
  BY <1>1 DEF NInv, RunningOnce, frames
<1>5. TInv'
  BY RemovalTypes
<1>6. CASE crossed
  BY <1>1, <1>4, <1>6 DEF NInv
<1>7. CASE ~crossed
  <2>1. NumbersKept
    BY <1>7 DEF NInv
  <2>2. Distinct(list) /\ Below(list, jobNum)
    BY <1>3, <2>1, QuietNumbers DEF NumbersKept
  <2>3. ASSUME removal.atHead PROVE Distinct(list') /\ Below(list', jobNum)
    BY <1>1, <2>1, <2>3 DEF NumbersKept, NumbersNoted, Unlinked
  <2>4. ASSUME ~removal.atHead PROVE Distinct(list') /\ Below(list', jobNum)
    <3> DEFINE n == Found
               f == [i \in DOMAIN list' |-> IF i < n THEN i ELSE i + 1]
    <3>1. n \in 1..Len(list) /\ list' = SubSeq(list, 1, n - 1) \o SubSeq(list, n + 1, Len(list))
      BY <1>1, <1>2, <2>4, UnlinkedTypes
    <3> HIDE DEF n
    <3>2. /\ DOMAIN list' = 1..(Len(list) - 1)
          /\ \A i \in 1..(Len(list) - 1) : i < n => list'[i] = list[i]
          /\ \A i \in 1..(Len(list) - 1) : ~(i < n) => list'[i] = list[i + 1]
      <4> DEFINE t == SubSeq(list, 1, n - 1) \o SubSeq(list, n + 1, Len(list))
      <4>1. /\ DOMAIN t = 1..(Len(list) - 1)
            /\ \A i \in 1..(Len(list) - 1) : i < n => t[i] = list[i]
            /\ \A i \in 1..(Len(list) - 1) : ~(i < n) => t[i] = list[i + 1]
        <5> HIDE DEF f
        <5> QED
          BY ONLY <1>2, <3>1, WithoutSlot
      <4>2. list' = t
        BY <3>1
      <4> HIDE DEF t, f
      <4> QED
        BY ONLY <4>1, <4>2
    <3>3. ASSUME NEW i \in DOMAIN list'
          PROVE  i \in 1..(Len(list) - 1) /\ i \in 1..Len(list) /\ i + 1 \in 1..Len(list)
      <4>1. i \in 1..(Len(list) - 1) /\ Len(list) \in Nat
        BY <1>2, <3>2
      <4> HIDE DEF f
      <4> QED
        BY ONLY <4>1
    <3>4. ASSUME NEW i \in DOMAIN list' PROVE f[i] \in DOMAIN list /\ list'[i] = list[f[i]]
      <4>1. f[i] = IF i < n THEN i ELSE i + 1
        OBVIOUS
      <4> HIDE DEF f
      <4>2. CASE i < n
        <5>1. f[i] = i
          BY <4>1, <4>2
        <5> QED
          BY <1>2, <3>2, <3>3, <4>2, <5>1, Zenon
      <4>3. CASE ~(i < n)
        <5>1. f[i] = i + 1
          BY <4>1, <4>3
        <5> QED
          BY <1>2, <3>2, <3>3, <4>3, <5>1, Zenon
      <4> QED
        BY <4>2, <4>3
    <3>5. ASSUME NEW i \in DOMAIN list', NEW k \in DOMAIN list', f[i] = f[k] PROVE i = k
      <4>1. f[i] = (IF i < n THEN i ELSE i + 1) /\ f[k] = (IF k < n THEN k ELSE k + 1)
        OBVIOUS
      <4> HIDE DEF f
      <4>2. (IF i < n THEN i ELSE i + 1) = (IF k < n THEN k ELSE k + 1)
        BY <3>5, <4>1
      <4>3. i \in Int /\ k \in Int /\ n \in Int
        BY <3>1, <3>3
      <4> QED
        BY ONLY <4>2, <4>3
    <3> HIDE DEF f
    <3> QED
      BY <2>2, <3>4, <3>5, LeavingOut, Zenon
  <2>5. Distinct(list)' /\ Below(list, jobNum)'
    BY <1>1, <2>3, <2>4 DEF Distinct, Below
  <2>6. TInv' /\ \A s \in Sigs : at'[s] = "none"
    BY <1>1, <1>3, <1>5 DEF frames
  <2>7. (NumbersListed /\ NumbersHeld /\ CountedOnce /\ FirstAlone /\ NoneListedYet)'
    BY <2>5, <2>6, QuietAfter
  <2>8. NumbersNoted'
    BY <1>1 DEF NumbersNoted
  <2> QED
    BY <1>4, <2>7, <2>8 DEF NInv, NumbersKept
<1> QED
  BY <1>6, <1>7

\* removeJob notes the end of the list.
LEMMA FindNumbers == TInv /\ NInv /\ RemoveFind => NInv'
<1> SUFFICES ASSUME TInv, NInv, RemoveFind
             PROVE  NInv'
  OBVIOUS
<1>1. UNCHANGED <<frames, list, jobNum, crossed>> /\ \A s \in Sigs : at[s] = "none"
  BY NoFrames DEF RemoveFind, Steps, handled
<1>2. RunningOnce'
  BY <1>1 DEF NInv, RunningOnce, frames
<1>3. ASSUME NumbersKept PROVE NumbersKept'
  <2>1. Distinct(list) /\ Below(list, jobNum)
    BY <1>1, <1>3, QuietNumbers DEF NumbersKept
  <2>2. TInv' /\ (\A s \in Sigs : at'[s] = "none") /\ Distinct(list)' /\ Below(list, jobNum)'
    BY <1>1, <2>1, RemovalTypes DEF frames, Distinct, Below
  <2>3. ASSUME NEW n \in DOMAIN list,
               removal' = [removal EXCEPT !.atHead = (n = 1),
                                          !.rest = SubSeq(list, n + 1, Len(list))]
        PROVE  Distinct(removal'.rest) /\ Below(removal'.rest, jobNum)
    <3> DEFINE r == SubSeq(list, n + 1, Len(list))
               f == [i \in DOMAIN r |-> n + i]
    <3>1. list \in Seq(ListedJob) /\ Len(list) \in Nat /\ n \in 1..Len(list) /\ DOMAIN list = 1..Len(list)
          /\ n + 1 \in Nat \ {0} /\ Len(list) <= Len(list) /\ n + 1 <= Len(list) + 1
      BY DEF TInv, TypeOK
    <3>2. /\ r \in Seq(ListedJob) /\ Len(r) = Len(list) - (n + 1) + 1
          /\ \A i \in 1..(Len(list) - (n + 1) + 1) : r[i] = list[(n + 1) + i - 1]
      BY <3>1, PartOfList, Zenon
    <3>3. removal'.rest = r
      BY <2>3 DEF TInv, TypeOK
    <3> HIDE DEF r
    <3>4. /\ \A i \in DOMAIN r : f[i] \in DOMAIN list /\ r[i] = list[f[i]]
          /\ \A i, k \in DOMAIN r : f[i] = f[k] => i = k
      <4>1. DOMAIN r = 1..(Len(list) - (n + 1) + 1)
        BY <3>2
      <4>2. \A i \in DOMAIN r : (n + 1) + i - 1 = n + i /\ n + i \in DOMAIN list
        BY <3>1, <4>1
      <4>3. \A i \in DOMAIN r : r[i] = list[n + i]
        BY <3>2, <4>1, <4>2
      <4>4. \A i, k \in DOMAIN r : n + i = n + k => i = k
        BY <3>1, <4>1
      <4> QED
        BY <4>2, <4>3, <4>4
    <3> HIDE DEF f
    <3>5. Distinct(r) /\ Below(r, jobNum)
      BY <2>1, <3>4, LeavingOut, Zenon
    <3> QED
      BY <3>3, <3>5
  <2>4. NumbersNoted'
    <3>1. main' = "unlink" => Distinct(removal'.rest) /\ Below(removal'.rest, jobNum)
      BY <2>3 DEF RemoveFind, JobsOf
    <3> QED
      BY <1>1, <3>1 DEF NumbersNoted, Distinct, Below
  <2> QED
    BY <2>2, <2>4, QuietAfter DEF NumbersKept
<1> QED
  BY <1>1, <1>2, <1>3 DEF NInv

\* A handler begins, or returns, which moves no other.
LEMMA DeliverInside ==
    ASSUME TInv, RunningOnce, NEW sig \in Sigs, Deliver(sig)
    PROVE  /\ RunningOnce'
           /\ \A o, s \in Sigs \ {sig} : Inside(o, s)' <=> Inside(o, s)
<1>1. /\ running' = <<sig>> \o running /\ at' = [at EXCEPT ![sig] = Entry[sig]] /\ at[sig] = "none"
      /\ at \in [Sigs -> HandlerPlaces] /\ running \in Seq(Sigs)
  BY DEF Deliver, TInv, TypeOK
<1>2. Entry[sig] # "none" /\ at'[sig] = Entry[sig] /\ \A s \in Sigs \ {sig} : at'[s] = at[s]
  BY <1>1 DEF Entry, Sigs
<1>3. /\ <<sig>> \o running \in Seq(Sigs) /\ Len(running) \in Nat /\ DOMAIN running = 1..Len(running)
      /\ DOMAIN (<<sig>> \o running) = 1..(Len(running) + 1) /\ (<<sig>> \o running)[1] = sig
      /\ \A i \in 1..Len(running) : (<<sig>> \o running)[i + 1] = running[i]
  BY <1>1
<1>4. /\ running' \in Seq(Sigs) /\ DOMAIN running' = 1..(Len(running) + 1) /\ running'[1] = sig
      /\ \A i \in 1..Len(running) : running'[i + 1] = running[i]
  BY <1>1, <1>3, Zenon
<1>5. \A i \in DOMAIN running : running[i] \in Sigs /\ running[i] # sig /\ i \in Int
  <2>1. \A i \in DOMAIN running : running[i] \in Sigs
    BY <1>1
  <2> QED
    BY <1>1, <1>3, <2>1 DEF RunningOnce
<1>6. \A i \in DOMAIN running' : i = 1 \/ (i - 1 \in DOMAIN running /\ running'[i] = running[i - 1])
  BY <1>3, <1>4
<1>7. RunningOnce'
  <2>1. ASSUME NEW i \in DOMAIN running', NEW k \in DOMAIN running', running'[i] = running'[k]
        PROVE  i = k
    <3>1. CASE i = 1 /\ k = 1
      BY <3>1
    <3>2. CASE i = 1 /\ k - 1 \in DOMAIN running /\ running'[k] = running[k - 1]
      BY <1>4, <1>5, <2>1, <3>2
    <3>3. CASE k = 1 /\ i - 1 \in DOMAIN running /\ running'[i] = running[i - 1]
      BY <1>4, <1>5, <2>1, <3>3
    <3>4. CASE /\ i - 1 \in DOMAIN running /\ running'[i] = running[i - 1]
               /\ k - 1 \in DOMAIN running /\ running'[k] = running[k - 1]
      <4>1. i \in Int /\ k \in Int
        BY <1>4
      <4>2. running[i - 1] = running[k - 1]
        BY <2>1, <3>4
      <4>3. i - 1 = k - 1
        BY <3>4, <4>2, Zenon DEF RunningOnce
      <4> QED
        BY <4>1, <4>3
    <3> QED
      BY <1>6, <3>1, <3>2, <3>3, <3>4
  <2>2. ASSUME NEW i \in DOMAIN running' PROVE at'[running'[i]] # "none"
    <3>1. CASE i = 1
      BY <1>2, <1>4, <3>1
    <3>2. CASE i - 1 \in DOMAIN running /\ running'[i] = running[i - 1]
      BY <1>2, <1>5, <3>2 DEF RunningOnce
    <3> QED
      BY <1>6, <3>1, <3>2
  <2> QED
    BY <2>1, <2>2 DEF RunningOnce
<1>8. ASSUME NEW o \in Sigs \ {sig}, NEW s \in Sigs \ {sig}, Inside(o, s) PROVE Inside(o, s)'
  <2>1. PICK i, k \in DOMAIN running : i < k /\ running[i] = o /\ running[k] = s
    BY <1>8 DEF Inside
  <2>2. /\ i + 1 \in DOMAIN running' /\ k + 1 \in DOMAIN running' /\ i + 1 < k + 1
        /\ running'[i + 1] = o /\ running'[k + 1] = s
    BY <1>3, <1>4, <2>1
  <2> QED
    BY <2>2 DEF Inside
<1>9. ASSUME NEW o \in Sigs \ {sig}, NEW s \in Sigs \ {sig}, Inside(o, s)' PROVE Inside(o, s)
  <2>1. PICK i, k \in DOMAIN running' : i < k /\ running'[i] = o /\ running'[k] = s
    BY <1>9 DEF Inside
  <2>2. /\ i - 1 \in DOMAIN running /\ k - 1 \in DOMAIN running
        /\ running[i - 1] = o /\ running[k - 1] = s
    BY <1>4, <1>6, <2>1
  <2>3. i - 1 < k - 1
    BY <1>4, <2>1
  <2> QED
    BY <2>2, <2>3 DEF Inside
<1> QED
  BY <1>7, <1>8, <1>9

LEMMA ReturnInside ==
    ASSUME TInv, RunningOnce, NEW sig \in Sigs, NEW place, At(sig, place), Returns(sig)
    PROVE  /\ RunningOnce' /\ at[sig] = place /\ at'[sig] = "none"
           /\ \A s \in Sigs \ {sig} : at'[s] = at[s]
           /\ \A o, s \in Sigs \ {sig} : Inside(o, s)' <=> Inside(o, s)
<1>1. /\ running' = Tail(running) /\ at' = [at EXCEPT ![sig] = "none"]
      /\ at \in [Sigs -> HandlerPlaces] /\ running \in Seq(Sigs)
      /\ running # <<>> /\ Head(running) = sig /\ at[sig] = place
  BY DEF Returns, At, TInv, TypeOK
<1>2. at'[sig] = "none" /\ \A s \in Sigs \ {sig} : at'[s] = at[s]
  BY <1>1
<1>3. /\ Len(running) \in Nat /\ DOMAIN running = 1..Len(running) /\ running[1] = sig
      /\ 1 \in DOMAIN running
      /\ DOMAIN running' = 1..(Len(running) - 1)
      /\ \A i \in 1..(Len(running) - 1) : running'[i] = running[i + 1]
  BY <1>1
<1>4. \A i \in DOMAIN running' : i \in Int /\ i + 1 \in DOMAIN running /\ running'[i] = running[i + 1]
  BY <1>3
<1>5. \A i \in DOMAIN running : i = 1 \/ (i - 1 \in DOMAIN running' /\ running'[i - 1] = running[i])
  BY <1>3
<1>6. \A i \in DOMAIN running' : running'[i] \in Sigs /\ running'[i] # sig
  <2>1. \A i \in DOMAIN running : running[i] \in Sigs
    BY <1>1
  <2>2. \A i \in DOMAIN running' : i + 1 # 1
    BY <1>3
  <2> QED
    BY <1>3, <1>4, <2>1, <2>2 DEF RunningOnce
<1>7. RunningOnce'
  <2>1. ASSUME NEW i \in DOMAIN running', NEW k \in DOMAIN running', running'[i] = running'[k]
        PROVE  i = k
    <3>1. i + 1 = k + 1 /\ i \in Int /\ k \in Int
      BY <1>4, <2>1 DEF RunningOnce
    <3> QED
      BY <3>1
  <2>2. ASSUME NEW i \in DOMAIN running' PROVE at'[running'[i]] # "none"
    BY <1>2, <1>4, <1>6 DEF RunningOnce
  <2> QED
    BY <2>1, <2>2 DEF RunningOnce
<1>8. ASSUME NEW o \in Sigs \ {sig}, NEW s \in Sigs \ {sig}, Inside(o, s)' PROVE Inside(o, s)
  <2>1. PICK i, k \in DOMAIN running' : i < k /\ running'[i] = o /\ running'[k] = s
    BY <1>8 DEF Inside
  <2>2. /\ i + 1 \in DOMAIN running /\ k + 1 \in DOMAIN running /\ i + 1 < k + 1
        /\ running[i + 1] = o /\ running[k + 1] = s
    BY <1>4, <2>1
  <2> QED
    BY <2>2 DEF Inside
<1>9. ASSUME NEW o \in Sigs \ {sig}, NEW s \in Sigs \ {sig}, Inside(o, s) PROVE Inside(o, s)'
  <2>1. PICK i, k \in DOMAIN running : i < k /\ running[i] = o /\ running[k] = s
    BY <1>9 DEF Inside
  <2>2. /\ i - 1 \in DOMAIN running' /\ k - 1 \in DOMAIN running'
        /\ running'[i - 1] = o /\ running'[k - 1] = s
    BY <1>3, <1>5, <2>1
  <2>3. i - 1 < k - 1
    BY <1>3, <2>1
  <2> QED
    BY <2>2, <2>3 DEF Inside
<1> QED
  BY <1>1, <1>2, <1>7, <1>8, <1>9

\* A handler goes on, elsewhere than in addJob.
LEMMA GoesInside ==
    ASSUME TInv, RunningOnce, NEW sig \in Sigs, NEW from, At(sig, from), from # "none",
           NEW place \in HandlerPlaces \ {"none"}, Goes(sig, place)
    PROVE  /\ RunningOnce' /\ at[sig] = from /\ at'[sig] = place
           /\ \A s \in Sigs \ {sig} : at'[s] = at[s]
           /\ \A o, s \in Sigs \ {sig} : Inside(o, s)' <=> Inside(o, s)
<1>1. /\ running' = running /\ at[sig] = from /\ at'[sig] = place
      /\ \A s \in Sigs \ {sig} : at'[s] = at[s]
  BY GoesOn
<1>2. running \in Seq(Sigs)
  BY DEF TInv, TypeOK
<1>3. \A i \in DOMAIN running : running[i] \in Sigs
  BY <1>2
<1>4. RunningOnce'
  BY <1>1, <1>3 DEF RunningOnce
<1> QED
  BY <1>1, <1>4 DEF Inside

\* So the numbers stay as they are.
LEMMA HandlerAside ==
    ASSUME TInv, NInv, NEW sig \in Sigs, ~Busy(sig), ~Busy(sig)', RunningOnce',
           \A s \in Sigs \ {sig} : at'[s] = at[s],
           \A o, s \in Sigs \ {sig} : Inside(o, s)' <=> Inside(o, s),
           UNCHANGED <<old, num, handled>>,
           main' # "unlink" \/ (main = "unlink" /\ removal' = removal)
    PROVE  NInv'
<1>1. \A s \in Sigs : Busy(s) \/ Busy(s)' => s # sig
  OBVIOUS
<1>2. \A s \in Sigs : Busy(s) \/ Busy(s)' => at'[s] = at[s]
  BY <1>1
<1>3. \A o, s \in Sigs : Busy(o) /\ Busy(s) => (Inside(o, s)' <=> Inside(o, s))
  BY <1>1
<1>4. UNCHANGED <<list, jobNum, old, num, crossed>>
  BY DEF handled
<1> QED
  BY <1>2, <1>3, <1>4, NumbersAside DEF NInv

LEMMA HandlerNumbers == TInv /\ NInv /\ Handlers => NInv'
<1> SUFFICES ASSUME TInv, NInv, Handlers
             PROVE  NInv'
  OBVIOUS
<1> USE DEF jobs, signals
<1>a. "INT" \in Sigs /\ "CHLD" \in Sigs /\ {"CHLD", "TSTP"} \subseteq Sigs /\ RunningOnce
  BY DEF Sigs, NInv
<1>b. \A s \in Sigs : at[s] \notin Added => ~Busy(s)
  BY DEF Busy, Counting, Added, Linking
<1>c. \A s \in Sigs : at'[s] \notin Added => ~Busy(s)'
  BY DEF Busy, Counting, Added, Linking
<1>d. ASSUME NEW sig \in Sigs, NEW from \in {"interrupt", "children", "reap", "tell"}, At(sig, from),
             Returns(sig) \/ \E place \in {"children", "reap", "add"} : Goes(sig, place),
             UNCHANGED <<old, num, handled, removal>>, main' \in {main, "crashed"}
      PROVE  NInv'
  <2>1. CASE Returns(sig)
    <3>1. /\ RunningOnce' /\ at[sig] = from /\ at'[sig] = "none"
          /\ \A s \in Sigs \ {sig} : at'[s] = at[s]
          /\ \A o, s \in Sigs \ {sig} : Inside(o, s)' <=> Inside(o, s)
      BY <1>a, <1>d, <2>1, ReturnInside
    <3>2. ~Busy(sig) /\ ~Busy(sig)'
      BY <3>1 DEF Busy, Counting, Linking
    <3> QED
      BY <1>d, <3>1, <3>2, HandlerAside
  <2>2. ASSUME NEW place \in {"children", "reap", "add"}, Goes(sig, place) PROVE NInv'
    <3>1. place \in HandlerPlaces \ {"none"} /\ from # "none"
      BY DEF HandlerPlaces
    <3>2. /\ RunningOnce' /\ at[sig] = from /\ at'[sig] = place
          /\ \A s \in Sigs \ {sig} : at'[s] = at[s]
          /\ \A o, s \in Sigs \ {sig} : Inside(o, s)' <=> Inside(o, s)
      BY <1>a, <1>d, <2>2, <3>1, GoesInside
    <3>3. (~Busy(sig)) /\ ~Busy(sig)'
      <4>1. from \notin Linking \cup {"count", "next"} /\ place \notin Linking \cup {"count", "next"}
        BY DEF Linking
      <4> QED
        BY <3>2, <4>1 DEF Busy, Counting, Linking
    <3> QED
      BY <1>d, <3>2, <3>3, HandlerAside
  <2> QED
    BY <1>d, <2>1, <2>2
<1>1. CASE Interrupt
  <2>1. At("INT", "interrupt") /\ Returns("INT") /\ UNCHANGED <<old, num, handled, removal>>
        /\ main' \in {main, "crashed"}
    BY <1>1 DEF Interrupt
  <2> QED
    BY <1>a, <1>d, <2>1
<1>2. CASE Children
  <2>1. /\ At("CHLD", "children") /\ UNCHANGED <<old, num, handled, removal, main>>
        /\ Returns("CHLD") \/ Goes("CHLD", "children") \/ Goes("CHLD", "reap")
    BY <1>2 DEF Children, NextChild
  <2> QED
    BY <1>a, <1>d, <2>1
<1>3. ASSUME NEW sig \in Sigs, StopReaps(sig) PROVE NInv'
  <2>1. At(sig, "reap") /\ Goes(sig, "add") /\ UNCHANGED <<old, num, handled, removal, main>>
    BY <1>3 DEF StopReaps
  <2> QED
    BY <1>d, <2>1
<1>4. ASSUME NEW sig \in Sigs, StopTells(sig) PROVE NInv'
  <2>1. /\ At(sig, "tell") /\ UNCHANGED <<old, num, handled, removal, main>>
        /\ Returns(sig) \/ Goes(sig, "children")
    BY <1>4 DEF StopTells, NextChild
  <2> QED
    BY <1>d, <2>1
<1>5. ASSUME NEW sig \in Sigs, StopCrashes(sig) PROVE NInv'
  <2>1. main' = "crashed" /\ UNCHANGED <<frames, handled>>
    BY <1>5 DEF StopCrashes
  <2>2. /\ RunningOnce' /\ UNCHANGED <<list, jobNum, old, num, crossed, at>>
        /\ \A o, s \in Sigs : Inside(o, s)' <=> Inside(o, s)
    BY <1>a, <2>1 DEF RunningOnce, Inside, frames, handled
  <2> QED
    BY <2>1, <2>2, NumbersAside DEF NInv
<1>6. ASSUME NEW sig \in Sigs, Deliver(sig) PROVE NInv'
  <2>1. /\ at[sig] = "none" /\ at' = [at EXCEPT ![sig] = Entry[sig]] /\ at \in [Sigs -> HandlerPlaces]
        /\ UNCHANGED <<old, num, handled, removal>> /\ main' \in {main, "woken"}
    BY <1>6 DEF Deliver, TInv, TypeOK
  <2>2. Entry[sig] \in {"interrupt", "reap", "children"}
    BY DEF Entry, Sigs
  <2>3. at'[sig] = Entry[sig] /\ \A s \in Sigs \ {sig} : at'[s] = at[s]
    BY <2>1
  <2>4. (~Busy(sig)) /\ ~Busy(sig)'
    BY <2>1, <2>2, <2>3 DEF Busy, Counting, Linking
  <2>5. /\ RunningOnce'
        /\ \A o, s \in Sigs \ {sig} : Inside(o, s)' <=> Inside(o, s)
    BY <1>a, <1>6, DeliverInside
  <2> QED
    BY <2>1, <2>3, <2>4, <2>5, HandlerAside
<1>7. ASSUME NEW sig \in Sigs, AddJob(sig) PROVE NInv'
  BY <1>7, AddJobNumbers
<1> QED
  BY <1>a, <1>1, <1>2, <1>3, <1>4, <1>5, <1>6, <1>7 DEF Handlers, Stop

LEMMA StepNumbers == TInv /\ NInv /\ [Next]_vars => NInv'
<1> SUFFICES ASSUME TInv, NInv, [Next]_vars
             PROVE  NInv'
  OBVIOUS
<1> USE DEF command, jobs, signals
<1>1. ASSUME UNCHANGED <<frames, handled>>, main' # "unlink" \/ (main = "unlink" /\ removal' = removal)
      PROVE  NInv'
  <2>1. /\ RunningOnce' /\ UNCHANGED <<list, jobNum, old, num, crossed, at>>
        /\ \A o, s \in Sigs : Inside(o, s)' <=> Inside(o, s)
    BY <1>1 DEF NInv, RunningOnce, Inside, frames, handled
  <2> QED
    BY <1>1, <2>1, NumbersAside DEF NInv
<1>2. CASE UNCHANGED vars
  BY <1>1, <1>2 DEF vars
<1>3. CASE Environment
  BY <1>1, <1>3 DEF Environment, Ends, Signaled, Key
<1>4. CASE RefuseProgram \/ InstallHandlers \/ Fork \/ SetJob \/ SetGroup \/ SetForeground
           \/ Resume \/ Leave \/ FgContinues \/ FgForeground
  BY <1>1, <1>4 DEF RefuseProgram, InstallHandlers, Fork, SetJob, SetGroup, SetForeground, Resume,
                    Leave, FgContinues, FgForeground
<1>5. CASE User
  BY <1>1, <1>5 DEF User, ReadLine, Fg, KillPid, KillJob, Kills, KillNothing
<1> QED
  BY <1>2, <1>3, <1>4, <1>5, HandlerNumbers, FindNumbers, UnlinkNumbers DEF Next, Loop

\* However jobs come and go, in whatever order handlers interrupt one another and
\* removeJob, no two have one number when the handlers are done, unless a handler
\* has listed a job while one that it interrupted had listed its own and not yet
\* counted it.
THEOREM NumbersStayDistinct == Spec => []JobNumbersDistinct
<1>1. Init => NInv
  <2> SUFFICES ASSUME Init
               PROVE  NInv
    OBVIOUS
  <2>1. TInv /\ \A s \in Sigs : at[s] = "none"
    BY InitTypes DEF Init
  <2>2. Distinct(list) /\ Below(list, jobNum) /\ RunningOnce /\ NumbersNoted
    BY DEF Init, Distinct, Below, RunningOnce, NumbersNoted
  <2> QED
    BY <2>1, <2>2, QuietNumbers DEF NInv, NumbersKept
<1>2. TInv /\ NInv => JobNumbersDistinct
  <2> SUFFICES ASSUME TInv, NInv, running = <<>>, ~crossed
               PROVE  Distinct(list) /\ Below(list, jobNum)
    BY DEF JobNumbersDistinct, Distinct, Below
  <2> QED
    BY NoFrames, QuietNumbers DEF NInv, NumbersKept
<1> QED
  BY <1>1, <1>2, InitTypes, StepTypes, StepNumbers, PTL DEF Spec

-----------------------------------------------------------------------------
(* Stopped jobs *)

\* fg and kill, from the moment they have decided to remove the current job.
Removing ==
    main = "front" \/ (main \in {"remove", "unlink"} /\ removal.pid = currentJob.pid)

\* The current job's process has stopped, and the handlers have listed it for that.
Adding == {"reap", "add"} \cup Linking
Settled ==
    /\ currentJob.pid \in Pids /\ proc[currentJob.pid] = "stopped"
    /\ currentJob.pid \notin unseen /\ \A s \in Sigs : at[s] \notin Adding

Listed == JobsOf(currentJob.pid) # {}
ListedTwice == \E i, k \in JobsOf(currentJob.pid) : i # k

\* What a handler is about to make the list has the current job behind its own.
HeldBehind(s) == at[s] \in Linking => \E i \in DOMAIN old[s] : old[s][i].pid = currentJob.pid

\* What fg continues, and what is removed while its process is alive, was in the
\* list before.
RemovedOnce ==
    main = "continue" \/ Removing =>
        ~Alive(currentJob.pid) \/ (Listed /\ \A s \in Sigs : HeldBehind(s))

\* A process that has stopped is in the list, and once more than that while
\* removeJob is to take it out once.
SettledListed == ~torn /\ Settled => IF Removing THEN ListedTwice ELSE Listed

\* A child that stops at once is still unseen when it becomes the current job.
ForkUnseen == main = "forked" /\ proc[newest] = "stopped" => newest \in unseen

\* What removeJob has noted is a job of the process it was asked for, as far from
\* the end as it was; at the head it is the head as long as no handler adds a job.
NodeIn(l) == l[Len(l) - Len(removal.rest)].pid = removal.pid
NotedIsOfPid ==
    main = "unlink" =>
        /\ NodeIn(list)
        /\ \A s \in Sigs : at[s] \in Linking => NodeIn(old[s])
        /\ removal.atHead /\ ~torn =>
              /\ Len(list) = Len(removal.rest) + 1
              /\ \A i \in DOMAIN removal.rest : removal.rest[i] = list[i + 1]

LInv == RemovedOnce /\ SettledListed /\ ForkUnseen /\ NotedIsOfPid

\* A job that is listed twice is listed.
LEMMA TwiceIsListed == ListedTwice => Listed
BY DEF ListedTwice, Listed

\* A step that leaves the list and the current job alone, begins no removal, lets
\* no handler begin to add, and brings no process to life or to a stop that the
\* handlers are done with.
LEMMA ListLeftAlone ==
    ASSUME LInv, UNCHANGED <<list, currentJob, torn, old>>,
           \A s \in Sigs : at'[s] \in Linking => at[s] \in Linking,
           Removing' => Removing,
           main' = "continue" => main = "continue",
           main' = "continue" \/ Removing' => (Alive(currentJob.pid)' => Alive(currentJob.pid)),
           Settled' => Settled
    PROVE  RemovedOnce' /\ SettledListed'
<1>1. JobsOf(currentJob.pid)' = JobsOf(currentJob.pid)
  BY DEF JobsOf
<1>2. (Listed' <=> Listed) /\ (ListedTwice' <=> ListedTwice)
  BY <1>1 DEF Listed, ListedTwice
<1>3. \A s \in Sigs : HeldBehind(s) => HeldBehind(s)'
  BY DEF HeldBehind
<1>4. RemovedOnce'
  BY <1>2, <1>3 DEF LInv, RemovedOnce
<1>5. SettledListed'
  BY <1>2, TwiceIsListed DEF LInv, SettledListed
<1> QED
  BY <1>4, <1>5

\* A step that is not one of removeJob, fg or kill leaves what was noted.
LEMMA NoteLeftAlone ==
    ASSUME LInv, UNCHANGED <<list, torn, old>>,
           \A s \in Sigs : at'[s] \in Linking => at[s] \in Linking,
           main' # "unlink" \/ (main = "unlink" /\ removal' = removal)
    PROVE  NotedIsOfPid'
BY DEF LInv, NotedIsOfPid, NodeIn

\* Whatever becomes of processes, one that had ended stays so, and one that
\* stops is unseen.
LEMMA BecomeSettles ==
    ASSUME TInv, NEW ps \in SUBSET Pids, NEW state \in States \ {"unborn"}, Become(ps, state),
           \A p \in ps : Alive(p), NEW q \in Pids
    PROVE  /\ proc'[q] \in {"running", "stopped"} => proc[q] \in {"running", "stopped"}
           /\ proc'[q] = "stopped" /\ q \notin unseen' => proc[q] = "stopped" /\ q \notin unseen
BY DEF Become, Alive, TInv, TypeOK

LEMMA EnvironmentListed == TInv /\ LInv /\ Environment => LInv'
<1> SUFFICES ASSUME TInv, LInv, Environment
             PROVE  LInv'
  OBVIOUS
<1>1. PICK ps \in SUBSET Pids, state \in States \ {"unborn"} :
          Become(ps, state) /\ \A p \in ps : Alive(p)
  <2>1. ASSUME NEW p \in Pids, Ends(p) \/ Signaled(p)
        PROVE  \E state \in States \ {"unborn"} : Become({p}, state) /\ Alive(p)
    BY <2>1 DEF Ends, Signaled, States, Alive
  <2>2. ASSUME NEW sig, Key(sig)
        PROVE  \E ps \in SUBSET Pids, state \in States \ {"unborn"} :
                  Become(ps, state) /\ \A p \in ps : Alive(p)
    BY <2>2 DEF Key, States, Foreground, Alive
  <2>3. CASE \E p \in Pids : Ends(p) \/ Signaled(p)
    <3>1. PICK p \in Pids : Ends(p) \/ Signaled(p)
      BY <2>3
    <3>2. PICK state \in States \ {"unborn"} : Become({p}, state) /\ Alive(p)
      BY <2>1, <3>1
    <3> QED
      BY <3>2
  <2> QED
    BY <2>2, <2>3 DEF Environment
<1>2. UNCHANGED <<main, at, old, newest, list, currentJob, removal, torn>>
  BY DEF Environment, Ends, Signaled, Key, command, jobs, frames, handled
<1>3. \A q \in Pids :
        /\ proc'[q] \in {"running", "stopped"} => proc[q] \in {"running", "stopped"}
        /\ proc'[q] = "stopped" /\ q \notin unseen' => proc[q] = "stopped" /\ q \notin unseen
  BY <1>1, BecomeSettles
<1>4. Alive(currentJob.pid)' => Alive(currentJob.pid)
  BY <1>2, <1>3 DEF Alive
<1>5. (Settled' => Settled) /\ (Removing' => Removing)
  BY <1>2, <1>3 DEF Settled, Removing
<1>6. ForkUnseen'
  <2>1. main = "forked" => newest \in Pids
    BY DEF TInv, ChildKnown, HasChild, Waiting
  <2> QED
    BY <1>2, <1>3, <2>1 DEF LInv, ForkUnseen
<1> QED
  BY <1>2, <1>4, <1>5, <1>6, ListLeftAlone, NoteLeftAlone DEF LInv

\* addJob lists the current job, and once more if it was in what was old.
LEMMA AddJobLists ==
    ASSUME TInv, NEW sig \in Sigs, AddLinks(sig), currentJob' = currentJob
    PROVE  /\ Listed' /\ (HeldBehind(sig) => ListedTwice')
           /\ currentJob.pid \in Pids
<1> DEFINE o == old[sig]
<1>1. /\ at[sig] = "link" /\ Len(o) \in Nat /\ DOMAIN o = 1..Len(o) /\ DOMAIN list' = 1..(Len(o) + 1)
      /\ list'[1].pid = currentJob.pid /\ \A i \in 1..Len(o) : list'[i + 1] = o[i]
      /\ currentJob.pid \in Pids
  BY LinkedList
<1>2. 1 \in JobsOf(currentJob.pid)'
  BY <1>1 DEF JobsOf
<1>3. ASSUME HeldBehind(sig)
      PROVE  \E k \in JobsOf(currentJob.pid)' : k # 1
  <2>1. PICK i \in DOMAIN o : o[i].pid = currentJob.pid
    BY <1>1, <1>3 DEF HeldBehind, Linking
  <2>2. i \in 1..Len(o) /\ i + 1 \in 1..(Len(o) + 1) /\ i + 1 # 1
    BY <1>1, <2>1
  <2> HIDE DEF o
  <2>3. i + 1 \in JobsOf(currentJob.pid)'
    BY <1>1, <2>1, <2>2 DEF JobsOf
  <2> QED
    BY <2>2, <2>3
<1> QED
  BY <1>1, <1>2, <1>3 DEF Listed, ListedTwice

LEMMA AddJobListed == ASSUME TInv, SInv, LInv, NEW sig \in Sigs, AddJob(sig) PROVE LInv'
<1> USE DEF command, pipes, children, signals
<1>1. /\ at[sig] \in {"add"} \cup Linking \cup {"count", "next"} /\ at'[sig] \in Added
      /\ \A s \in Sigs : s # sig => at'[s] = at[s]
      /\ UNCHANGED <<main, currentJob, removal, proc, unseen, newest>>
  BY AddJobAside
<1>2. (Removing' <=> Removing) /\ (Alive(currentJob.pid)' <=> Alive(currentJob.pid))
  BY <1>1 DEF Removing, Alive
<1>3. ForkUnseen'
  BY <1>1 DEF LInv, ForkUnseen
<1>4. CASE AddTests(sig)
  <2>1. /\ UNCHANGED <<list, torn>> /\ old'[sig] = list /\ \A s \in Sigs : s # sig => old'[s] = old[s]
        /\ at'[sig] \in Linking
    <3>1. at'[sig] = IF list = <<>> THEN "first" ELSE "number"
      BY <1>4 DEF AddTests, Goes, TInv, TypeOK
    <3> QED
      BY <1>4, <3>1 DEF AddTests, handled, Linking, TInv, TypeOK
  <2>2. (Listed' <=> Listed) /\ ~Settled'
    BY <1>1, <2>1 DEF Listed, JobsOf, Settled, Adding
  <2>3. ASSUME Listed, \A s \in Sigs : HeldBehind(s)
        PROVE  \A s \in Sigs : HeldBehind(s)'
    <3>1. \E i \in DOMAIN list : list[i].pid = currentJob.pid
      BY <2>3 DEF Listed, JobsOf
    <3> QED
      BY <1>1, <2>1, <2>3, <3>1 DEF HeldBehind
  <2>4. RemovedOnce'
    BY <1>1, <1>2, <2>2, <2>3 DEF LInv, RemovedOnce
  <2>5. SettledListed'
    BY <2>2 DEF SettledListed
  <2>6. NotedIsOfPid'
    BY <1>1, <2>1 DEF LInv, NotedIsOfPid, NodeIn
  <2> QED
    BY <1>3, <2>4, <2>5, <2>6 DEF LInv
<1>5. CASE AddLinks(sig)
  <2>1. Listed' /\ (HeldBehind(sig) => ListedTwice') /\ currentJob.pid \in Pids
    BY <1>1, <1>5, AddJobLists
  <2>2. /\ at[sig] = "link" /\ at'[sig] = "count" /\ Len(list') = Len(old[sig]) + 1
        /\ old[sig] \in Seq(ListedJob) /\ Len(old[sig]) \in Nat
        /\ \A i \in 1..Len(old[sig]) : list'[i + 1] = old[sig][i]
        /\ \A s \in Sigs : s # sig => old'[s] = old[s]
    BY <1>5, LinkedList
  <2>3. \A s \in Sigs : HeldBehind(s) => HeldBehind(s)'
    BY <1>1, <2>2 DEF HeldBehind, Linking
  <2>4. RemovedOnce'
    BY <1>1, <1>2, <2>1, <2>3 DEF LInv, RemovedOnce
  <2>5. SettledListed'
    <3>1. CASE Removing /\ Settled'
      <4>1. Alive(currentJob.pid)
        BY <1>2, <3>1 DEF Settled, Alive
      <4>2. HeldBehind(sig)
        BY <3>1, <4>1 DEF LInv, RemovedOnce
      <4> QED
        BY <2>1, <4>2, <1>2, <3>1 DEF SettledListed
    <3>2. CASE ~Removing \/ ~Settled'
      BY <2>1, <1>2, <3>2 DEF SettledListed
    <3> QED
      BY <3>1, <3>2
  <2>6. NotedIsOfPid'
    <3>1. SUFFICES ASSUME main = "unlink"
                   PROVE  NotedIsOfPid'
      BY <1>1 DEF NotedIsOfPid
    <3>2. torn' = (torn \/ removal.atHead)
      BY <1>5 DEF AddLinks
    <3>3. NodeIn(list)'
      <4> DEFINE n == Len(old[sig]) - Len(removal.rest)
      <4>1. /\ NodeIn(old[sig]) /\ Len(removal.rest) < Len(old[sig]) /\ Len(removal.rest) \in Nat
        BY <2>2, <3>1 DEF LInv, NotedIsOfPid, TInv, TypeOK, JobNoted, Linking
      <4>2. n \in 1..Len(old[sig]) /\ Len(list') - Len(removal.rest) = n + 1
        <5> DEFINE a == Len(old[sig])
                   b == Len(removal.rest)
        <5>1. a \in Nat /\ b \in Nat /\ b < a /\ Len(list') = a + 1
          BY <2>2, <4>1
        <5> HIDE DEF a, b
        <5>2. a - b \in 1..a /\ (a + 1) - b = (a - b) + 1
          BY ONLY <5>1
        <5> QED
          BY <5>1, <5>2 DEF a, b
      <4> HIDE DEF n
      <4>3. list'[Len(list') - Len(removal.rest)] = old[sig][n]
        BY <2>2, <4>2
      <4> QED
        BY <1>1, <4>1, <4>3 DEF NodeIn, n
    <3>4. \A s \in Sigs : at'[s] \in Linking => s # sig /\ at[s] \in Linking /\ old'[s] = old[s]
      BY <1>1, <2>2 DEF Linking
    <3>5. \A s \in Sigs : at'[s] \in Linking => NodeIn(old[s])'
      BY <1>1, <3>1, <3>4 DEF LInv, NotedIsOfPid, NodeIn
    <3> QED
      BY <1>1, <3>2, <3>3, <3>5 DEF NotedIsOfPid
  <2> QED
    BY <1>3, <2>4, <2>5, <2>6 DEF LInv
<1>6. CASE AddFirst(sig) \/ AddNumbers(sig) \/ AddCounts(sig) \/ AddNext(sig)
  <2>1. UNCHANGED <<list, torn, old>>
    BY <1>6 DEF AddFirst, AddNumbers, AddCounts, AddNext, handled
  <2>2. /\ at'[sig] \in Linking => at[sig] \in Linking
        /\ at[sig] \in Adding => at'[sig] \in Adding
    <3>1. \/ at[sig] = "first" /\ at'[sig] = "number"
          \/ at[sig] = "number" /\ at'[sig] = "link"
          \/ at[sig] = "count" /\ at'[sig] = "next"
          \/ at[sig] = "next" /\ at'[sig] = "tell"
      BY <1>6 DEF AddFirst, AddNumbers, AddCounts, AddNext, At, Goes, TInv, TypeOK
    <3> QED
      BY <3>1 DEF Linking, Adding
  <2>3. \A s \in Sigs : at'[s] \in Linking => at[s] \in Linking
    BY <1>1, <2>2
  <2>4. Settled' => Settled
    BY <1>1, <2>2 DEF Settled
  <2> QED
    BY <1>1, <1>2, <1>3, <2>1, <2>3, <2>4, ListLeftAlone, NoteLeftAlone DEF LInv
<1> QED
  BY <1>4, <1>5, <1>6 DEF AddJob

LEMMA HandlerListed == TInv /\ SInv /\ LInv /\ Handlers => LInv'
<1> SUFFICES ASSUME TInv, SInv, LInv, Handlers
             PROVE  LInv'
  OBVIOUS
<1> USE DEF command, pipes, handled, jobs, children, signals
<1>a. "INT" \in Sigs /\ "CHLD" \in Sigs /\ {"CHLD", "TSTP"} \subseteq Sigs
  BY DEF Sigs
<1>0. /\ UNCHANGED <<currentJob, removal>>
      /\ main' \in {main, "crashed"} \/ (main = "suspended" /\ main' = "woken")
  BY HandlersAside
<1>b. /\ Removing' => Removing
      /\ main' = "continue" => main = "continue"
      /\ main' # "unlink" \/ main = "unlink"
  BY <1>0 DEF Removing
<1>1. ForkUnseen'
  <2>1. CASE \E sig \in Sigs : Deliver(sig)
    BY <2>1 DEF Deliver, LInv, ForkUnseen
  <2>2. CASE running # <<>>
    BY <2>2, HandlersAside DEF SInv, ChildWatched, Waiting, ForkUnseen
  <2> QED
    BY <2>1, <2>2, HandlersAside
\* A step that adds nothing, and after which one handler is not about to.
<1>c. ASSUME NEW sig \in Sigs, at'[sig] \notin Linking, \A s \in Sigs : s # sig => at'[s] = at[s],
             UNCHANGED <<list, torn, old>>,
             Alive(currentJob.pid)' => Alive(currentJob.pid), Settled' => Settled
      PROVE  LInv'
  <2>1. \A s \in Sigs : at'[s] \in Linking => at[s] \in Linking
    BY <1>c
  <2> QED
    BY <1>0, <1>1, <1>b, <1>c, <2>1, ListLeftAlone, NoteLeftAlone DEF LInv
<1>2. ASSUME NEW sig \in Sigs, Deliver(sig) PROVE LInv'
  <2>1. /\ at' = [at EXCEPT ![sig] = Entry[sig]] /\ at \in [Sigs -> HandlerPlaces] /\ at[sig] = "none"
        /\ UNCHANGED <<proc, unseen, list, torn, old>>
    BY <1>2 DEF Deliver, TInv, TypeOK
  <2>2. at'[sig] = Entry[sig] /\ Entry[sig] \notin Linking /\ \A s \in Sigs : s # sig => at'[s] = at[s]
    BY <2>1 DEF Entry, Linking, Sigs
  <2>3. /\ Settled' => Settled
        /\ Alive(currentJob.pid)' => Alive(currentJob.pid)
    BY <1>0, <2>1, <2>2 DEF Settled, Alive, Adding, Linking
  <2> QED
    BY <1>c, <2>1, <2>2, <2>3
<1>3. CASE Interrupt
  <2>1. /\ At("INT", "interrupt") /\ Returns("INT") /\ SendToCurrent("signaled")
        /\ UNCHANGED <<list, torn, old>>
    BY <1>3 DEF Interrupt
  <2>2. /\ at["INT"] = "interrupt" /\ at'["INT"] = "none" /\ \A s \in Sigs : s # "INT" => at'[s] = at[s]
    BY <1>a, <2>1, ReturnsTo
  <2>3. CASE Become({currentJob.pid}, "signaled") /\ currentJob.pid \in Pids
    <3>1. ~Alive(currentJob.pid)' /\ ~Settled'
      BY <1>0, <2>3 DEF Become, Alive, Settled
    <3> QED
      BY <1>a, <1>c, <2>1, <2>2, <3>1 DEF Linking
  <2>4. CASE UNCHANGED <<proc, unseen>>
    <3>1. /\ Settled' => Settled
          /\ Alive(currentJob.pid)' => Alive(currentJob.pid)
      BY <1>0, <2>2, <2>4 DEF Settled, Alive, Adding, Linking
    <3> QED
      BY <1>a, <1>c, <2>1, <2>2, <3>1 DEF Linking
  <2> QED
    BY <2>1, <2>3, <2>4 DEF SendToCurrent, Alive
<1>4. CASE Children
  <2>1. At("CHLD", "children") /\ UNCHANGED <<list, torn, old>>
    BY <1>4 DEF Children
  <2>2. CASE Returns("CHLD") /\ UNCHANGED <<proc, unseen>>
    <3>1. /\ at["CHLD"] = "children" /\ at'["CHLD"] = "none"
          /\ \A s \in Sigs : s # "CHLD" => at'[s] = at[s]
      BY <1>a, <2>1, <2>2, ReturnsTo
    <3>2. (Settled' => Settled) /\ (Alive(currentJob.pid)' => Alive(currentJob.pid))
      BY <1>0, <2>2, <3>1 DEF Settled, Alive, Adding, Linking
    <3> QED
      BY <1>a, <1>c, <2>1, <3>1, <3>2 DEF Linking
  <2>3. ASSUME NEW p \in Reportable,
               IF proc[p] = "ended" THEN NextChild ELSE Goes("CHLD", "reap"),
               proc' = IF Zombie(p) THEN [proc EXCEPT ![p] = "reaped"] ELSE proc,
               unseen' = unseen \ {p}
        PROVE  LInv'
    <3>1. p \in Pids /\ proc \in [Pids -> States] /\ unseen \subseteq {q \in Pids : proc[q] = "stopped"}
      BY DEF Reportable, TInv, TypeOK, States
    <3>2. \A q \in Pids : proc'[q] = proc[q] \/ (q = p /\ proc'[q] = "reaped")
      BY <2>3, <3>1
    <3>3. Alive(currentJob.pid)' => Alive(currentJob.pid)
      BY <1>0, <3>2 DEF Alive
    <3>4. /\ at["CHLD"] = "children" /\ at'["CHLD"] = IF proc[p] = "ended" THEN "children" ELSE "reap"
          /\ \A s \in Sigs : s # "CHLD" => at'[s] = at[s]
      BY <1>a, <2>1, <2>3 DEF NextChild, At, Goes, TInv, TypeOK
    <3>5. Settled' => Settled
      <4>1. at'["CHLD"] \notin Adding => proc[p] = "ended" /\ p \notin unseen
        BY <3>1, <3>4 DEF Adding
      <4>2. at["CHLD"] \notin Adding
        BY <3>4 DEF Adding, Linking
      <4> QED
        BY <1>0, <1>a, <2>3, <3>2, <3>4, <4>1, <4>2 DEF Settled
    <3> QED
      BY <1>a, <1>c, <2>1, <3>3, <3>4, <3>5 DEF Linking
  <2> QED
    BY <1>4, <2>2, <2>3 DEF Children
<1>5. ASSUME NEW sig \in Sigs, StopReaps(sig) PROVE LInv'
  <2>1. /\ at'[sig] = "add" /\ \A s \in Sigs : s # sig => at'[s] = at[s]
        /\ UNCHANGED <<list, torn, old>>
    BY <1>5 DEF StopReaps, Goes, TInv, TypeOK
  <2>2. \A q \in Pids : proc'[q] = proc[q] \/ proc'[q] = "reaped"
    BY <1>5 DEF StopReaps, Reaps, TInv, TypeOK
  <2>3. Alive(currentJob.pid)' => Alive(currentJob.pid)
    BY <1>0, <2>2 DEF Alive
  <2>4. ~Settled'
    BY <2>1 DEF Settled, Adding
  <2> QED
    BY <1>c, <2>1, <2>3, <2>4 DEF Linking
<1>6. ASSUME NEW sig \in Sigs, StopCrashes(sig) PROVE LInv'
  <2>1. /\ UNCHANGED <<list, torn, old, at, proc, unseen>> /\ at[sig] = "add"
    BY <1>6 DEF StopCrashes, frames, At
  <2>2. (Settled' => Settled) /\ (Alive(currentJob.pid)' => Alive(currentJob.pid))
    BY <1>0, <2>1 DEF Settled, Alive
  <2> QED
    BY <1>c, <2>1, <2>2 DEF Linking
<1>7. ASSUME NEW sig \in Sigs, StopTells(sig) PROVE LInv'
  <2>1. /\ SendToCurrent("stopped") /\ UNCHANGED <<list, torn, old>>
        /\ At(sig, "tell") /\ (Returns(sig) \/ Goes(sig, "children"))
    BY <1>7 DEF StopTells, NextChild
  <2>2. /\ at[sig] = "tell" /\ at'[sig] \in {"none", "children"}
        /\ \A s \in Sigs : s # sig => at'[s] = at[s]
    <3>1. CASE Returns(sig)
      BY <2>1, <3>1, ReturnsTo
    <3>2. CASE Goes(sig, "children")
      BY <2>1, <3>2, GoesOn DEF HandlerPlaces
    <3> QED
      BY <2>1, <3>1, <3>2
  <2>3. Alive(currentJob.pid)' => Alive(currentJob.pid)
    BY <1>0, <2>1 DEF SendToCurrent, Become, Alive
  <2>4. Settled' => Settled
    <3>1. CASE Become({currentJob.pid}, "stopped")
      BY <1>0, <3>1 DEF Become, Settled
    <3>2. CASE UNCHANGED <<proc, unseen>>
      BY <1>0, <2>2, <3>2 DEF Settled, Adding, Linking
    <3> QED
      BY <2>1, <3>1, <3>2 DEF SendToCurrent
  <2> QED
    BY <1>c, <2>1, <2>2, <2>3, <2>4 DEF Linking
<1> QED
  BY <1>a, <1>2, <1>3, <1>4, <1>5, <1>6, <1>7, AddJobListed DEF Handlers, Stop

LEMMA LaunchListed ==
    TInv /\ LInv /\ (RefuseProgram \/ InstallHandlers \/ Fork \/ SetJob \/ SetGroup \/ SetForeground
                     \/ Resume \/ Leave) => LInv'
<1> SUFFICES ASSUME TInv, LInv, \/ RefuseProgram \/ InstallHandlers \/ Fork \/ SetJob \/ SetGroup
                                   \/ SetForeground \/ Resume \/ Leave
             PROVE  LInv'
  OBVIOUS
<1> USE DEF command, pipes, frames, handled, jobs, children, signals
<1>1. main' \notin {"continue", "front", "remove", "unlink"} /\ UNCHANGED <<list, torn, unseen, at, old>>
  BY DEF RefuseProgram, InstallHandlers, Fork, SetJob, SetGroup, SetForeground, Resume, Leave
<1>2. ~Removing' /\ NotedIsOfPid'
  BY <1>1 DEF Removing, NotedIsOfPid
<1>3. CASE RefuseProgram \/ InstallHandlers \/ SetGroup \/ SetForeground \/ Resume \/ Leave
  <2>1. main' # "forked" /\ UNCHANGED <<proc, currentJob>>
    BY <1>3 DEF RefuseProgram, InstallHandlers, SetGroup, SetForeground, Resume, Leave
  <2>2. Settled' => Settled
    BY <1>1, <2>1 DEF Settled
  <2>3. ForkUnseen'
    BY <2>1 DEF ForkUnseen
  <2> QED
    BY <1>1, <1>2, <2>1, <2>2, <2>3, ListLeftAlone DEF LInv
<1>4. CASE Fork
  <2>1. NextPid \in Pids
    BY <1>4, NextPidUnborn DEF Fork
  <2>2. newest' = NextPid /\ currentJob' = currentJob /\ proc' = [proc EXCEPT ![NextPid] = "running"]
    BY <1>4 DEF Fork
  <2>3. proc'[NextPid] = "running" /\ \A q \in Pids : q # NextPid => proc'[q] = proc[q]
    BY <2>1, <2>2 DEF TInv, TypeOK
  <2>4. Settled' => Settled
    BY <1>1, <2>2, <2>3 DEF Settled
  <2>5. ForkUnseen'
    BY <2>2, <2>3 DEF ForkUnseen
  <2> QED
    BY <1>1, <1>2, <2>2, <2>4, <2>5, ListLeftAlone DEF LInv
<1>5. CASE SetJob
  <2>1. main = "forked" /\ main' = "grouping" /\ proc' = proc /\ currentJob'.pid = newest
    BY <1>5 DEF SetJob, Steps, TInv, TypeOK, Job
  <2>2. ~Settled'
    BY <1>1, <2>1 DEF Settled, LInv, ForkUnseen
  <2> QED
    BY <1>1, <1>2, <2>1, <2>2 DEF LInv, RemovedOnce, SettledListed, ForkUnseen
<1> QED
  BY <1>3, <1>4, <1>5

\* What is left of the current job in the list when a job is unlinked.
LEMMA UnlinkLists ==
    ASSUME TInv, LInv, RemoveUnlink, ~torn,
           IF Removing THEN ListedTwice ELSE Listed
    PROVE  Listed'
<1>1. main = "unlink" /\ list' = Unlinked /\ currentJob' = currentJob
  BY DEF RemoveUnlink, Steps
<1>2. list \in Seq(ListedJob) /\ Len(list) \in Nat /\ DOMAIN list = 1..Len(list)
  BY DEF TInv, TypeOK
<1>3. PICK n \in DOMAIN list :
         /\ list[n].pid = removal.pid
         /\ \A i \in DOMAIN list : i # n => \E k \in DOMAIN list' : list'[k] = list[i]
  <2>1. CASE removal.atHead
    <3>1. Len(list) = Len(removal.rest) + 1 /\ list[1].pid = removal.pid /\ list' = removal.rest
      <4>1. /\ Len(list) = Len(removal.rest) + 1 /\ NodeIn(list) /\ list' = removal.rest
            /\ Len(removal.rest) \in Nat
        BY <1>1, <2>1 DEF LInv, NotedIsOfPid, Unlinked, TInv, TypeOK
      <4>2. Len(list) - Len(removal.rest) = 1
        BY <4>1
      <4> QED
        BY <4>1, <4>2 DEF NodeIn
    <3>2. list' \in Seq(ListedJob) /\ DOMAIN list' = 1..Len(list') /\ Len(list') \in Nat
      BY <3>1 DEF TInv, TypeOK
    <3>3. \A k \in DOMAIN list' : list'[k] = list[k + 1]
      BY <1>1, <2>1, <3>1 DEF LInv, NotedIsOfPid
    <3>4. Len(list) = Len(list') + 1
      BY <3>1
    <3>5. ASSUME NEW i \in DOMAIN list, i # 1 PROVE \E k \in DOMAIN list' : list'[k] = list[i]
      <4>1. i - 1 \in DOMAIN list' /\ (i - 1) + 1 = i
        BY <1>2, <3>2, <3>4, <3>5
      <4> QED
        BY <3>3, <4>1
    <3>6. 1 \in DOMAIN list
      BY <1>2, <3>2, <3>4
    <3> QED
      BY <3>1, <3>5, <3>6
  <2>2. CASE ~removal.atHead
    <3> DEFINE n == Found
               t == SubSeq(list, 1, n - 1) \o SubSeq(list, n + 1, Len(list))
    <3>1. n \in 1..Len(list) /\ list' = t
      BY <1>1, <1>2, <2>2, UnlinkedTypes
    <3>2. list[n].pid = removal.pid
      BY <1>1 DEF LInv, NotedIsOfPid, NodeIn, Found
    <3> HIDE DEF n
    <3>3. /\ DOMAIN t = 1..(Len(list) - 1)
          /\ \A i \in 1..(Len(list) - 1) : i < n => t[i] = list[i]
          /\ \A i \in 1..(Len(list) - 1) : ~(i < n) => t[i] = list[i + 1]
      BY ONLY <1>2, <3>1, WithoutSlot
    <3> HIDE DEF t
    <3>4. ASSUME NEW i \in DOMAIN list, i # n PROVE \E k \in DOMAIN list' : list'[k] = list[i]
      <4>1. CASE i < n
        <5>1. i \in 1..(Len(list) - 1)
          BY <1>2, <3>1, <4>1
        <5> QED
          BY <3>1, <3>3, <4>1, <5>1
      <4>2. CASE ~(i < n)
        <5>1. i - 1 \in 1..(Len(list) - 1) /\ ~(i - 1 < n) /\ (i - 1) + 1 = i
          BY <1>2, <3>1, <3>4, <4>2
        <5> QED
          BY <3>1, <3>3, <5>1
      <4> QED
        BY <4>1, <4>2
    <3> QED
      BY <1>2, <3>1, <3>2, <3>4
  <2> QED
    BY <2>1, <2>2
<1>4. PICK i \in JobsOf(currentJob.pid) : i # n
  <2>1. CASE Removing
    BY <2>1 DEF ListedTwice
  <2>2. CASE ~Removing
    <3>1. removal.pid # currentJob.pid
      BY <1>1, <2>2 DEF Removing
    <3> QED
      BY <1>3, <2>2, <3>1 DEF Listed, JobsOf
  <2> QED
    BY <2>1, <2>2
<1>5. i \in DOMAIN list /\ list[i].pid = currentJob.pid
  BY DEF JobsOf
<1>6. PICK k \in DOMAIN list' : list'[k] = list[i]
  BY <1>3, <1>4, <1>5
<1>7. k \in JobsOf(currentJob.pid)'
  BY <1>1, <1>5, <1>6 DEF JobsOf
<1> QED
  BY <1>7 DEF Listed

LEMMA RemovalListed ==
    TInv /\ LInv /\ (FgContinues \/ FgForeground \/ RemoveFind \/ RemoveUnlink) => LInv'
<1> SUFFICES ASSUME TInv, LInv, FgContinues \/ FgForeground \/ RemoveFind \/ RemoveUnlink
             PROVE  LInv'
  OBVIOUS
<1> USE DEF command, pipes, frames, handled, jobs, children, signals
<1>1. ForkUnseen'
  BY DEF FgContinues, FgForeground, RemoveFind, RemoveUnlink, ForkUnseen
<1>2. CASE FgContinues
  <2>1. /\ main = "continue" /\ main' = "front" /\ UNCHANGED <<list, currentJob, torn>>
        /\ currentJob.pid \in Pids
    BY <1>2 DEF FgContinues, Steps, TInv, CurrentKnown
  <2>2. proc'[currentJob.pid] # "stopped" /\ (Alive(currentJob.pid)' => Alive(currentJob.pid))
    BY <1>2, <2>1 DEF FgContinues, Become, Alive, TInv, TypeOK
  <2>3. Listed' <=> Listed
    BY <2>1 DEF Listed, JobsOf
  <2>4. \A s \in Sigs : at'[s] = "none"
    BY <1>2, NoFrames DEF FgContinues, Steps
  <2>5. \A s \in Sigs : HeldBehind(s)'
    BY <2>4 DEF HeldBehind, Linking
  <2>6. RemovedOnce'
    BY <2>1, <2>2, <2>3, <2>5 DEF LInv, RemovedOnce
  <2>7. SettledListed'
    BY <2>1, <2>2 DEF SettledListed, Settled
  <2> QED
    BY <1>1, <2>1, <2>6, <2>7 DEF LInv, NotedIsOfPid
<1>3. CASE FgForeground
  <2>1. /\ main = "front" /\ main' = "remove"
        /\ UNCHANGED <<list, currentJob, torn, proc, unseen, at, old>>
    BY <1>3 DEF FgForeground, Steps
  <2>2. /\ Removing /\ (Settled' => Settled)
        /\ Alive(currentJob.pid)' => Alive(currentJob.pid)
    BY <2>1 DEF Removing, Settled, Alive
  <2> QED
    BY <1>1, <2>1, <2>2, ListLeftAlone, NoteLeftAlone DEF LInv
<1>4. CASE RemoveFind
  <2>1. /\ main = "remove" /\ main' \in {"leave", "unlink"}
        /\ UNCHANGED <<list, currentJob, torn, proc, unseen, at, old>>
        /\ main' = "unlink" => removal'.pid = removal.pid
    <3>1. main = "remove" /\ UNCHANGED <<list, currentJob, torn, proc, unseen, at, old>>
      BY <1>4 DEF RemoveFind, Steps
    <3>2. CASE main' = "leave"
      BY <3>1, <3>2
    <3>3. ASSUME NEW n, main' = "unlink",
                 removal' = [removal EXCEPT !.atHead = (n = 1),
                                            !.rest = SubSeq(list, n + 1, Len(list))]
          PROVE  removal'.pid = removal.pid
      <4> DEFINE r == SubSeq(list, n + 1, Len(list))
      <4>1. removal' = [removal EXCEPT !.atHead = (n = 1), !.rest = r]
        BY <3>3
      <4> HIDE DEF r
      <4> QED
        BY <4>1 DEF TInv, TypeOK
    <3> QED
      BY <1>4, <3>1, <3>2, <3>3 DEF RemoveFind
  <2>2. /\ Removing' => Removing
        /\ Settled' => Settled
        /\ Alive(currentJob.pid)' => Alive(currentJob.pid)
    BY <2>1 DEF Removing, Settled, Alive
  <2>3. NotedIsOfPid'
    <3>1. ASSUME NEW n \in JobsOf(removal.pid),
                 removal' = [removal EXCEPT !.atHead = (n = 1),
                                            !.rest = SubSeq(list, n + 1, Len(list))]
          PROVE  NotedIsOfPid'
      <4> DEFINE r == SubSeq(list, n + 1, Len(list))
      <4>1. list \in Seq(ListedJob) /\ Len(list) \in Nat /\ n \in 1..Len(list)
            /\ list[n].pid = removal.pid
        BY DEF TInv, TypeOK, JobsOf
      <4>2. /\ removal'.atHead = (n = 1) /\ removal'.rest = r /\ removal'.pid = removal.pid
        BY <3>1 DEF TInv, TypeOK
      <4>3. /\ r \in Seq(ListedJob) /\ Len(r) = Len(list) - (n + 1) + 1
            /\ \A i \in 1..(Len(list) - (n + 1) + 1) : r[i] = list[(n + 1) + i - 1]
        <5>1. n + 1 \in Nat \ {0} /\ Len(list) <= Len(list) /\ n + 1 <= Len(list) + 1
          BY <4>1
        <5> QED
          BY <4>1, <5>1, PartOfList, Zenon
      <4> HIDE DEF r
      <4>4. /\ Len(list) - Len(r) = n /\ DOMAIN r = 1..(Len(list) - (n + 1) + 1)
            /\ n = 1 => Len(list) = Len(r) + 1
        BY <4>1, <4>3
      <4>5. n = 1 => \A i \in DOMAIN r : r[i] = list[i + 1]
        <5>1. \A i \in DOMAIN r : n = 1 => (n + 1) + i - 1 = i + 1
          BY <4>1, <4>4
        <5> QED
          BY <4>3, <4>4, <5>1
      <4>6. NodeIn(list)'
        BY <2>1, <4>1, <4>2, <4>4 DEF NodeIn
      <4>7. \A s \in Sigs : at'[s] \notin Linking
        BY <1>4, <2>1, NoFrames DEF RemoveFind, Steps, Linking
      <4> QED
        BY <2>1, <4>2, <4>4, <4>5, <4>6, <4>7 DEF NotedIsOfPid
    <3> QED
      BY <1>4, <3>1 DEF RemoveFind, NotedIsOfPid
  <2>4. RemovedOnce' /\ SettledListed'
    BY <2>1, <2>2, ListLeftAlone
  <2> QED
    BY <1>1, <2>3, <2>4 DEF LInv
<1>5. CASE RemoveUnlink
  <2>1. main' = "leave" /\ UNCHANGED <<currentJob, torn, proc, unseen, at, old>>
    BY <1>5 DEF RemoveUnlink
  <2>2. ~Removing' /\ (Settled' => Settled)
    BY <2>1 DEF Removing, Settled
  <2>3. SettledListed'
    <3>1. ASSUME ~torn, Settled PROVE Listed'
      BY <1>5, <3>1, UnlinkLists DEF LInv, SettledListed
    <3> QED
      BY <2>1, <2>2, <3>1 DEF SettledListed
  <2> QED
    BY <1>1, <2>1, <2>2, <2>3 DEF LInv, RemovedOnce, NotedIsOfPid
<1> QED
  BY <1>2, <1>3, <1>4, <1>5

LEMMA UserListed == TInv /\ LInv /\ User => LInv'
<1> SUFFICES ASSUME TInv, LInv, User
             PROVE  LInv'
  OBVIOUS
<1> USE DEF command, pipes, frames, handled, jobs, children, signals
<1>1. main' \notin {"forked", "unlink"} /\ main = "prompt"
      /\ UNCHANGED <<list, torn, at, old>>
  BY DEF User, ReadLine, Fg, KillPid, KillJob, KillNothing, Kills, Steps
<1>2. ForkUnseen' /\ NotedIsOfPid'
  BY <1>1 DEF ForkUnseen, NotedIsOfPid
<1>3. ASSUME NEW l \in Lines, ReadLine(l) PROVE LInv'
  <2>1. main' \in {"exited", "launch", "leave"} /\ UNCHANGED <<proc, unseen, currentJob>>
    BY <1>3 DEF ReadLine
  <2>2. ~Removing' /\ (Settled' => Settled)
    BY <1>1, <2>1 DEF Removing, Settled
  <2> QED
    BY <1>1, <1>2, <2>1, <2>2, ListLeftAlone DEF LInv
<1>4. ASSUME NEW j, Fg(j) PROVE LInv'
  <2>1. UNCHANGED <<proc, unseen>>
    BY <1>4 DEF Fg
  <2>2. CASE main' = "crashed" /\ UNCHANGED currentJob
    <3>1. ~Removing' /\ (Settled' => Settled)
      BY <1>1, <2>1, <2>2 DEF Removing, Settled
    <3> QED
      BY <1>1, <1>2, <2>2, <3>1, ListLeftAlone DEF LInv
  <2>3. ASSUME NEW i \in DOMAIN list, currentJob' = [list[i] EXCEPT !.num = 0], main' = "continue"
        PROVE  LInv'
    <3>1. list[i] \in ListedJob
      BY DEF TInv, TypeOK
    <3>2. currentJob'.pid = list[i].pid
      BY <2>3, <3>1 DEF ListedJob
    <3>3. i \in JobsOf(currentJob.pid)'
      BY <1>1, <3>2 DEF JobsOf
    <3>4. Listed' /\ ~Removing'
      BY <2>3, <3>3 DEF Listed, Removing
    <3>5. \A s \in Sigs : HeldBehind(s)'
      BY <1>1, <1>4, NoFrames DEF Fg, Steps, HeldBehind, Linking
    <3> QED
      BY <1>2, <3>4, <3>5 DEF LInv, RemovedOnce, SettledListed
  <2> QED
    BY <1>4, <2>2, <2>3 DEF Fg
<1>5. ASSUME NEW p, Kills(p), UNCHANGED currentJob PROVE LInv'
  <2>1. main' = "remove" /\ removal'.pid = p
    BY <1>5 DEF Kills, NoRemoval
  <2>2. CASE Removing'
    <3>1. p = currentJob.pid
      BY <1>5, <2>1, <2>2 DEF Removing
    <3>2. ~Alive(p)'
      BY <1>5 DEF Kills, Become, Alive
    <3>3. ~Alive(currentJob.pid)' /\ ~Settled'
      BY <1>5, <3>1, <3>2 DEF Alive, Settled
    <3> QED
      BY <1>2, <3>3 DEF LInv, RemovedOnce, SettledListed
  <2>3. CASE ~Removing'
    <3>1. p # currentJob.pid
      BY <1>5, <2>1, <2>3 DEF Removing
    <3>2. Settled' => Settled
      BY <1>1, <1>5, <3>1 DEF Kills, Become, Alive, Settled
    <3> QED
      BY <1>1, <1>2, <1>5, <2>1, <2>3, <3>2, ListLeftAlone DEF LInv
  <2> QED
    BY <2>2, <2>3
<1>6. ASSUME NEW p \in Pids, KillPid(p) PROVE LInv'
  BY <1>5, <1>6 DEF KillPid
<1>7. ASSUME NEW j, KillJob(j) PROVE LInv'
  <2>1. CASE main' = "stuck" /\ UNCHANGED <<proc, unseen>>
    <3>1. UNCHANGED currentJob
      BY <1>7 DEF KillJob
    <3>2. ~Removing' /\ (Settled' => Settled)
      BY <1>1, <2>1, <3>1 DEF Removing, Settled
    <3> QED
      BY <1>1, <1>2, <2>1, <3>1, <3>2, ListLeftAlone DEF LInv
  <2>2. CASE Kills(list[1].pid) \/ Kills(NoPid)
    BY <1>5, <1>7, <2>2 DEF KillJob
  <2> QED
    BY <1>7, <2>1, <2>2 DEF KillJob
<1>8. CASE KillNothing
  <2>1. main' = "crashed" /\ UNCHANGED <<proc, unseen, currentJob>>
    BY <1>8 DEF KillNothing
  <2>2. ~Removing' /\ (Settled' => Settled)
    BY <1>1, <2>1 DEF Removing, Settled
  <2> QED
    BY <1>1, <1>2, <2>1, <2>2, ListLeftAlone DEF LInv
<1> QED
  BY <1>3, <1>4, <1>6, <1>7, <1>8 DEF User

LEMMA StepListed == TInv /\ SInv /\ LInv /\ [Next]_vars => LInv'
<1> SUFFICES ASSUME TInv, SInv, LInv, [Next]_vars
             PROVE  LInv'
  OBVIOUS
<1>1. CASE UNCHANGED vars
  BY <1>1 DEF vars, command, pipes, frames, handled, jobs, children, signals, HeldBehind, NodeIn, LInv, RemovedOnce, SettledListed,
              ForkUnseen, NotedIsOfPid, Removing, Settled, Listed, ListedTwice, JobsOf, Alive
<1> QED
  BY <1>1, EnvironmentListed, HandlerListed, LaunchListed, RemovalListed, UserListed
  DEF Next, Loop

\* For any number of processes and jobs: a current job that is stopped when the
\* prompt comes back is in the job list, also when it stopped while fg or kill was
\* about to take it out, as long as no handler came between removeJob's finding
\* the head and its unlinking it.
THEOREM NoStoppedJobLost == Spec => []StoppedJobListed
<1>1. Init => LInv
  BY DEF Init, LInv, RemovedOnce, SettledListed, ForkUnseen,
         NotedIsOfPid, Removing, Settled, NoJob, Alive
<1>2. TInv /\ SInv /\ LInv => StoppedJobListed
  <2> SUFFICES ASSUME TInv, SInv, LInv, running = <<>>, pending = {}, main = "prompt", ~torn,
                      currentJob.pid \in Pids, proc[currentJob.pid] = "stopped"
               PROVE  JobsOf(currentJob.pid) # {}
    BY DEF StoppedJobListed
  <2>1. \A s \in Sigs : at[s] = "none"
    BY NoFrames
  <2>2. Reportable = {}
    BY <2>1 DEF SInv, NothingOverlooked, Sigs
  <2>3. Settled /\ ~Removing
    BY <2>1, <2>2 DEF Reportable, Settled, Adding, Linking, Removing
  <2> QED
    BY <2>3 DEF LInv, SettledListed, Listed
<1> QED
  BY <1>1, <1>2, InitTypes, StepTypes, StepListed, SignalsKept, PTL DEF Spec


-----------------------------------------------------------------------------
(* Lines: what the parser makes of a word and of a sign *)

Parser(type, name, arguments, infile, outfile, tok, hasRed) ==
    [program |-> [type |-> type, name |-> name, args |-> arguments, infile |-> infile,
                  outfile |-> outfile],
     tok |-> tok, hasRed |-> hasRed]

\* What a word makes of the parser: it is the program, one more argument, or a file.
LEMMA WordNames ==
    ASSUME NEW ty, NEW nm, NEW ar, NEW i, NEW o, NEW r, NEW w
    PROVE  Word(Parser(ty, nm, ar, i, o, "PROG", r), w)
             = Parser(TypeOf(w), w, <<w>>, i, o, "ARG", r)
<1> DEFINE p == Parser(ty, nm, ar, i, o, "PROG", r)
           t == TypeOf(w)
           l == <<w>>
           a == [p EXCEPT !.program.name = w]
           b == [a EXCEPT !.program.args = l]
           c == [b EXCEPT !.program.type = t]
           d == [c EXCEPT !.tok = "ARG"]
<1>t. p.tok = "PROG"
  BY SMTT(20) DEF Parser
<1>0. Word(p, w) = d
  <2> HIDE DEF p
  <2> QED
    BY <1>t, SMTT(20) DEF Word
<1> HIDE DEF t, l
<1>1. a = Parser(ty, w, ar, i, o, "PROG", r)
  BY SMTT(20) DEF Parser
<1> HIDE DEF a
<1>2. b = Parser(ty, w, l, i, o, "PROG", r)
  BY <1>1, SMTT(20) DEF Parser
<1> HIDE DEF b
<1>3. c = Parser(t, w, l, i, o, "PROG", r)
  BY <1>2, SMTT(20) DEF Parser
<1> HIDE DEF c
<1>4. d = Parser(t, w, l, i, o, "ARG", r)
  BY <1>3, SMTT(20) DEF Parser
<1> QED
  BY <1>0, <1>4, Zenon DEF t, l

LEMMA WordMakes ==
    ASSUME NEW ty, NEW nm, NEW ar, NEW i, NEW o, NEW r, NEW w
    PROVE  /\ Word(Parser(ty, nm, ar, i, o, "ARG", r), w)
                = Parser(ty, nm, Append(ar, w), i, o, "ARG", r)
           /\ Word(Parser(ty, nm, ar, i, o, "IN", r), w) = Parser(ty, nm, ar, w, o, "IN", r)
           /\ Word(Parser(ty, nm, ar, i, o, "OUT", r), w) = Parser(ty, nm, ar, i, w, "OUT", r)
<1>1. Word(Parser(ty, nm, ar, i, o, "ARG", r), w)
        = Parser(ty, nm, Append(ar, w), i, o, "ARG", r)
  <2> DEFINE p == Parser(ty, nm, ar, i, o, "ARG", r)
             l == Append(ar, w)
  <2>1. p.tok = "ARG" /\ p.program.args = ar
    BY SMTT(20) DEF Parser
  <2>2. Word(p, w) = [p EXCEPT !.program.args = Append(p.program.args, w)]
    <3> HIDE DEF p
    <3> QED
      BY <2>1, SMTT(20) DEF Word
  <2>3. Word(p, w) = [p EXCEPT !.program.args = l]
    BY <2>1, <2>2, Zenon
  <2> HIDE DEF l
  <2>4. [p EXCEPT !.program.args = l] = Parser(ty, nm, l, i, o, "ARG", r)
    BY SMTT(20) DEF Parser
  <2> QED
    BY <2>3, <2>4, Zenon DEF l
<1>2. Word(Parser(ty, nm, ar, i, o, "IN", r), w) = Parser(ty, nm, ar, w, o, "IN", r)
  BY SMTT(20) DEF Word, Parser
<1>3. Word(Parser(ty, nm, ar, i, o, "OUT", r), w) = Parser(ty, nm, ar, i, w, "OUT", r)
  BY SMTT(20) DEF Word, Parser
<1> QED
  BY <1>1, <1>2, <1>3, Zenon


\* What is typed: NULL is no text.
Text == STRING \ {NULL}
\* The provers do not know the strings of the code for members of STRING.
Strings == STRING \cup {"", "BAD", "PROGRAM", NULL}
ParserType ==
    [program : [type : Strings, name : Strings, args : Seq(Strings), infile : Strings,
                outfile : Strings],
     tok : {"PROG", "ARG", "IN", "OUT", "END"}, hasRed : BOOLEAN]

\* A word that is expected fills a place, and behind the name the type stays.
LEMMA WordKeeps ==
    ASSUME NEW p \in ParserType, p.tok # "END", NEW w \in Strings
    PROVE  /\ Word(p, w) \in ParserType /\ Word(p, w).hasRed = p.hasRed
           /\ p.tok = "PROG" => Word(p, w).tok = "ARG"
           /\ p.tok # "PROG" => Word(p, w).tok = p.tok
                                /\ Word(p, w).program.type = p.program.type
<1>1. ASSUME p.tok = "PROG"
      PROVE  Word(p, w) \in ParserType /\ Word(p, w).hasRed = p.hasRed /\ Word(p, w).tok = "ARG"
  <2> DEFINE t == TypeOf(w)
             l == <<w>>
             a == [p EXCEPT !.program.name = w]
             b == [a EXCEPT !.program.args = l]
             c == [b EXCEPT !.program.type = t]
             d == [c EXCEPT !.tok = "ARG"]
  <2>0. Word(p, w) = d
    BY <1>1, SMTT(20) DEF Word
  <2>t. t \in Strings
    <3>1. "PROGRAM" \in Strings
      BY Zenon DEF Strings
    <3> QED
      BY <3>1, Zenon DEF TypeOf
  <2>l. l \in Seq(Strings)
    BY SMTT(20)
  <2> HIDE DEF t, l
  <2>1. a \in ParserType /\ a.hasRed = p.hasRed
    BY SMTT(20) DEF ParserType
  <2> HIDE DEF a
  <2>2. b \in ParserType /\ b.hasRed = p.hasRed
    <3>1. b.hasRed = a.hasRed
      BY <2>1, SMTT(20) DEF ParserType
    <3>2. b.program \in [type : Strings, name : Strings, args : Seq(Strings),
                         infile : Strings, outfile : Strings]
      BY <2>1, <2>l, SMTT(20) DEF ParserType
    <3>3. b.tok \in {"PROG", "ARG", "IN", "OUT", "END"} /\ b.hasRed \in BOOLEAN
      BY <2>1, SMTT(20) DEF ParserType
    <3>4. b = [program |-> b.program, tok |-> b.tok, hasRed |-> b.hasRed]
      BY <2>1, SMTT(20) DEF ParserType
    <3>5. b \in ParserType
      BY <3>2, <3>3, <3>4, Zenon DEF ParserType
    <3> QED
      BY <2>1, <3>1, <3>5, Zenon
  <2> HIDE DEF b
  <2>3. c \in ParserType /\ c.hasRed = p.hasRed
    BY <2>2, <2>t, SMTT(20) DEF ParserType
  <2> HIDE DEF c
  <2>4. d \in ParserType /\ d.hasRed = p.hasRed /\ d.tok = "ARG"
    BY <2>3, SMTT(20) DEF ParserType
  <2> QED
    BY <2>0, <2>4, Zenon
<1>2. ASSUME p.tok = "ARG"
      PROVE  /\ Word(p, w) \in ParserType /\ Word(p, w).hasRed = p.hasRed
             /\ Word(p, w).tok = p.tok /\ Word(p, w).program.type = p.program.type
  <2> DEFINE l == Append(p.program.args, w)
             a == [p EXCEPT !.program.args = l]
  <2>0. Word(p, w) = a
    BY <1>2, SMTT(20) DEF Word
  <2>l. l \in Seq(Strings)
    <3>1. p.program.args \in Seq(Strings)
      BY SMTT(20) DEF ParserType
    <3> QED
      BY <3>1, AppendProperties, Zenon
  <2> HIDE DEF l
  <2>1. /\ a \in ParserType /\ a.hasRed = p.hasRed /\ a.tok = p.tok
        /\ a.program.type = p.program.type
    BY <2>l, SMTT(20) DEF ParserType
  <2> QED
    BY <2>0, <2>1, Zenon
<1>3. ASSUME p.tok = "IN"
      PROVE  /\ Word(p, w) \in ParserType /\ Word(p, w).hasRed = p.hasRed
             /\ Word(p, w).tok = p.tok /\ Word(p, w).program.type = p.program.type
  <2> DEFINE a == [p EXCEPT !.program.infile = w]
  <2>0. Word(p, w) = a
    BY <1>3, SMTT(20) DEF Word
  <2>1. /\ a \in ParserType /\ a.hasRed = p.hasRed /\ a.tok = p.tok
        /\ a.program.type = p.program.type
    BY SMTT(20) DEF ParserType
  <2> QED
    BY <2>0, <2>1, Zenon
<1>4. ASSUME p.tok = "OUT"
      PROVE  /\ Word(p, w) \in ParserType /\ Word(p, w).hasRed = p.hasRed
             /\ Word(p, w).tok = p.tok /\ Word(p, w).program.type = p.program.type
  <2> DEFINE a == [p EXCEPT !.program.outfile = w]
  <2>0. Word(p, w) = a
    BY <1>4, SMTT(20) DEF Word
  <2>1. /\ a \in ParserType /\ a.hasRed = p.hasRed /\ a.tok = p.tok
        /\ a.program.type = p.program.type
    BY SMTT(20) DEF ParserType
  <2> QED
    BY <2>0, <2>1, Zenon
<1>5. p.tok \in {"PROG", "ARG", "IN", "OUT"}
  BY SMTT(20) DEF ParserType
<1> QED
  BY <1>1, <1>2, <1>3, <1>4, <1>5, Zenon

\* A sign, whatever was read before it.
LEMMA RedirectKeeps ==
    ASSUME NEW p \in ParserType, p.tok # "END", NEW to \in {"IN", "OUT"}
    PROVE  /\ Redirect(p, to) \in ParserType
           /\ p.tok \in {"IN", "OUT"} => Redirect(p, to).hasRed
           /\ Redirect(p, to).tok = IF p.tok = to THEN "END" ELSE to
           /\ Refused(p, to) => Redirect(p, to).program.type = "BAD"
           /\ p.tok \in {"IN", "OUT"} /\ p.program.type = "BAD"
                 => Redirect(p, to).program.type = "BAD"
<1> DEFINE q == IF WordIsMissing(p) THEN Word(p, "") ELSE p
           type == IF Refused(p, to) THEN "BAD" ELSE q.program.type
           red == q.hasRed \/ p.tok \in {"IN", "OUT"}
           end == IF p.tok = to THEN "END" ELSE to
           a == [q EXCEPT !.program.type = type]
           b == [a EXCEPT !.hasRed = red]
           c == [b EXCEPT !.tok = end]
<1>0. Redirect(p, to) = c
  BY Zenon DEF Redirect
<1>1. /\ q \in ParserType /\ q.hasRed = p.hasRed
      /\ p.tok \in {"IN", "OUT"} => q.program.type = p.program.type
  <2>1. "" \in Strings
    BY Zenon DEF Strings
  <2>2. p.tok \in {"IN", "OUT"} => p.tok # "PROG"
    <3> HIDE DEF q
    <3> QED
      BY SMTT(20)
  <2> QED
    BY <2>1, <2>2, WordKeeps, Zenon
<1> HIDE DEF q
<1>2. /\ type \in Strings /\ red \in BOOLEAN /\ end \in {"IN", "OUT", "END"}
      /\ Refused(p, to) => type = "BAD"
      /\ p.tok \in {"IN", "OUT"} /\ p.program.type = "BAD" => type = "BAD"
      /\ red = (p.hasRed \/ p.tok \in {"IN", "OUT"})
  <2>1. q.program.type \in Strings /\ p.hasRed \in BOOLEAN
    BY <1>1, SMTT(20) DEF ParserType
  <2>b. "BAD" \in Strings
    BY Zenon DEF Strings
  <2>2. type \in Strings /\ (Refused(p, to) => type = "BAD")
    BY <2>1, <2>b, Zenon
  <2>3. p.tok \in {"IN", "OUT"} /\ p.program.type = "BAD" => type = "BAD"
    BY <1>1, Zenon
  <2>4. red \in BOOLEAN /\ red = (p.hasRed \/ p.tok \in {"IN", "OUT"})
    BY <2>1, <1>1, Zenon
  <2>5. end \in {"IN", "OUT", "END"}
    BY SMTT(20)
  <2> QED
    BY <2>2, <2>3, <2>4, <2>5, Zenon
<1>e. end = IF p.tok = to THEN "END" ELSE to
  OBVIOUS
<1> HIDE DEF type, red, end
<1>3. a \in ParserType /\ a.program.type = type
  BY <1>1, <1>2, SMTT(20) DEF ParserType
<1> HIDE DEF a
<1>4. b \in ParserType /\ b.program.type = type /\ b.hasRed = red
  <2>1. b.hasRed = red
    BY <1>3, <1>2, SMTT(20) DEF ParserType
  <2>2. b.program = a.program
    BY <1>3, <1>2, SMTT(20) DEF ParserType
  <2>4. b.program \in [type : Strings, name : Strings, args : Seq(Strings),
                       infile : Strings, outfile : Strings]
    BY <1>3, <2>2, SMTT(20) DEF ParserType
  <2>5. b.tok \in {"PROG", "ARG", "IN", "OUT", "END"} /\ b.hasRed \in BOOLEAN
    BY <1>3, <1>2, <2>1, SMTT(20) DEF ParserType
  <2>6. b = [program |-> b.program, tok |-> b.tok, hasRed |-> b.hasRed]
    BY <1>3, SMTT(20) DEF ParserType
  <2>3. b \in ParserType
    BY <2>4, <2>5, <2>6, Zenon DEF ParserType
  <2> QED
    BY <1>3, <2>1, <2>2, <2>3, Zenon
<1> HIDE DEF b
<1>5. c \in ParserType /\ c.program.type = type /\ c.hasRed = red /\ c.tok = end
  BY <1>4, <1>2, SMTT(20) DEF ParserType
<1> HIDE DEF c
<1> QED
  BY <1>0, <1>2, <1>5, <1>e, Zenon

\* One token.
LEMMA TokenKeeps ==
    ASSUME NEW p \in ParserType, NEW t \in Strings
    PROVE  Token(p, t) \in ParserType
<1>1. CASE p.tok = "END"
  BY <1>1, Zenon DEF Token
<1>2. CASE p.tok # "END"
  <2>1. "IN" \in {"IN", "OUT"} /\ "OUT" \in {"IN", "OUT"}
    OBVIOUS
  <2> QED
    BY <1>2, <2>1, WordKeeps, RedirectKeeps, Zenon DEF Token
<1> QED
  BY <1>1, <1>2, Zenon


-----------------------------------------------------------------------------
(* Lines: the parts of a line, their words, and the parser behind each word *)

LEMMA TextsAreStrings ==
    ASSUME NEW t \in Text
    PROVE  t \in Strings
BY Zenon DEF Text, Strings

LEMMA ParsersSteps ==
    ASSUME NEW words \in Seq(Text)
    PROVE  /\ Parsers(words) \in [0..Len(words) -> ParserType]
           /\ Parsers(words)[0] = NewParser
           /\ \A k \in 1..Len(words) : Parsers(words)[k] = Token(Parsers(words)[k - 1], words[k])
<1> DEFINE N == Len(words)
           S == ParserType
           go == [n \in 1..N |-> [x \in S |-> Token(x, words[n])]]
<1>1. N \in Nat /\ \A n \in 1..N : words[n] \in Text
  BY LenProperties, ElementOfSeq, Zenon
<1>c. NewParser \in S
  <2>1. NULL \in Strings /\ "PROGRAM" \in Strings
    BY Zenon DEF Strings
  <2> QED
    BY <2>1, SMTT(20) DEF NewParser, EmptyProgram, ParserType
<1> HIDE DEF N
<1>t. \A n \in 1..N : \A x \in S : Token(x, words[n]) \in S
  BY <1>1, TokenKeeps, TextsAreStrings, Zenon
<1>2. go \in [1..N -> [S -> S]]
  BY <1>t, Zenon
<1>3. \A n \in 1..N : \A x \in S : go[n][x] = Token(x, words[n])
  BY Zenon
<1> HIDE DEF go, S
<1>4. PICK f \in [0..N -> S] : f[0] = NewParser /\ \A n \in 1..N : f[n] = go[n][f[n - 1]]
  <2> DEFINE c == NewParser
  <2>1. c \in S /\ go \in [1..N -> [S -> S]]
    BY <1>c, <1>2, Zenon
  <2>3. N \in Nat
    BY <1>1, Zenon
  <2> HIDE DEF c
  <2>2. \E f \in [0..N -> S] : f[0] = c /\ \A n \in 1..N : f[n] = go[n][f[n - 1]]
    BY <2>1, <2>3, FunctionBySteps, SMTT(20)
  <2> QED
    BY <2>2, Zenon DEF c
<1> DEFINE F(g) == [k \in 0..N |-> IF k = 0 THEN NewParser ELSE Token(g[k - 1], words[k])]
<1>z. 0 \in 0..N /\ \A k \in 1..N : k \in 0..N /\ k # 0 /\ k - 1 \in 0..N
  BY <1>1, SMTT(20)
<1>n. \A k \in 0..N : k # 0 => k \in 1..N /\ k - 1 \in 0..N
  BY <1>1, SMTT(20)
<1>5. f = F(f)
  <2>1. \A k \in 0..N : f[k] = IF k = 0 THEN NewParser ELSE Token(f[k - 1], words[k])
    BY <1>3, <1>4, <1>n, Zenon
  <2>2. \A k \in 0..N : f[k] = IF k = 0 THEN NewParser ELSE Token(f[k - 1], words[k])
    BY <2>1, Zenon
  <2> QED
    BY <1>4, <2>2, Zenon
<1> DEFINE h == CHOOSE g : g = F(g)
<1>7. h = F(h)
  <2> HIDE DEF F
  <2> QED
    BY <1>5, Zenon
<1>6. Parsers(words) = h
  BY Zenon DEF Parsers, N
<1> HIDE DEF h
<1>8. /\ DOMAIN h = 0..N /\ h = [k \in 0..N |-> h[k]]
      /\ h[0] = NewParser
      /\ \A k \in 1..N : h[k] = Token(h[k - 1], words[k])
  <2>2. h = [k \in 0..N |-> IF k = 0 THEN NewParser ELSE Token(h[k - 1], words[k])]
    BY <1>7, Zenon
  <2>3. \A k \in 0..N : h[k] = IF k = 0 THEN NewParser ELSE Token(h[k - 1], words[k])
    BY <2>2, Zenon
  <2>4. DOMAIN h = 0..N /\ h = [k \in DOMAIN h |-> h[k]]
    BY <2>2, Zenon
  <2> QED
    BY <1>z, <2>3, <2>4, Zenon
<1>9. \A k \in 0..N : h[k] \in S
  <2> DEFINE U == {k \in 0..N : h[k] \in S}
  <2>1. 0 \in U
    BY <1>c, <1>z, <1>8, Zenon
  <2>2. ASSUME NEW k \in 0..(N - 1), k \in U PROVE k + 1 \in U
    <3>1. k + 1 \in 1..N /\ k + 1 \in 0..N /\ (k + 1) - 1 = k
      BY <1>1, SMTT(20)
    <3>2. h[k + 1] = Token(h[k], words[k + 1])
      BY <1>8, <3>1, Zenon
    <3>3. h[k] \in S
      BY <2>2, Zenon
    <3>4. h[k + 1] \in S
      BY <1>t, <3>1, <3>2, <3>3, Zenon
    <3> QED
      BY <3>1, <3>4, Zenon
  <2> HIDE DEF U
  <2>3. \A n \in 0..(N - 1) : n \in U => n + 1 \in U
    BY <2>2, Zenon
  <2>4. 0 \in Nat
    OBVIOUS
  <2>5. 0..N \subseteq U
    BY <1>1, <2>1, <2>3, <2>4, NatSetInduction, Zenon
  <2> QED
    BY <2>5, Zenon DEF U
<1> QED
  <2>1. h \in [0..N -> ParserType]
    BY <1>8, <1>9, Zenon DEF S
  <2> QED
    BY <1>6, <1>8, <2>1, Zenon DEF N

Spoken(words, t) == IF t = Blank THEN words ELSE Append(words, t)

LEMMA SpokenType ==
    ASSUME NEW words \in Seq(Text), NEW t \in Text
    PROVE  Spoken(words, t) \in Seq(Text)
BY AppendProperties, Zenon DEF Spoken

LEMMA WordsType ==
    ASSUME NEW part \in Seq(Text)
    PROVE  Words(part) \in Seq(Text)
<1> DEFINE N == Len(part)
           S == Seq(Text)
           go == [n \in 1..N |-> [x \in S |-> Spoken(x, part[n])]]
<1>1. N \in Nat /\ \A n \in 1..N : part[n] \in Text
  BY LenProperties, ElementOfSeq, Zenon
<1>c. <<>> \in S
  OBVIOUS
<1> HIDE DEF N
<1>t. \A n \in 1..N : \A x \in S : Spoken(x, part[n]) \in S
  BY <1>1, SpokenType, Zenon
<1>2. go \in [1..N -> [S -> S]]
  BY <1>t, Zenon
<1>3. \A n \in 1..N : \A x \in S : go[n][x] = Spoken(x, part[n])
  BY Zenon
<1> HIDE DEF go, S
<1>4. PICK f \in [0..N -> S] : f[0] = <<>> /\ \A n \in 1..N : f[n] = go[n][f[n - 1]]
  <2> DEFINE c == <<>>
  <2>1. c \in S /\ go \in [1..N -> [S -> S]]
    BY <1>c, <1>2, Zenon
  <2>3. N \in Nat
    BY <1>1, Zenon
  <2> HIDE DEF c
  <2>2. \E f \in [0..N -> S] : f[0] = c /\ \A n \in 1..N : f[n] = go[n][f[n - 1]]
    BY <2>1, <2>3, FunctionBySteps, SMTT(20)
  <2> QED
    BY <2>2, Zenon DEF c
<1> DEFINE F(g) == [k \in 0..N |-> IF k = 0 THEN <<>>
              ELSE IF part[k] = Blank THEN g[k - 1] ELSE Append(g[k - 1], part[k])]
<1>z. 0 \in 0..N /\ \A k \in 1..N : k \in 0..N /\ k # 0 /\ k - 1 \in 0..N
  BY <1>1, SMTT(20)
<1>n. \A k \in 0..N : k # 0 => k \in 1..N /\ k - 1 \in 0..N
  BY <1>1, SMTT(20)
<1>5. f = F(f)
  <2>1. \A k \in 0..N : f[k] = IF k = 0 THEN <<>> ELSE Spoken(f[k - 1], part[k])
    BY <1>3, <1>4, <1>n, Zenon
  <2>2. \A k \in 0..N : f[k] = IF k = 0 THEN <<>>
              ELSE IF part[k] = Blank THEN f[k - 1] ELSE Append(f[k - 1], part[k])
    BY <2>1, Zenon DEF Spoken
  <2> QED
    BY <1>4, <2>2, Zenon
<1> DEFINE h == CHOOSE g : g = F(g)
<1>7. h = F(h)
  <2> HIDE DEF F
  <2> QED
    BY <1>5, Zenon
<1>6. Words(part) = h[N]
  BY Zenon DEF Words, N
<1> HIDE DEF h
<1>8. /\ DOMAIN h = 0..N /\ h = [k \in 0..N |-> h[k]]
      /\ h[0] = <<>>
      /\ \A k \in 1..N : h[k] = Spoken(h[k - 1], part[k])
  <2>2. h = [k \in 0..N |-> IF k = 0 THEN <<>>
              ELSE IF part[k] = Blank THEN h[k - 1] ELSE Append(h[k - 1], part[k])]
    BY <1>7, Zenon
  <2>3. \A k \in 0..N : h[k] = IF k = 0 THEN <<>>
              ELSE IF part[k] = Blank THEN h[k - 1] ELSE Append(h[k - 1], part[k])
    BY <2>2, Zenon
  <2>4. DOMAIN h = 0..N /\ h = [k \in DOMAIN h |-> h[k]]
    BY <2>2, Zenon
  <2> QED
    BY <1>z, <2>3, <2>4, Zenon DEF Spoken
<1>9. \A k \in 0..N : h[k] \in S
  <2> DEFINE U == {k \in 0..N : h[k] \in S}
  <2>1. 0 \in U
    BY <1>c, <1>z, <1>8, Zenon
  <2>2. ASSUME NEW k \in 0..(N - 1), k \in U PROVE k + 1 \in U
    <3>1. k + 1 \in 1..N /\ k + 1 \in 0..N /\ (k + 1) - 1 = k
      BY <1>1, SMTT(20)
    <3>2. h[k + 1] = Spoken(h[k], part[k + 1])
      BY <1>8, <3>1, Zenon
    <3>3. h[k] \in S
      BY <2>2, Zenon
    <3>4. h[k + 1] \in S
      BY <1>t, <3>1, <3>2, <3>3, Zenon
    <3> QED
      BY <3>1, <3>4, Zenon
  <2> HIDE DEF U
  <2>3. \A n \in 0..(N - 1) : n \in U => n + 1 \in U
    BY <2>2, Zenon
  <2>4. 0 \in Nat
    OBVIOUS
  <2>5. 0..N \subseteq U
    BY <1>1, <2>1, <2>3, <2>4, NatSetInduction, Zenon
  <2> QED
    BY <2>5, Zenon DEF U
<1> QED
  <2>1. N \in 0..N
    BY <1>1, SMTT(20)
  <2> QED
    BY <1>6, <1>9, <2>1, Zenon DEF S

\* The pieces with a further t, which begins a piece or goes on with the last.
Cut(pieces, t, begins) ==
    IF t = "|" THEN pieces
    ELSE IF begins THEN Append(pieces, <<t>>)
    ELSE [pieces EXCEPT ![Len(pieces)] = Append(@, t)]

LEMMA CutType ==
    ASSUME NEW pieces \in Seq(Seq(Text)), NEW t \in Text, NEW begins \in BOOLEAN
    PROVE  Cut(pieces, t, begins) \in Seq(Seq(Text))
<1>1. Append(pieces, <<t>>) \in Seq(Seq(Text))
  <2>1. <<t>> \in Seq(Text)
    BY SMTT(20)
  <2> QED
    BY <2>1, AppendProperties, Zenon
<1> DEFINE n == Len(pieces)
           more == [pieces EXCEPT ![n] = Append(@, t)]
<1>2. more \in Seq(Seq(Text))
  <2>1. n \in Nat /\ DOMAIN pieces = 1..n /\ \A i \in 1..n : pieces[i] \in Seq(Text)
    BY LenProperties, ElementOfSeq, SMTT(20)
  <2>2. \A i \in 1..n : Append(pieces[i], t) \in Seq(Text)
    BY <2>1, AppendProperties, Zenon
  <2> HIDE DEF n
  <2>3. more = [i \in 1..n |-> IF i = n THEN Append(pieces[i], t) ELSE pieces[i]]
    BY <2>1, Zenon
  <2>4. \A i \in 1..n : (IF i = n THEN Append(pieces[i], t) ELSE pieces[i]) \in Seq(Text)
    BY <2>1, <2>2, Zenon
  <2>5. more \in [1..n -> Seq(Text)]
    BY <2>3, <2>4, Zenon
  <2> QED
    BY <2>1, <2>5, SMTT(20)
<1> QED
  BY <1>1, <1>2, Zenon DEF Cut

LEMMA PartsType ==
    ASSUME NEW l \in Seq(Text)
    PROVE  Parts(l) \in Seq(Seq(Text))
<1> DEFINE N == Len(l)
           S == Seq(Seq(Text))
           First(k) == k = 1 \/ l[k - 1] = "|"
           go == [n \in 1..N |-> [x \in S |-> Cut(x, l[n], First(n))]]
<1>1. N \in Nat /\ \A n \in 1..N : l[n] \in Text
  BY LenProperties, ElementOfSeq, Zenon
<1>c. <<>> \in S
  OBVIOUS
<1> HIDE DEF N
<1>b. \A n \in 1..N : First(n) \in BOOLEAN
  BY Zenon
<1> HIDE DEF First
<1>t. \A n \in 1..N : \A x \in S : Cut(x, l[n], First(n)) \in S
  BY <1>1, <1>b, CutType, Zenon
<1>2. go \in [1..N -> [S -> S]]
  BY <1>t, Zenon
<1>3. \A n \in 1..N : \A x \in S : go[n][x] = Cut(x, l[n], First(n))
  BY Zenon
<1> HIDE DEF go, S
<1>4. PICK f \in [0..N -> S] : f[0] = <<>> /\ \A n \in 1..N : f[n] = go[n][f[n - 1]]
  <2> DEFINE c == <<>>
  <2>1. c \in S /\ go \in [1..N -> [S -> S]]
    BY <1>c, <1>2, Zenon
  <2>3. N \in Nat
    BY <1>1, Zenon
  <2> HIDE DEF c
  <2>2. \E f \in [0..N -> S] : f[0] = c /\ \A n \in 1..N : f[n] = go[n][f[n - 1]]
    BY <2>1, <2>3, FunctionBySteps, SMTT(20)
  <2> QED
    BY <2>2, Zenon DEF c
<1> DEFINE F(g) == [k \in 0..N |-> IF k = 0 THEN <<>>
              ELSE IF l[k] = "|" THEN g[k - 1]
              ELSE IF k = 1 \/ l[k - 1] = "|" THEN Append(g[k - 1], <<l[k]>>)
              ELSE [g[k - 1] EXCEPT ![Len(g[k - 1])] = Append(@, l[k])]]
<1>z. 0 \in 0..N /\ \A k \in 1..N : k \in 0..N /\ k # 0 /\ k - 1 \in 0..N
  BY <1>1, SMTT(20)
<1>n. \A k \in 0..N : k # 0 => k \in 1..N /\ k - 1 \in 0..N
  BY <1>1, SMTT(20)
<1>5. f = F(f)
  <2>1. \A k \in 0..N : f[k] = IF k = 0 THEN <<>> ELSE Cut(f[k - 1], l[k], First(k))
    BY <1>3, <1>4, <1>n, Zenon
  <2>2. \A k \in 0..N : f[k] = IF k = 0 THEN <<>>
              ELSE IF l[k] = "|" THEN f[k - 1]
              ELSE IF k = 1 \/ l[k - 1] = "|" THEN Append(f[k - 1], <<l[k]>>)
              ELSE [f[k - 1] EXCEPT ![Len(f[k - 1])] = Append(@, l[k])]
    BY <2>1, Zenon DEF Cut, First
  <2> QED
    BY <1>4, <2>2, Zenon
<1> DEFINE h == CHOOSE g : g = F(g)
<1>7. h = F(h)
  <2> HIDE DEF F
  <2> QED
    BY <1>5, Zenon
<1>6. Parts(l) = h[N]
  BY Zenon DEF Parts, N
<1> HIDE DEF h
<1>8. /\ DOMAIN h = 0..N /\ h = [k \in 0..N |-> h[k]]
      /\ h[0] = <<>>
      /\ \A k \in 1..N : h[k] = Cut(h[k - 1], l[k], First(k))
  <2>2. h = [k \in 0..N |-> IF k = 0 THEN <<>>
              ELSE IF l[k] = "|" THEN h[k - 1]
              ELSE IF k = 1 \/ l[k - 1] = "|" THEN Append(h[k - 1], <<l[k]>>)
              ELSE [h[k - 1] EXCEPT ![Len(h[k - 1])] = Append(@, l[k])]]
    BY <1>7, Zenon
  <2>3. \A k \in 0..N : h[k] = IF k = 0 THEN <<>>
              ELSE IF l[k] = "|" THEN h[k - 1]
              ELSE IF k = 1 \/ l[k - 1] = "|" THEN Append(h[k - 1], <<l[k]>>)
              ELSE [h[k - 1] EXCEPT ![Len(h[k - 1])] = Append(@, l[k])]
    BY <2>2, Zenon
  <2>4. DOMAIN h = 0..N /\ h = [k \in DOMAIN h |-> h[k]]
    BY <2>2, Zenon
  <2> QED
    BY <1>z, <2>3, <2>4, Zenon DEF Cut, First
<1>9. \A k \in 0..N : h[k] \in S
  <2> DEFINE U == {k \in 0..N : h[k] \in S}
  <2>1. 0 \in U
    BY <1>c, <1>z, <1>8, Zenon
  <2>2. ASSUME NEW k \in 0..(N - 1), k \in U PROVE k + 1 \in U
    <3>1. k + 1 \in 1..N /\ k + 1 \in 0..N /\ (k + 1) - 1 = k
      BY <1>1, SMTT(20)
    <3>2. h[k + 1] = Cut(h[k], l[k + 1], First(k + 1))
      BY <1>8, <3>1, Zenon
    <3>3. h[k] \in S
      BY <2>2, Zenon
    <3>4. h[k + 1] \in S
      BY <1>t, <3>1, <3>2, <3>3, Zenon
    <3> QED
      BY <3>1, <3>4, Zenon
  <2> HIDE DEF U
  <2>3. \A n \in 0..(N - 1) : n \in U => n + 1 \in U
    BY <2>2, Zenon
  <2>4. 0 \in Nat
    OBVIOUS
  <2>5. 0..N \subseteq U
    BY <1>1, <2>1, <2>3, <2>4, NatSetInduction, Zenon
  <2> QED
    BY <2>5, Zenon DEF U
<1> QED
  <2>1. N \in 0..N
    BY <1>1, SMTT(20)
  <2> QED
    BY <1>6, <1>9, <2>1, Zenon DEF S


-----------------------------------------------------------------------------
(* Lines: more than two signs *)

Side(sign) == IF sign = "<" THEN "IN" ELSE "OUT"

LEMMA TokenIs ==
    ASSUME NEW p, p.tok # "END", NEW t
    PROVE  /\ ~Redirection(t) => Token(p, t) = Word(p, t)
           /\ Redirection(t) => Token(p, t) = Redirect(p, Side(t))
           /\ Side(t) \in {"IN", "OUT"}
<1>1. "<" # ">"
  OBVIOUS
<1> QED
  BY <1>1, Zenon DEF Token, Redirection, Side

\* What the parser knows behind one sign, two and three.
Behind(p, one, two, three) ==
    /\ two => one
    /\ one => p.tok \in {"IN", "OUT", "END"}
    /\ two => p.hasRed \/ p.tok = "END"
    /\ p.tok = "END" => p.program.type = "BAD"
    /\ three => two /\ p.program.type = "BAD"

LEMMA BehindWord ==
    ASSUME NEW p \in ParserType, NEW one \in BOOLEAN, NEW two \in BOOLEAN,
           NEW three \in BOOLEAN, Behind(p, one, two, three),
           NEW t \in Strings, ~Redirection(t)
    PROVE  Behind(Token(p, t), one, two, three)
<1>1. CASE p.tok = "END"
  BY <1>1, Zenon DEF Token
<1>2. CASE p.tok # "END"
  <2> DEFINE q == Word(p, t)
  <2>1. /\ q.hasRed = p.hasRed
        /\ p.tok = "PROG" => q.tok = "ARG"
        /\ p.tok # "PROG" => q.tok = p.tok /\ q.program.type = p.program.type
    BY <1>2, WordKeeps, Zenon
  <2>2. Token(p, t) = q
    BY <1>2, TokenIs, Zenon
  <2>3. one => p.tok # "PROG"
    BY SMTT(20) DEF Behind
  <2>4. q.tok # "END"
    <3>1. "ARG" # "END"
      OBVIOUS
    <3> QED
      BY <1>2, <2>1, <3>1, Zenon
  <2> HIDE DEF q
  <2>5. Behind(q, one, two, three)
    BY <1>2, <2>1, <2>3, <2>4, Zenon DEF Behind
  <2> QED
    BY <2>2, <2>5, Zenon
<1> QED
  BY <1>1, <1>2, Zenon

LEMMA BehindSign ==
    ASSUME NEW p \in ParserType, NEW one \in BOOLEAN, NEW two \in BOOLEAN,
           NEW three \in BOOLEAN, Behind(p, one, two, three),
           NEW t \in Strings, Redirection(t)
    PROVE  Behind(Token(p, t), TRUE, one, two)
<1>1. CASE p.tok = "END"
  <2>1. Token(p, t) = p
    BY <1>1, Zenon DEF Token
  <2>2. Behind(p, TRUE, one, two)
    BY <1>1, Zenon DEF Behind
  <2> QED
    BY <2>1, <2>2, Zenon
<1>2. CASE p.tok # "END"
  <2> DEFINE to == Side(t)
             q == Redirect(p, to)
  <2>1. to \in {"IN", "OUT"} /\ Token(p, t) = q
    BY <1>2, TokenIs, Zenon
  <2> HIDE DEF to
  <2>2. /\ p.tok \in {"IN", "OUT"} => q.hasRed
        /\ q.tok = IF p.tok = to THEN "END" ELSE to
        /\ Refused(p, to) => q.program.type = "BAD"
    <3>1. to \in {"IN", "OUT"} /\ p.tok # "END"
      BY <1>2, <2>1, Zenon
    <3>2. p.tok \in {"IN", "OUT"} => q.hasRed
      BY <3>1, RedirectKeeps, Zenon
    <3>3. q.tok = IF p.tok = to THEN "END" ELSE to
      BY <3>1, RedirectKeeps, Zenon
    <3>4. Refused(p, to) => q.program.type = "BAD"
      BY <3>1, RedirectKeeps, Zenon
    <3> QED
      BY <3>2, <3>3, <3>4, Zenon
  <2>3. q.tok \in {"IN", "OUT", "END"} /\ (q.tok = "END" => p.tok = to)
    BY <2>1, <2>2, SMTT(20)
  <2>4. one => p.tok \in {"IN", "OUT"}
    BY <1>2, SMTT(20) DEF Behind
  <2>5. one => q.hasRed
    BY <2>2, <2>4, Zenon
  <2>6. p.tok = to => q.program.type = "BAD"
    BY <2>2, Zenon DEF Refused
  <2>7. two => q.program.type = "BAD"
    BY <1>2, <2>2, <2>4, Zenon DEF Behind, Refused
  <2> HIDE DEF q
  <2>8. Behind(q, TRUE, one, two)
    BY <2>3, <2>5, <2>6, <2>7, Zenon DEF Behind
  <2> QED
    BY <2>1, <2>8, Zenon
<1> QED
  BY <1>1, <1>2, Zenon

\* A sign among the first k words, two of them, three of them.
OneSign(words, k) == \E i \in 1..k : Redirection(words[i])
TwoSigns(words, k) == \E i \in 1..k : Redirection(words[i]) /\ OneSign(words, i - 1)
ThreeSigns(words, k) == \E i \in 1..k : Redirection(words[i]) /\ TwoSigns(words, i - 1)

LEMMA SignsGrow ==
    ASSUME NEW words, NEW k \in Nat
    PROVE  /\ ~Redirection(words[k + 1]) =>
                 /\ OneSign(words, k + 1) = OneSign(words, k)
                 /\ TwoSigns(words, k + 1) = TwoSigns(words, k)
                 /\ ThreeSigns(words, k + 1) = ThreeSigns(words, k)
           /\ Redirection(words[k + 1]) =>
                 /\ OneSign(words, k + 1) = TRUE
                 /\ TwoSigns(words, k + 1) = (TwoSigns(words, k) \/ OneSign(words, k))
                 /\ ThreeSigns(words, k + 1) = (ThreeSigns(words, k) \/ TwoSigns(words, k))
<1>1. \A i : i \in 1..(k + 1) <=> i \in 1..k \/ i = k + 1
  BY SMTT(20)
<1>2. (k + 1) - 1 = k
  BY SMTT(20)
<1>3. OneSign(words, k + 1) <=> OneSign(words, k) \/ Redirection(words[k + 1])
  BY <1>1, Zenon DEF OneSign
<1>4. TwoSigns(words, k + 1) <=>
         TwoSigns(words, k) \/ (Redirection(words[k + 1]) /\ OneSign(words, k))
  BY <1>1, <1>2, Zenon DEF TwoSigns
<1>5. ThreeSigns(words, k + 1) <=>
         ThreeSigns(words, k) \/ (Redirection(words[k + 1]) /\ TwoSigns(words, k))
  BY <1>1, <1>2, Zenon DEF ThreeSigns
<1>6. /\ OneSign(words, k) \in BOOLEAN /\ OneSign(words, k + 1) \in BOOLEAN
      /\ TwoSigns(words, k) \in BOOLEAN /\ TwoSigns(words, k + 1) \in BOOLEAN
      /\ ThreeSigns(words, k) \in BOOLEAN /\ ThreeSigns(words, k + 1) \in BOOLEAN
  BY Zenon DEF OneSign, TwoSigns, ThreeSigns
<1> QED
  BY <1>3, <1>4, <1>5, <1>6, Zenon

LEMMA BehindAll ==
    ASSUME NEW words \in Seq(Text), NEW k \in 0..Len(words)
    PROVE  Behind(Parsers(words)[k], OneSign(words, k), TwoSigns(words, k),
                  ThreeSigns(words, k))
<1> DEFINE N == Len(words)
           P == Parsers(words)
           Holds(n) == Behind(P[n], OneSign(words, n), TwoSigns(words, n), ThreeSigns(words, n))
           U == {n \in 0..N : Holds(n)}
<1>1. N \in Nat /\ \A n \in 1..N : words[n] \in Strings
  BY LenProperties, ElementOfSeq, TextsAreStrings, Zenon
<1>2. /\ P \in [0..N -> ParserType] /\ P[0] = NewParser
      /\ \A n \in 1..N : P[n] = Token(P[n - 1], words[n])
  BY ParsersSteps, Zenon
<1> HIDE DEF P, N
<1>3. 0 \in U
  <2>1. \A i : i \notin 1..0
    BY SMTT(20)
  <2>2. ~OneSign(words, 0) /\ ~TwoSigns(words, 0) /\ ~ThreeSigns(words, 0)
    BY <2>1, Zenon DEF OneSign, TwoSigns, ThreeSigns
  <2>3. NewParser.tok # "END"
    BY SMTT(20) DEF NewParser
  <2>4. 0 \in 0..N
    BY <1>1, SMTT(20)
  <2> QED
    BY <1>2, <2>2, <2>3, <2>4, Zenon DEF Behind
<1>4. ASSUME NEW n \in 0..(N - 1), n \in U PROVE n + 1 \in U
  <2>1. n \in Nat /\ n \in 0..N /\ n + 1 \in 1..N /\ n + 1 \in 0..N /\ (n + 1) - 1 = n
    BY <1>1, SMTT(20)
  <2> DEFINE p == P[n]
             t == words[n + 1]
             one == OneSign(words, n)
             two == TwoSigns(words, n)
             three == ThreeSigns(words, n)
  <2>2. p \in ParserType /\ t \in Strings /\ P[n + 1] = Token(p, t)
    BY <1>1, <1>2, <2>1, Zenon
  <2>3. Behind(p, one, two, three)
    BY <1>4, Zenon
  <2>4. one \in BOOLEAN /\ two \in BOOLEAN /\ three \in BOOLEAN
    BY Zenon DEF OneSign, TwoSigns, ThreeSigns
  <2>5. /\ ~Redirection(t) => /\ OneSign(words, n + 1) = one
                             /\ TwoSigns(words, n + 1) = two
                             /\ ThreeSigns(words, n + 1) = three
        /\ Redirection(t) => /\ OneSign(words, n + 1) = TRUE
                            /\ TwoSigns(words, n + 1) = (two \/ one)
                            /\ ThreeSigns(words, n + 1) = (three \/ two)
    BY <2>1, SignsGrow, Zenon
  <2> HIDE DEF p, t, one, two, three
  <2>6. (two => one) /\ (three => two)
    BY <2>3, Zenon DEF Behind
  <2>7. (two \/ one) = one /\ (three \/ two) = two
    BY <2>4, <2>6, Zenon
  <2>8. CASE Redirection(t)
    <3>1. Behind(Token(p, t), TRUE, one, two)
      BY <2>2, <2>3, <2>4, <2>8, BehindSign, Zenon
    <3>2. /\ OneSign(words, n + 1) = TRUE /\ TwoSigns(words, n + 1) = one
          /\ ThreeSigns(words, n + 1) = two
      BY <2>5, <2>7, <2>8, Zenon
    <3>3. Holds(n + 1)
      BY <2>2, <3>1, <3>2, Zenon
    <3> QED
      BY <2>1, <3>3, Zenon
  <2>9. CASE ~Redirection(t)
    <3>1. Behind(Token(p, t), one, two, three)
      BY <2>2, <2>3, <2>4, <2>9, BehindWord, Zenon
    <3>3. Holds(n + 1)
      BY <2>2, <2>5, <2>9, <3>1, Zenon
    <3> QED
      BY <2>1, <3>3, Zenon
  <2> QED
    BY <2>8, <2>9, Zenon
<1> HIDE DEF U
<1>5. \A n \in 0..(N - 1) : n \in U => n + 1 \in U
  BY <1>4, Zenon
<1>6. 0 \in Nat
  OBVIOUS
<1>7. 0..N \subseteq U
  BY <1>1, <1>3, <1>5, <1>6, NatSetInduction, Zenon
<1>8. k \in U
  BY <1>7, Zenon DEF N
<1> QED
  BY <1>8, Zenon DEF U, P

\* A part with more than two signs is refused.
LEMMA TooManySigns ==
    ASSUME NEW words \in Seq(Text),
           Cardinality({i \in DOMAIN words : Redirection(words[i])}) > 2
    PROVE  Parsers(words)[Len(words)].program.type = "BAD"
<1> DEFINE signs == {i \in DOMAIN words : Redirection(words[i])}
           N == Len(words)
<1>1. N \in Nat /\ signs \subseteq 1..N /\ \A i \in signs : Redirection(words[i])
  BY LenProperties, Zenon
<1>s. Cardinality(signs) > 2
  OBVIOUS
<1> HIDE DEF N, signs
<1>n. ~(0 > 2) /\ ~(1 > 2) /\ ~(2 > 2) /\ 1 + 1 = 2
  BY SMTT(20)
<1>2. Cardinality({}) = 0
  BY FS_EmptySet, Zenon
<1>3. signs # {}
  BY <1>s, <1>n, <1>2, Zenon
<1>4. PICK a \in signs : TRUE
  BY <1>3, Zenon
<1>5. Cardinality({a}) = 1 /\ IsFiniteSet({a})
  BY FS_Singleton, Zenon
<1>6. signs # {a}
  BY <1>s, <1>n, <1>5, Zenon
<1>7. PICK b \in signs : b # a
  BY <1>4, <1>6, Zenon
<1>8. Cardinality({a} \cup {b}) = 2
  <2>1. Cardinality({a} \cup {b}) = Cardinality({a}) + 1
    <3>1. b \notin {a}
      BY <1>7, Zenon
    <3> QED
      BY <1>5, <3>1, FS_AddElement, Zenon
  <2> QED
    BY <1>5, <1>n, <2>1, Zenon
<1>9. signs # {a} \cup {b}
  BY <1>s, <1>n, <1>8, Zenon
<1>10. PICK c \in signs : c # a /\ c # b
  BY <1>4, <1>7, <1>9, Zenon
<1>11. ASSUME NEW i \in signs, NEW j \in signs, NEW k \in signs, i < j, j < k
       PROVE  ThreeSigns(words, N)
  <2>1. i \in 1..(j - 1) /\ j \in 1..(k - 1) /\ k \in 1..N
    BY <1>1, <1>11, SMTT(20)
  <2>2. OneSign(words, j - 1)
    BY <1>1, <2>1, Zenon DEF OneSign
  <2>3. TwoSigns(words, k - 1)
    BY <1>1, <2>1, <2>2, Zenon DEF TwoSigns
  <2> QED
    BY <1>1, <2>1, <2>3, Zenon DEF ThreeSigns
<1>12. a \in Nat /\ b \in Nat /\ c \in Nat
  BY <1>1, <1>4, <1>7, <1>10, SMTT(20)
<1>13. \/ (a < b /\ b < c) \/ (a < c /\ c < b) \/ (b < a /\ a < c)
       \/ (b < c /\ c < a) \/ (c < a /\ a < b) \/ (c < b /\ b < a)
  BY <1>7, <1>10, <1>12, SMTT(20)
<1>14. ThreeSigns(words, N)
  BY <1>4, <1>7, <1>10, <1>11, <1>13, Zenon
<1>15. N \in 0..Len(words)
  BY <1>1, SMTT(20) DEF N
<1>16. Behind(Parsers(words)[N], OneSign(words, N), TwoSigns(words, N), ThreeSigns(words, N))
  BY <1>15, BehindAll, Zenon
<1> QED
  BY <1>14, <1>16, Zenon DEF Behind, N


-----------------------------------------------------------------------------
(* Lines: a part that is as it should be *)

\* It begins with n words that are no signs.
WordsFirst(w, n) ==
    /\ n \in 1..Len(w) /\ \A i \in 1..n : ~Redirection(w[i])
    /\ n = Len(w) \/ Redirection(w[n + 1])

LEMMA FirstSign ==
    ASSUME NEW w \in Seq(Text), Regular(w)
    PROVE  \E n : WordsFirst(w, n)
<1> DEFINE N == Len(w)
           U == {n \in 1..N : n = N \/ Redirection(w[n + 1])}
<1>1. N \in Nat /\ DOMAIN w = 1..N
  BY LenProperties, Zenon
<1>2. w # <<>> /\ ~Redirection(w[1])
  BY Zenon DEF Regular
<1>3. N >= 1
  BY <1>2, EmptySeq, SMTT(20)
<1> HIDE DEF N
<1>4. N \in U /\ U \subseteq Nat
  BY <1>1, <1>3, SMTT(20)
<1>5. PICK n \in U : \A m \in U : n <= m
  BY <1>4, LeastNumber, Zenon
<1>6. n \in 1..N /\ (n = N \/ Redirection(w[n + 1]))
  BY <1>5, Zenon
<1>7. ASSUME NEW i \in 1..n, Redirection(w[i]) PROVE FALSE
  <2>1. i # 1
    BY <1>2, <1>7, Zenon
  <2>2. i - 1 \in 1..N /\ (i - 1) + 1 = i /\ ~(n <= i - 1)
    BY <1>1, <1>6, <2>1, SMTT(20)
  <2>3. i - 1 \in U
    BY <1>7, <2>2, Zenon
  <2> QED
    BY <1>5, <2>2, <2>3, Zenon
<1> QED
  BY <1>6, <1>7, Zenon DEF WordsFirst, N

LEMMA FirstSignUnique ==
    ASSUME NEW w \in Seq(Text), NEW n, WordsFirst(w, n)
    PROVE  SubSeq(w, 1, CHOOSE m \in DOMAIN w :
                    /\ \A i \in 1..m : ~Redirection(w[i])
                    /\ m = Len(w) \/ Redirection(w[m + 1])) = SubSeq(w, 1, n)
<1> DEFINE Fits(m) == /\ \A i \in 1..m : ~Redirection(w[i])
                      /\ m = Len(w) \/ Redirection(w[m + 1])
           N == Len(w)
<1>1. N \in Nat /\ DOMAIN w = 1..N
  BY LenProperties, Zenon
<1>2. n \in 1..N /\ Fits(n)
  BY Zenon DEF WordsFirst
<1> HIDE DEF N
<1>3. ASSUME NEW m \in 1..N, Fits(m) PROVE m = n
  <2>1. CASE m < n
    <3>1. m + 1 \in 1..n /\ m # N
      BY <1>1, <1>2, <2>1, SMTT(20)
    <3> QED
      BY <1>2, <1>3, <3>1, Zenon DEF N
  <2>2. CASE n < m
    <3>1. n + 1 \in 1..m /\ n # N
      BY <1>1, <1>2, <2>2, SMTT(20)
    <3> QED
      BY <1>2, <1>3, <3>1, Zenon DEF N
  <2>3. m < n \/ n < m \/ m = n
    BY <1>1, <1>2, SMTT(20)
  <2> QED
    BY <2>1, <2>2, <2>3, Zenon
<1>4. \E m \in DOMAIN w : Fits(m)
  BY <1>1, <1>2, Zenon
<1> DEFINE m0 == CHOOSE m \in DOMAIN w : Fits(m)
<1>5. m0 \in 1..N /\ Fits(m0)
  <2> HIDE DEF Fits
  <2> QED
    BY <1>1, <1>4, Zenon
<1>6. m0 = n
  <2> HIDE DEF m0, Fits
  <2> QED
    BY <1>3, <1>5, Zenon
<1> QED
  BY <1>6, Zenon

\* Behind them are no sign, one or two, each with a file.
LEMMA RegularForm ==
    ASSUME NEW w \in Seq(Text), Regular(w), NEW n, WordsFirst(w, n)
    PROVE  /\ n \in Nat /\ n >= 1 /\ n <= Len(w)
           /\ \A i \in 1..n : ~Redirection(w[i])
           /\ \/ Len(w) = n
              \/ /\ Len(w) = n + 2
                 /\ Redirection(w[n + 1]) /\ ~Redirection(w[n + 2])
              \/ /\ Len(w) = n + 4
                 /\ Redirection(w[n + 1]) /\ ~Redirection(w[n + 2])
                 /\ Redirection(w[n + 3]) /\ ~Redirection(w[n + 4])
                 /\ w[n + 1] # w[n + 3]
<1> DEFINE N == Len(w)
<1>1. N \in Nat /\ DOMAIN w = 1..N
  BY LenProperties, Zenon
<1>2. /\ n \in 1..N /\ \A i \in 1..n : ~Redirection(w[i])
      /\ n = N \/ Redirection(w[n + 1])
  BY Zenon DEF WordsFirst
<1>3. /\ \A i, j \in 1..N : w[i] = w[j] /\ Redirection(w[i]) => i = j
      /\ \A i \in 1..N : Redirection(w[i]) =>
            /\ i < N /\ ~Redirection(w[i + 1])
            /\ i + 2 <= N => Redirection(w[i + 2])
  BY <1>1, Zenon DEF Regular
<1> HIDE DEF N
<1>4. n \in Nat /\ n >= 1 /\ n <= N
  BY <1>1, <1>2, SMTT(20)
<1>5. CASE n = N
  BY <1>2, <1>4, <1>5, Zenon DEF N
<1>6. CASE n # N
  <2>1. n + 1 \in 1..N /\ Redirection(w[n + 1])
    BY <1>1, <1>2, <1>4, <1>6, SMTT(20)
  <2>2. n + 1 < N /\ ~Redirection(w[(n + 1) + 1])
        /\ ((n + 1) + 2 <= N => Redirection(w[(n + 1) + 2]))
    BY <1>3, <2>1, Zenon
  <2>3. (n + 1) + 1 = n + 2 /\ (n + 1) + 2 = n + 3 /\ (n + 3) + 1 = n + 4 /\ (n + 3) + 2 = n + 5
    BY <1>4, SMTT(20)
  <2>4. ~Redirection(w[n + 2]) /\ (n + 3 <= N => Redirection(w[n + 3]))
    BY <2>2, <2>3, Zenon
  <2>5. CASE N = n + 2
    BY <1>2, <1>4, <2>1, <2>4, <2>5, Zenon DEF N
  <2>6. CASE N # n + 2
    <3>1. n + 3 <= N /\ n + 3 \in 1..N /\ n + 1 # n + 3
      BY <1>1, <1>4, <2>2, <2>6, SMTT(20)
    <3>2. Redirection(w[n + 3])
      BY <2>4, <3>1, Zenon
    <3>3. n + 3 < N /\ ~Redirection(w[(n + 3) + 1])
          /\ ((n + 3) + 2 <= N => Redirection(w[(n + 3) + 2]))
      BY <1>3, <3>1, <3>2, Zenon
    <3>4. w[n + 1] # w[n + 3]
      BY <1>3, <2>1, <3>1, Zenon
    <3>5. ~Redirection(w[n + 4]) /\ (n + 5 <= N => Redirection(w[n + 5]))
      BY <2>3, <3>3, Zenon
    <3>6. N = n + 4
      <4> SUFFICES ASSUME N # n + 4 PROVE FALSE
        OBVIOUS
      <4>1. n + 5 <= N /\ n + 5 \in 1..N /\ n + 5 # n + 3 /\ n + 5 # n + 1
        BY <1>1, <1>4, <3>3, SMTT(20)
      <4>2. Redirection(w[n + 5])
        BY <3>5, <4>1, Zenon
      <4>3. w[n + 5] # w[n + 3] /\ w[n + 5] # w[n + 1]
        BY <1>3, <2>1, <3>1, <4>1, <4>2, Zenon
      <4> QED
        BY <2>1, <3>2, <3>4, <4>2, <4>3, Zenon DEF Redirection
    <3> QED
      BY <1>2, <1>4, <2>1, <2>4, <3>2, <3>4, <3>5, <3>6, Zenon DEF N
  <2> QED
    BY <2>5, <2>6, Zenon
<1> QED
  BY <1>5, <1>6, Zenon


LEMMA FileBehindSign ==
    ASSUME NEW w \in Seq(Text), NEW s
    PROVE  /\ \A i \in 1..Len(w) : w[i] = s /\ (\A j \in 1..Len(w) : w[j] = s => j = i)
                 => FileBehind(w, s) = w[1 + i]
           /\ (\A j \in 1..Len(w) : w[j] # s) => FileBehind(w, s) = NULL
<1>1. DOMAIN w = 1..Len(w)
  BY LenProperties, Zenon
<1>2. ASSUME NEW i \in 1..Len(w), w[i] = s, \A j \in 1..Len(w) : w[j] = s => j = i
      PROVE  FileBehind(w, s) = w[1 + i]
  <2> DEFINE c == CHOOSE k \in DOMAIN w : w[k] = s
  <2>1. c \in 1..Len(w) /\ w[c] = s
    BY <1>1, <1>2, Zenon
  <2>2. FileBehind(w, s) = w[1 + c]
    BY <1>2, Zenon DEF FileBehind, Contains
  <2> HIDE DEF c
  <2>3. c = i
    BY <1>2, <2>1, Zenon
  <2> QED
    BY <2>2, <2>3, Zenon
<1>3. ASSUME \A j \in 1..Len(w) : w[j] # s PROVE FileBehind(w, s) = NULL
  BY <1>3, Zenon DEF FileBehind, Contains
<1> QED
  BY <1>2, <1>3, Zenon

LEMMA SubSeqOne ==
    ASSUME NEW w \in Seq(Text), 1 \in 1..Len(w)
    PROVE  SubSeq(w, 1, 1) = <<w[1]>>
<1>1. 1 <= Len(w) + 1 /\ Len(w) \in Nat /\ 1 \in Nat
  BY SMTT(20)
<1> DEFINE s == SubSeq(w, 1, 1)
<1>2. s \in Seq(Text) /\ Len(s) = 1 /\ s[1] = w[1]
  BY <1>1, SMTT(20)
<1> HIDE DEF s
<1>3. s = <<w[1]>>
  BY <1>2, SMTT(20)
<1> QED
  BY <1>3, Zenon DEF s

\* The parser among the first words.
LEMMA ParsedFirst ==
    ASSUME NEW w \in Seq(Text), NEW n \in Nat, n >= 1, n <= Len(w),
           \A i \in 1..n : ~Redirection(w[i])
    PROVE  Parsers(w)[n] = Parser(TypeOf(w[1]), w[1], SubSeq(w, 1, n), NULL, NULL, "ARG", FALSE)
<1> DEFINE N == Len(w)
           P == Parsers(w)
           ty == TypeOf(w[1])
           no == FALSE
           Holds(k) == P[k] = Parser(ty, w[1], SubSeq(w, 1, k), NULL, NULL, "ARG", no)
           U == {k \in 1..n : Holds(k)}
<1>1. N \in Nat /\ 1 \in 1..n /\ 1 \in 1..N /\ 1 - 1 = 0 /\ n \in 1..n
  BY LenProperties, SMTT(20)
<1>2. P[0] = NewParser /\ \A k \in 1..N : P[k] = Token(P[k - 1], w[k])
  BY ParsersSteps, Zenon
<1>0. NewParser = Parser("PROGRAM", NULL, <<>>, NULL, NULL, "PROG", no)
  BY Zenon DEF NewParser, EmptyProgram, Parser
<1> HIDE DEF no
<1>3. 1 \in U
  <2>1. NewParser = Parser("PROGRAM", NULL, <<>>, NULL, NULL, "PROG", no)
    BY <1>0
  <2>2. NewParser.tok # "END"
    BY SMTT(20) DEF NewParser
  <2>3. P[1] = Token(NewParser, w[1])
    <3>1. P[1] = Token(P[1 - 1], w[1])
      BY <1>1, <1>2, Zenon
    <3> QED
      BY <1>1, <1>2, <3>1, Zenon
  <2>4. P[1] = Word(NewParser, w[1])
    BY <1>1, <2>2, <2>3, TokenIs, Zenon
  <2>5. P[1] = Parser(ty, w[1], <<w[1]>>, NULL, NULL, "ARG", no)
    <3>1. Word(Parser("PROGRAM", NULL, <<>>, NULL, NULL, "PROG", no), w[1])
            = Parser(TypeOf(w[1]), w[1], <<w[1]>>, NULL, NULL, "ARG", no)
      BY WordNames, SMTT(20)
    <3> QED
      BY <2>1, <2>4, <3>1
  <2>6. SubSeq(w, 1, 1) = <<w[1]>>
    BY <1>1, SubSeqOne, Zenon
  <2> QED
    BY <1>1, <2>5, <2>6, Zenon
<1>4. ASSUME NEW k \in 1..(n - 1), k \in U PROVE k + 1 \in U
  <2>1. k + 1 \in 1..n /\ k + 1 \in 1..N /\ (k + 1) - 1 = k /\ k \in Nat
    BY <1>1, SMTT(20)
  <2>2. P[k + 1] = Token(P[k], w[k + 1])
    BY <1>2, <2>1, Zenon
  <2>3. P[k] = Parser(ty, w[1], SubSeq(w, 1, k), NULL, NULL, "ARG", no)
    BY <1>4, Zenon
  <2>4. Parser(ty, w[1], SubSeq(w, 1, k), NULL, NULL, "ARG", no).tok # "END"
    BY SMTT(20) DEF Parser
  <2>5. P[k + 1] = Word(P[k], w[k + 1])
    BY <2>1, <2>2, <2>3, <2>4, TokenIs, Zenon
  <2>6. P[k + 1] = Parser(ty, w[1], Append(SubSeq(w, 1, k), w[k + 1]), NULL, NULL, "ARG", no)
    <3>1. Word(Parser(ty, w[1], SubSeq(w, 1, k), NULL, NULL, "ARG", no), w[k + 1])
            = Parser(ty, w[1], Append(SubSeq(w, 1, k), w[k + 1]), NULL, NULL, "ARG", no)
      BY WordMakes, SMTT(20)
    <3> QED
      BY <2>3, <2>5, <3>1
  <2>7. Append(SubSeq(w, 1, k), w[k + 1]) = SubSeq(w, 1, k + 1)
    BY <1>1, <2>1, SMTT(20)
  <2> QED
    BY <2>1, <2>6, <2>7, Zenon
<1> HIDE DEF U, N
<1>5. \A k \in 1..(n - 1) : k \in U => k + 1 \in U
  BY <1>4, Zenon
<1>6. 1 \in Nat
  OBVIOUS
<1>7. 1..n \subseteq U
  BY <1>3, <1>5, <1>6, NatSetInduction, Zenon
<1> QED
  BY <1>1, <1>7, Zenon DEF U, no

\* A sign and its file, behind the words and behind the other sign's file.
LEMMA ParsedFile ==
    ASSUME NEW w \in Seq(Text), NEW k \in Nat, k >= 1, k + 1 <= Len(w),
           Redirection(w[k]), ~Redirection(w[k + 1]),
           Parsers(w)[k - 1].tok \in {"ARG", "IN", "OUT"}, ~Parsers(w)[k - 1].hasRed,
           Parsers(w)[k - 1].tok # Side(w[k]),
           Parsers(w)[k - 1].tok = "IN" => Parsers(w)[k - 1].program.infile # NULL,
           Parsers(w)[k - 1].tok = "OUT" => Parsers(w)[k - 1].program.outfile # NULL
    PROVE  /\ Parsers(w)[k + 1].tok = Side(w[k])
           /\ Parsers(w)[k - 1].tok = "ARG" => ~Parsers(w)[k + 1].hasRed
           /\ Parsers(w)[k + 1].program.type = Parsers(w)[k - 1].program.type
           /\ Parsers(w)[k + 1].program.name = Parsers(w)[k - 1].program.name
           /\ Parsers(w)[k + 1].program.args = Parsers(w)[k - 1].program.args
           /\ Side(w[k]) = "IN" => /\ Parsers(w)[k + 1].program.infile = w[k + 1]
                                  /\ Parsers(w)[k + 1].program.outfile
                                        = Parsers(w)[k - 1].program.outfile
           /\ Side(w[k]) = "OUT" => /\ Parsers(w)[k + 1].program.outfile = w[k + 1]
                                   /\ Parsers(w)[k + 1].program.infile
                                         = Parsers(w)[k - 1].program.infile
<1> DEFINE P == Parsers(w)
           to == Side(w[k])
           before == P[k - 1]
           ty == before.program.type
           nm == before.program.name
           ar == before.program.args
           i == before.program.infile
           o == before.program.outfile
           tk == before.tok
           r == before.hasRed
           red == tk # "ARG"
<1>1. Len(w) \in Nat
  BY LenProperties, Zenon
<1>2. k \in 1..Len(w) /\ k + 1 \in 1..Len(w) /\ (k + 1) - 1 = k
  BY <1>1, SMTT(20)
<1>3. P[k] = Token(P[k - 1], w[k]) /\ P[k + 1] = Token(P[k], w[k + 1])
  <2>1. \A j \in 1..Len(w) : P[j] = Token(P[j - 1], w[j])
    BY ParsersSteps, Zenon
  <2> QED
    BY <1>2, <2>1, Zenon
<1>p. before \in ParserType
  <2>1. k - 1 \in 0..Len(w)
    BY <1>1, SMTT(20)
  <2>2. P \in [0..Len(w) -> ParserType]
    BY ParsersSteps, Zenon
  <2> QED
    BY <2>1, <2>2, Zenon
<1>r. r \in BOOLEAN /\ red \in BOOLEAN /\ ~r /\ (red <=> tk # "ARG")
  <2>1. r \in BOOLEAN
    <3> HIDE DEF before
    <3> QED
      BY <1>p, SMTT(20) DEF ParserType
  <2>2. red \in BOOLEAN /\ ~r /\ (red <=> tk # "ARG")
    BY Zenon
  <2> QED
    BY <2>1, <2>2, Zenon
<1>b. P[k - 1] = Parser(ty, nm, ar, i, o, tk, r)
  <2>1. before = Parser(ty, nm, ar, i, o, tk, r)
    <3> HIDE DEF before
    <3> QED
      BY <1>p, SMTT(20) DEF ParserType, Parser
  <2> QED
    BY <2>1, Zenon
<1>k. tk \in {"ARG", "IN", "OUT"} /\ (tk = "IN" => i # NULL) /\ (tk = "OUT" => o # NULL)
      /\ tk # to
  BY Zenon
<1>s. w[k + 1] \in Text
  BY <1>2, ElementOfSeq, Zenon
<1> HIDE DEF before, ty, nm, ar, i, o, tk, r, red
<1>4. Parser(ty, nm, ar, i, o, tk, r).tok # "END"
  BY <1>k, SMTT(20) DEF Parser
<1>5. P[k] = Redirect(Parser(ty, nm, ar, i, o, tk, r), to) /\ to \in {"IN", "OUT"}
  BY <1>b, <1>3, <1>4, TokenIs, Zenon
<1>6. tk # to
  BY <1>k
<1> HIDE DEF to, P
<1>7. P[k] = Parser(ty, nm, ar, i, o, to, red)
  <2> DEFINE p == Parser(ty, nm, ar, i, o, tk, r)
             is == p.hasRed \/ p.tok \in {"IN", "OUT"}
             bad == IF Refused(p, to) THEN "BAD" ELSE p.program.type
             end == IF p.tok = to THEN "END" ELSE to
  <2>f. /\ p.tok = tk /\ p.hasRed = r /\ p.program.type = ty
        /\ p.program.infile = i /\ p.program.outfile = o
    BY SMTT(20) DEF Parser
  <2> HIDE DEF p
  <2>1. ~WordIsMissing(p)
    <3>1. CASE tk = "ARG"
      BY <1>k, <3>1, <2>f, SMTT(20) DEF WordIsMissing
    <3>2. CASE tk = "IN"
      BY <1>k, <3>2, <2>f, SMTT(20) DEF WordIsMissing
    <3>3. CASE tk = "OUT"
      BY <1>k, <3>3, <2>f, SMTT(20) DEF WordIsMissing
    <3> QED
      BY <1>k, <3>1, <3>2, <3>3
  <2>2. ~Refused(p, to)
    BY <1>5, <1>6, <1>k, <1>r, <2>f, SMTT(20) DEF Refused
  <2>3. Redirect(p, to) = [p EXCEPT !.program.type = bad, !.hasRed = is, !.tok = end]
    BY <2>1, SMTT(20) DEF Redirect
  <2>4. bad = ty
    BY <2>2, <2>f, Zenon
  <2>5. is = red
    BY <1>k, <1>r, <2>f, SMTT(20)
  <2>6. end = to
    BY <1>6, <2>f, Zenon
  <2> HIDE DEF bad, is, end
  <2>7. Redirect(p, to) = [p EXCEPT !.program.type = ty, !.hasRed = red, !.tok = to]
    BY <2>3, <2>4, <2>5, <2>6, Zenon
  <2>8. [p EXCEPT !.program.type = ty, !.hasRed = red, !.tok = to]
          = Parser(ty, nm, ar, i, o, to, red)
    <3> DEFINE a == [p EXCEPT !.program.type = ty]
               b == [a EXCEPT !.hasRed = red]
    <3>1. a = Parser(ty, nm, ar, i, o, tk, r)
      BY SMTT(20) DEF p, Parser
    <3> HIDE DEF a
    <3>2. b = Parser(ty, nm, ar, i, o, tk, red)
      BY <3>1, SMTT(20) DEF Parser
    <3> HIDE DEF b
    <3>3. [b EXCEPT !.tok = to] = Parser(ty, nm, ar, i, o, to, red)
      BY <3>2, SMTT(20) DEF Parser
    <3> QED
      BY <3>3, Zenon DEF a, b
  <2> QED
    BY <1>5, <2>7, <2>8, Zenon DEF p
<1>8. P[k].tok # "END"
  BY <1>5, <1>7, SMTT(20) DEF Parser
<1>9. P[k + 1] = Word(P[k], w[k + 1])
  BY <1>3, <1>8, TokenIs, Zenon
<1>10. ASSUME to = "IN" PROVE P[k + 1] = Parser(ty, nm, ar, w[k + 1], o, "IN", red)
  <2>1. Word(Parser(ty, nm, ar, i, o, "IN", red), w[k + 1])
          = Parser(ty, nm, ar, w[k + 1], o, "IN", red)
    BY WordMakes, SMTT(20)
  <2> QED
    BY <1>7, <1>9, <1>10, <2>1
<1>11. ASSUME to = "OUT" PROVE P[k + 1] = Parser(ty, nm, ar, i, w[k + 1], "OUT", red)
  <2>1. Word(Parser(ty, nm, ar, i, o, "OUT", red), w[k + 1])
          = Parser(ty, nm, ar, i, w[k + 1], "OUT", red)
    BY WordMakes, SMTT(20)
  <2> QED
    BY <1>7, <1>9, <1>11, <2>1
<1>12. to = "IN" \/ to = "OUT"
  BY <1>5, Zenon
<1>13. /\ P[k + 1].tok = to /\ (tk = "ARG" => ~P[k + 1].hasRed)
       /\ P[k + 1].program.type = ty /\ P[k + 1].program.name = nm
       /\ P[k + 1].program.args = ar
       /\ to = "IN" => P[k + 1].program.infile = w[k + 1] /\ P[k + 1].program.outfile = o
       /\ to = "OUT" => P[k + 1].program.outfile = w[k + 1] /\ P[k + 1].program.infile = i
  <2>1. CASE to = "IN"
    BY <1>r, <1>10, <2>1, SMTT(20) DEF Parser
  <2>2. CASE to = "OUT"
    BY <1>r, <1>11, <2>2, SMTT(20) DEF Parser
  <2> QED
    BY <1>12, <2>1, <2>2, Zenon
<1> QED
  BY <1>13, Zenon DEF to, P, before, ty, nm, ar, i, o, tk


\* Such a part is parsed as it is meant.
LEMMA RegularIsMeant ==
    ASSUME NEW w \in Seq(Text), Regular(w)
    PROVE  Parsers(w)[Len(w)].program = Meant(w)
<1>1. PICK n : WordsFirst(w, n)
  BY FirstSign, Zenon
<1> DEFINE N == Len(w)
           P == Parsers(w)
           ty == TypeOf(w[1])
           nm == w[1]
           ar == SubSeq(w, 1, n)
           in == FileBehind(w, "<")
           out == FileBehind(w, ">")
           no == FALSE
<1>2. /\ n \in Nat /\ n >= 1 /\ n <= N
      /\ \A i \in 1..n : ~Redirection(w[i])
      /\ \/ N = n
         \/ N = n + 2 /\ Redirection(w[n + 1]) /\ ~Redirection(w[n + 2])
         \/ /\ N = n + 4
            /\ Redirection(w[n + 1]) /\ ~Redirection(w[n + 2])
            /\ Redirection(w[n + 3]) /\ ~Redirection(w[n + 4])
            /\ w[n + 1] # w[n + 3]
  BY <1>1, RegularForm, Zenon
<1>3. Meant(w) = [type |-> ty, name |-> nm, args |-> ar, infile |-> in, outfile |-> out]
  BY <1>1, FirstSignUnique, Zenon DEF Meant
<1>4. /\ \A i \in 1..N : w[i] = "<" /\ (\A j \in 1..N : w[j] = "<" => j = i) => in = w[1 + i]
      /\ \A i \in 1..N : w[i] = ">" /\ (\A j \in 1..N : w[j] = ">" => j = i) => out = w[1 + i]
      /\ (\A j \in 1..N : w[j] # "<") => in = NULL
      /\ (\A j \in 1..N : w[j] # ">") => out = NULL
  BY FileBehindSign, Zenon
<1>5. N \in Nat /\ \A i \in 1..N : w[i] \in Text
  BY LenProperties, ElementOfSeq, Zenon
<1>6. P[n] = Parser(ty, nm, ar, NULL, NULL, "ARG", no)
  BY <1>2, ParsedFirst, Zenon
<1>7. no \in BOOLEAN /\ ~no
  BY Zenon
<1>8. \A t : Redirection(t) <=> t = "<" \/ t = ">"
  BY Zenon DEF Redirection
<1>9. "<" # ">"
  OBVIOUS
<1> HIDE DEF N, P, ty, nm, ar, in, out, no
<1>p. /\ P[n].tok = "ARG" /\ ~P[n].hasRed /\ P[n].program.type = ty
      /\ P[n].program.name = nm /\ P[n].program.args = ar
      /\ P[n].program.infile = NULL /\ P[n].program.outfile = NULL
  BY <1>6, <1>7, SMTT(20) DEF Parser
<1>q. P \in [0..N -> ParserType] /\ N \in 0..N
  <2>1. P \in [0..N -> ParserType]
    BY ParsersSteps, Zenon DEF P, N
  <2> QED
    BY <1>5, <2>1, SMTT(20)
<1>10. ASSUME P[N].program.type = ty, P[N].program.name = nm, P[N].program.args = ar,
              P[N].program.infile = in, P[N].program.outfile = out
       PROVE  P[N].program = Meant(w)
  <2>1. P[N] \in ParserType
    BY <1>q, Zenon
  <2> DEFINE p == P[N]
  <2> HIDE DEF p
  <2>2. p \in ParserType
    BY <2>1 DEF p
  <2>3. p.program = [type |-> p.program.type, name |-> p.program.name,
                     args |-> p.program.args, infile |-> p.program.infile,
                     outfile |-> p.program.outfile]
    BY <2>2, SMTT(20) DEF ParserType
  <2> QED
    BY <1>3, <1>10, <2>3, Zenon DEF p
<1>11. CASE N = n
  <2>1. \A j \in 1..N : w[j] # "<" /\ w[j] # ">"
    BY <1>2, <1>8, <1>11, Zenon
  <2>2. in = NULL /\ out = NULL
    BY <1>4, <2>1, Zenon
  <2> QED
    BY <1>p, <1>10, <1>11, <2>2, Zenon DEF P, N
<1>12. (n + 1) + 1 = n + 2 /\ (n + 1) - 1 = n /\ (n + 3) + 1 = n + 4 /\ (n + 3) - 1 = n + 2
       /\ 1 + (n + 1) = n + 2 /\ 1 + (n + 3) = n + 4
  BY <1>2, SMTT(20)
<1>g. /\ \A t : t = "<" => Side(t) = "IN"
      /\ \A t : t = ">" => Side(t) = "OUT"
  BY <1>9, Zenon DEF Side
<1>13. ASSUME N # n
       PROVE  /\ Redirection(w[n + 1]) /\ n + 1 \in 1..N /\ n + 2 \in 1..N
              /\ w[n + 2] \in Text /\ ~Redirection(w[n + 2])
              /\ P[n + 2].tok = Side(w[n + 1]) /\ ~P[n + 2].hasRed
              /\ P[n + 2].program.type = ty /\ P[n + 2].program.name = nm
              /\ P[n + 2].program.args = ar
              /\ w[n + 1] = "<" => /\ P[n + 2].program.infile = w[n + 2]
                                  /\ P[n + 2].program.outfile = NULL
              /\ w[n + 1] = ">" => /\ P[n + 2].program.outfile = w[n + 2]
                                  /\ P[n + 2].program.infile = NULL
  <2>1. Redirection(w[n + 1]) /\ ~Redirection(w[n + 2]) /\ n + 1 \in 1..N /\ n + 2 \in 1..N
    BY <1>2, <1>5, <1>13, SMTT(20)
  <2>2. n + 1 \in Nat /\ n + 1 >= 1 /\ n + 2 <= N
    BY <1>2, <2>1, SMTT(20)
  <2>4. "ARG" # Side(w[n + 1]) /\ "ARG" # "IN" /\ "ARG" # "OUT"
    BY SMTT(20) DEF Side
  <2> DEFINE k == n + 1
  <2>5. /\ k \in Nat /\ k >= 1 /\ k + 1 <= N /\ Redirection(w[k]) /\ ~Redirection(w[k + 1])
        /\ P[k - 1].tok \in {"ARG", "IN", "OUT"} /\ ~P[k - 1].hasRed
        /\ P[k - 1].tok # Side(w[k])
        /\ P[k - 1].tok # "IN" /\ P[k - 1].tok # "OUT"
    BY <1>p, <1>12, <2>1, <2>2, <2>4, Zenon
  <2> HIDE DEF k
  <2>6. /\ P[k + 1].tok = Side(w[k]) /\ (P[k - 1].tok = "ARG" => ~P[k + 1].hasRed)
        /\ P[k + 1].program.type = P[k - 1].program.type
        /\ P[k + 1].program.name = P[k - 1].program.name
        /\ P[k + 1].program.args = P[k - 1].program.args
        /\ Side(w[k]) = "IN" => /\ P[k + 1].program.infile = w[k + 1]
                               /\ P[k + 1].program.outfile = P[k - 1].program.outfile
        /\ Side(w[k]) = "OUT" => /\ P[k + 1].program.outfile = w[k + 1]
                                /\ P[k + 1].program.infile = P[k - 1].program.infile
    BY <2>5, ParsedFile, Zenon DEF P, N
  <2>7. k + 1 = n + 2 /\ k - 1 = n
    BY <1>12 DEF k
  <2>8. w[n + 2] \in Text
    BY <1>5, <2>1, Zenon
  <2> QED
    BY <1>p, <1>g, <2>1, <2>6, <2>7, <2>8, Zenon DEF k
<1>14. CASE N = n + 2
  <2>1. N # n
    BY <1>2, <1>14, SMTT(20)
  <2>2. \A j \in 1..N : j \in 1..n \/ j = n + 1 \/ j = n + 2
    BY <1>2, <1>14, SMTT(20)
  <2>3. \A j \in 1..N : Redirection(w[j]) => j = n + 1
    BY <1>2, <1>13, <2>1, <2>2, Zenon
  <2>4. CASE w[n + 1] = "<"
    <3>1. in = w[n + 2] /\ out = NULL
      BY <1>4, <1>8, <1>9, <1>12, <1>13, <2>1, <2>3, <2>4, Zenon
    <3> QED
      BY <1>10, <1>13, <1>14, <2>1, <2>4, <3>1, Zenon DEF P, N
  <2>5. CASE w[n + 1] = ">"
    <3>1. out = w[n + 2] /\ in = NULL
      BY <1>4, <1>8, <1>9, <1>12, <1>13, <2>1, <2>3, <2>5, Zenon
    <3> QED
      BY <1>10, <1>13, <1>14, <2>1, <2>5, <3>1, Zenon DEF P, N
  <2> QED
    BY <1>8, <1>13, <2>1, <2>4, <2>5, Zenon
<1>15. CASE N = n + 4
  <2>1. N # n /\ N # n + 2
    BY <1>2, <1>15, SMTT(20)
  <2>2. \A j \in 1..N : j \in 1..n \/ j = n + 1 \/ j = n + 2 \/ j = n + 3 \/ j = n + 4
    BY <1>2, <1>15, SMTT(20)
  <2>a. /\ Redirection(w[n + 1]) /\ ~Redirection(w[n + 2])
        /\ Redirection(w[n + 3]) /\ ~Redirection(w[n + 4]) /\ w[n + 1] # w[n + 3]
    BY <1>2, <2>1, Zenon
  <2>3. \A j \in 1..N : Redirection(w[j]) => j = n + 1 \/ j = n + 3
    BY <1>2, <2>a, <2>2, Zenon
  <2>b. n + 3 \in Nat /\ n + 3 >= 1 /\ n + 4 <= N /\ n + 3 \in 1..N /\ n + 1 \in 1..N
    BY <1>2, <1>15, SMTT(20)
  <2> DEFINE k == n + 3
  <2>c. w[n + 2] # NULL
    <3>1. w[n + 2] \in Text
      BY <1>13, <2>1, Zenon
    <3> QED
      BY <3>1, Zenon DEF Text
  <2>d. \/ w[n + 1] = "<" /\ w[n + 3] = ">"
        \/ w[n + 1] = ">" /\ w[n + 3] = "<"
    BY <1>8, <2>a, Zenon
  <2>e. "IN" # "OUT"
    OBVIOUS
  <2>5. /\ k \in Nat /\ k >= 1 /\ k + 1 <= N /\ Redirection(w[k]) /\ ~Redirection(w[k + 1])
        /\ P[k - 1].tok \in {"ARG", "IN", "OUT"} /\ ~P[k - 1].hasRed
        /\ P[k - 1].tok # Side(w[k])
        /\ P[k - 1].tok = "IN" => P[k - 1].program.infile # NULL
        /\ P[k - 1].tok = "OUT" => P[k - 1].program.outfile # NULL
    <3>1. k \in Nat /\ k >= 1 /\ k + 1 <= N /\ Redirection(w[k]) /\ ~Redirection(w[k + 1])
      BY <1>12, <2>a, <2>b, Zenon
    <3>2. CASE w[n + 1] = "<" /\ w[n + 3] = ">"
      <4>1. P[n + 2].tok = "IN" /\ Side(w[n + 3]) = "OUT"
        BY <1>13, <1>g, <2>1, <3>2, Zenon
      <4>2. P[n + 2].program.infile # NULL /\ ~P[n + 2].hasRed
        BY <1>13, <2>1, <2>c, <3>2, Zenon
      <4> QED
        BY <1>12, <2>e, <3>1, <4>1, <4>2, Zenon
    <3>3. CASE w[n + 1] = ">" /\ w[n + 3] = "<"
      <4>1. P[n + 2].tok = "OUT" /\ Side(w[n + 3]) = "IN"
        BY <1>13, <1>g, <2>1, <3>3, Zenon
      <4>2. P[n + 2].program.outfile # NULL /\ ~P[n + 2].hasRed
        BY <1>13, <2>1, <2>c, <3>3, Zenon
      <4> QED
        BY <1>12, <2>e, <3>1, <4>1, <4>2, Zenon
    <3> QED
      BY <2>d, <3>2, <3>3, Zenon
  <2> HIDE DEF k
  <2>6. /\ P[k + 1].program.type = P[k - 1].program.type
        /\ P[k + 1].program.name = P[k - 1].program.name
        /\ P[k + 1].program.args = P[k - 1].program.args
        /\ Side(w[k]) = "IN" => /\ P[k + 1].program.infile = w[k + 1]
                               /\ P[k + 1].program.outfile = P[k - 1].program.outfile
        /\ Side(w[k]) = "OUT" => /\ P[k + 1].program.outfile = w[k + 1]
                                /\ P[k + 1].program.infile = P[k - 1].program.infile
    BY <2>5, ParsedFile, Zenon DEF P, N
  <2>7. k + 1 = n + 4 /\ k - 1 = n + 2
    BY <1>12 DEF k
  <2>8. /\ P[N].program.type = ty /\ P[N].program.name = nm /\ P[N].program.args = ar
    BY <1>13, <1>15, <2>1, <2>6, <2>7, Zenon
  <2>9. CASE w[n + 1] = "<" /\ w[n + 3] = ">"
    <3>1. in = w[n + 2] /\ out = w[n + 4]
      <4>1. \A j \in 1..N : w[j] = "<" => j = n + 1
        BY <1>8, <1>9, <2>3, <2>9, Zenon
      <4>2. \A j \in 1..N : w[j] = ">" => j = n + 3
        BY <1>8, <1>9, <2>3, <2>9, Zenon
      <4> QED
        BY <1>4, <1>12, <2>b, <2>9, <4>1, <4>2, Zenon
    <3>2. P[N].program.infile = w[n + 2] /\ P[N].program.outfile = w[n + 4]
      BY <1>13, <1>15, <1>g, <2>1, <2>6, <2>7, <2>9, Zenon DEF k
    <3> QED
      BY <1>10, <2>8, <3>1, <3>2, Zenon DEF P, N
  <2>10. CASE w[n + 1] = ">" /\ w[n + 3] = "<"
    <3>1. out = w[n + 2] /\ in = w[n + 4]
      <4>1. \A j \in 1..N : w[j] = ">" => j = n + 1
        BY <1>8, <1>9, <2>3, <2>10, Zenon
      <4>2. \A j \in 1..N : w[j] = "<" => j = n + 3
        BY <1>8, <1>9, <2>3, <2>10, Zenon
      <4> QED
        BY <1>4, <1>12, <2>b, <2>10, <4>1, <4>2, Zenon
    <3>2. P[N].program.outfile = w[n + 2] /\ P[N].program.infile = w[n + 4]
      BY <1>13, <1>15, <1>g, <2>1, <2>6, <2>7, <2>10, Zenon DEF k
    <3> QED
      BY <1>10, <2>8, <3>1, <3>2, Zenon DEF P, N
  <2> QED
    BY <2>d, <2>9, <2>10, Zenon
<1> QED
  BY <1>2, <1>11, <1>14, <1>15, Zenon DEF P, N


-----------------------------------------------------------------------------
(* Lines: in the loop *)

\* The programs are those of the line that was read, until one of them is run.
MInv ==
    /\ line # <<>> => programs = MakePrograms(line)
    /\ main \in HasChild \cup {"fork"} => line = <<>>

LEMMA StepParsed == MInv /\ [Next]_vars => MInv'
<1> SUFFICES ASSUME MInv, [Next]_vars PROVE MInv'
  OBVIOUS
<1> USE DEF command, HasChild, Waiting
<1>1. ASSUME UNCHANGED <<line, programs>>,
             main' \in HasChild \cup {"fork"} => main \in HasChild \cup {"fork"}
      PROVE  MInv'
  BY <1>1, Zenon DEF MInv
<1>2. CASE Environment
  <2>1. UNCHANGED <<main, command>>
    BY <1>2 DEF Environment, Ends, Signaled, Key
  <2> QED
    BY <1>1, <2>1
<1>3. CASE Handlers
  <2>1. UNCHANGED command
    BY <1>3, HandlersAside
  <2>2. \/ main' = main \/ main' = "crashed" \/ (main = "suspended" /\ main' = "woken")
    BY <1>3, HandlersAside
  <2> QED
    BY <1>1, <2>1, <2>2
<1>4. ASSUME NEW l \in Lines, ReadLine(l) PROVE MInv'
  BY <1>4 DEF ReadLine, MInv
<1>5. CASE \/ \E j \in 1..MaxInputs : Fg(j) \/ KillJob(j)
           \/ \E p \in Pids : KillPid(p)
           \/ KillNothing
  BY <1>1, <1>5 DEF Fg, KillJob, KillPid, KillNothing, Kills
<1>6. CASE \/ RefuseProgram \/ Fork \/ SetJob \/ SetGroup \/ SetForeground
           \/ FgContinues \/ FgForeground \/ RemoveFind \/ RemoveUnlink
  BY <1>1, <1>6 DEF RefuseProgram, Fork, SetJob, SetGroup, SetForeground, FgContinues,
                    FgForeground, RemoveFind, RemoveUnlink, Steps
<1>7. CASE InstallHandlers \/ Leave
  BY <1>7 DEF InstallHandlers, Leave, MInv
<1>8. CASE Resume
  BY <1>8 DEF Resume, Steps, MInv
<1>9. CASE UNCHANGED vars
  BY <1>1, <1>9 DEF vars
<1> QED
  BY <1>2, <1>3, <1>4, <1>5, <1>6, <1>7, <1>8, <1>9 DEF Next, Loop, User

LEMMA LineTexts ==
    ASSUME NEW l \in Lines
    PROVE  l \in Seq(Text)
<1>1. l \in Seq(STRING) /\ ~Contains(l, NULL)
  BY SfishAssumption, Zenon
<1>2. \A i \in 1..Len(l) : l[i] \in Text
  BY <1>1, ElementOfSeq, Zenon DEF Contains, Text
<1> QED
  BY <1>1, <1>2, SMTT(20)

LEMMA ParsedIsMeant == TypeOK /\ MInv => LineIsMeant
<1> SUFFICES ASSUME TypeOK, MInv, line # <<>>, Texts(line) # <<>>, NEW n \in DOMAIN Texts(line)
             PROVE  LET part == Texts(line)[n]
                        signs == {i \in DOMAIN part : Redirection(part[i])}
                    IN  /\ Regular(part) => programs[n] = Meant(part)
                        /\ Cardinality(signs) > 2 => programs[n].type = "BAD"
  BY Zenon DEF LineIsMeant
<1>1. line \in Seq(Text)
  BY LineTexts, Zenon DEF TypeOK
<1>2. Parts(line) \in Seq(Seq(Text))
  BY <1>1, PartsType, Zenon
<1> DEFINE parts == Parts(line)
           w == Words(parts[n])
<1>3. DOMAIN Texts(line) = DOMAIN parts /\ Texts(line)[n] = w
  BY Zenon DEF Texts
<1>4. w \in Seq(Text)
  <2>1. parts[n] \in Seq(Text)
    BY <1>2, <1>3, ElementOfSeq, LenProperties, Zenon
  <2> QED
    BY <2>1, WordsType, Zenon
<1>5. parts # <<>>
  <2>1. n \in DOMAIN parts
    BY <1>3, Zenon
  <2> HIDE DEF parts
  <2> QED
    BY <2>1, SMTT(20)
<1>6. programs = [i \in DOMAIN parts |-> Programify(parts[i])]
  BY <1>5, Zenon DEF MInv, MakePrograms
<1>7. programs[n] = Parsers(w)[Len(w)].program
  BY <1>3, <1>6, Zenon DEF Programify
<1> HIDE DEF w
<1> QED
  BY <1>3, <1>4, <1>7, RegularIsMeant, TooManySigns, Zenon

\* For any lines, of any length: each part of a line that is as it should be is run as
\* a user means it, its program with the words before the first sign as arguments and
\* the word behind each sign as that file, and a part with more than two signs is
\* refused.
THEOREM LinesMeant == Spec => []LineIsMeant
<1>1. Init => MInv
  BY DEF Init, MInv, HasChild, Waiting
<1> QED
  BY <1>1, StepParsed, ParsedIsMeant, TypeCorrect, PTL DEF Spec

=============================================================================
