-------------------------- MODULE QueueProperties --------------------------
(* What is claimed of the queue, and the refinement mapping. *)
EXTENDS Queue

NodeOrNull == Nodes \cup {Null}
Faults == {"none", "null", "freed"}
Locations == {"idle", "enq_lock", "enq_link", "deq_lock", "deq_unlink", "closed"}

\* The types of the variables.
TypeOK ==
    /\ front \in NodeOrNull /\ rear \in NodeOrNull
    /\ items \in Nat
    /\ lock \in Threads \cup {Null}
    /\ invalid \in BOOLEAN
    /\ allocated \in SUBSET Nodes
    /\ itemOf \in [Nodes -> Items \cup {0}]
    /\ nextOf \in [Nodes -> NodeOrNull]
    /\ pc \in [Threads -> Locations]
    /\ node \in [Producers -> NodeOrNull]
    /\ size \in [Threads -> Nat]
    /\ got \in [Consumers -> Items \cup {0}]
    /\ fault \in Faults
    /\ made \in 0..MaxItems /\ linked \in Nat
    /\ stamp \in [Items -> Nat]
    /\ delivered \in Seq(Items \cup {0})

\* The program has at most one worker.
OneWorker == \A c, d \in Consumers : c = d

InDequeue(c) == pc[c] \in {"deq_lock", "deq_unlink"}

\* Permits: the value of the semaphore, and one for every worker that has
\* passed sem_wait and has not left dequeue.
Permits == items + Cardinality({c \in Consumers : InDequeue(c)})

\* With one worker a dequeue may fall behind what enqueue did to the list, but
\* it never hands out an item twice, nor a later item before an earlier one.
InOrder ==
    \A i, j \in DOMAIN delivered :
        i < j => stamp[delivered[i]] < stamp[delivered[j]]

\* With one worker no call reads a node after it was freed: the only bad
\* pointer it can meet is NULL.
NoFreedAccess == fault # "freed"

\* How many items were linked from the front on.
ListLength == IF front = Null THEN 0 ELSE linked - stamp[itemOf[front]] + 1

\* No linked item waits without a permit for it, which nobody would ever
\* dequeue: the last node may stay on the list with no permit, but then its
\* item has been handed out already.
NoItemStranded ==
    ~invalid => \/ ListLength <= Permits
                \/ /\ ListLength = 1 /\ Permits = 0
                   /\ \E i \in DOMAIN delivered : delivered[i] = itemOf[front]

\* Once the queue is invalid nothing is linked, unlinked or handed out, by any
\* number of threads: not even by a call that was inside when it was invalidated.
CloseIsFinal ==
    [][invalid => /\ UNCHANGED <<front, rear, linked, delivered, invalid>>
                  /\ \A n \in allocated : nextOf'[n] = nextOf[n]]_vars

-----------------------------------------------------------------------------
(* The list, followed from the front along the next fields. *)

Hops == 0..Cardinality(Nodes)
NodeAt[k \in Hops] ==
    IF k = 0 THEN front
    ELSE IF NodeAt[k - 1] = Null THEN Null ELSE nextOf[NodeAt[k - 1]]

Reachable == {NodeAt[k] : k \in Hops} \ {Null}
Contents == [k \in 1..Cardinality(Reachable) |-> itemOf[NodeAt[k - 1]]]

Fifo == INSTANCE OneWorkerFifo WITH
    contents <- IF invalid \/ Permits = 0 THEN <<>> ELSE Contents,
    woken <- \E c \in Consumers : InDequeue(c),
    open <- ~invalid,
    returned <- delivered

\* With one worker the queue is a FIFO queue that loses an item only when it
\* is overwritten under a worker that has been woken for it.
RefinesFifo == Fifo!Spec

\* The workers keep up: a linked item leaves the list, handed out or
\* overwritten, unless the process died or the queue was invalidated.
Waiting(i) == stamp[i] # 0 /\ \E n \in Reachable : itemOf[n] = i
HandedOut(i) == \E k \in DOMAIN delivered : delivered[k] = i
EachItemLeaves ==
    \A i \in Items :
        Waiting(i) ~> (HandedOut(i) \/ ~Waiting(i) \/ invalid \/ fault # "none")

-----------------------------------------------------------------------------
(* What queue.h says, and the code does not do. *)

\* "Removes and returns the item at the head of the queue": an item that was
\* returned is no longer in the queue, so it is returned once.
AtMostOnce ==
    \A i, j \in DOMAIN delivered : delivered[i] = delivered[j] => i = j

\* enqueue "Inserts a pointer to an item at the tail of the queue" and returns
\* true if the insertion was successful: the item is handed out, or it is still
\* on the list.
NothingLost ==
    \A i \in Items : stamp[i] # 0 /\ ~invalid => Waiting(i) \/ HandedOut(i)

=============================================================================
