------------------------------- MODULE Queue -------------------------------
(***************************************************************************)
(* The blocking queue of hw5/src/queue.c: a linked list guarded by a mutex *)
(* and counted by a semaphore.  `items' is incremented under the mutex but *)
(* decremented by sem_wait BEFORE the mutex is taken, and both enqueue and *)
(* dequeue decide what to do to the list from the value of the semaphore.  *)
(* Every interleaving of those steps is a behaviour of this module.        *)
(*                                                                         *)
(* An action is the code between two points at which another thread can    *)
(* change what it reads: the mutex protects front, rear and the nodes, so  *)
(* a step ends at sem_getvalue, sem_wait or sem_post and nowhere else.     *)
(***************************************************************************)
EXTENDS Naturals, Sequences, FiniteSets

CONSTANTS
    Producers,    \* threads that call enqueue
    Consumers,    \* threads that call dequeue in a loop
    Closers,      \* threads that call invalidate_queue once
    Nodes,        \* the addresses calloc can return for a queue_node_t
    MaxItems,     \* bound: how many items are handed to enqueue
    Null

ASSUME QueueAssumption ==
    /\ Producers \cap Consumers = {}
    /\ Producers \cap Closers = {}
    /\ Consumers \cap Closers = {}
    /\ Null \notin Nodes \cup Producers \cup Consumers \cup Closers
    /\ IsFiniteSet(Nodes)
    /\ MaxItems \in Nat

Threads == Producers \cup Consumers \cup Closers
Items == 1..MaxItems

VARIABLES
    front, rear,  \* the ends of the list
    items,        \* the value of the semaphore
    lock,         \* the thread that holds the mutex
    invalid,
    allocated,    \* nodes obtained from calloc and not yet freed
    itemOf,       \* the item field of each node
    nextOf,       \* the next field of each node
    pc,           \* where each thread is
    node,         \* new_node of a producer
    size,         \* the local `size', filled in by sem_getvalue
    got,          \* the local `item' of a consumer
    fault,        \* "null" or "freed" once the process dereferences one
    made,         \* how many items have been handed to enqueue
    linked,       \* history: how many items enqueue has linked
    stamp,        \* history: the position at which each item was linked, or 0
    delivered     \* history: the items dequeue returned, in order

list == <<front, rear, allocated, itemOf, nextOf>>
history == <<made, linked, stamp, delivered>>
vars == <<list, items, lock, invalid, pc, node, size, got, fault, history>>

Init == \* create_queue: calloc, sem_init(0), pthread_mutex_init
    /\ front = Null /\ rear = Null
    /\ items = 0
    /\ lock = Null
    /\ invalid = FALSE
    /\ allocated = {}
    /\ itemOf = [n \in Nodes |-> 0]
    /\ nextOf = [n \in Nodes |-> Null]
    /\ pc = [t \in Threads |-> "idle"]
    /\ node = [p \in Producers |-> Null]
    /\ size = [t \in Threads |-> 0]
    /\ got = [c \in Consumers |-> 0]
    /\ fault = "none"
    /\ made = 0 /\ linked = 0
    /\ stamp = [i \in Items |-> 0]
    /\ delivered = <<>>

MutexFree == lock = Null

\* What kind of bad pointer n is.
BadPointer(n) == IF n = Null THEN "null" ELSE "freed"

-----------------------------------------------------------------------------
(* The decisions the calls take, each after a form it could have by mistake. *)

WakesWithoutPost == TRUE
\* sem_wait returns when the semaphore is positive.
SemAvailable == items > 0

NeverPosts(value) == value
SemPost(value) == value + 1

WholeListBelowTwo(s) == s <= 1
\* enqueue: the new node becomes the whole list.
ReplacesList(s) == s = 0

UnlinksAboveOne(s) == s > 1
\* dequeue: the node at the front is unlinked and freed.
Unlinks(s) == s > 0

RearKept(s) == rear
\* dequeue: the rear once the node at the front is gone.
RearAfterUnlink(s) == IF s = 1 THEN nextOf[front] ELSE rear

InvalidIgnored == FALSE
\* Both calls turn back when the queue is invalid.
Refuses == invalid

-----------------------------------------------------------------------------
(* enqueue *)

\* calloc of the node; when memory is exhausted enqueue returns false.
EnqueueAlloc(p) ==
    /\ pc[p] = "idle" /\ made < MaxItems
    /\ made' = made + 1
    /\ \/ \E n \in Nodes \ allocated :
             /\ allocated' = allocated \cup {n}
             /\ itemOf' = [itemOf EXCEPT ![n] = made + 1]
             /\ nextOf' = [nextOf EXCEPT ![n] = Null]
             /\ node' = [node EXCEPT ![p] = n]
             /\ pc' = [pc EXCEPT ![p] = "enq_lock"]
       \/ /\ Nodes \subseteq allocated
          /\ UNCHANGED <<allocated, itemOf, nextOf, node, pc>>
    /\ UNCHANGED <<front, rear, items, lock, invalid, size, got, fault,
                   linked, stamp, delivered>>

\* Takes the mutex.  An invalid queue refuses the item and frees the node,
\* otherwise sem_getvalue is read.
EnqueueEnter(p) ==
    /\ pc[p] = "enq_lock" /\ MutexFree
    /\ \/ /\ Refuses
          /\ allocated' = allocated \ {node[p]}
          /\ pc' = [pc EXCEPT ![p] = "idle"]
          /\ UNCHANGED <<lock, size>>
       \/ /\ ~Refuses
          /\ lock' = p
          /\ size' = [size EXCEPT ![p] = items]
          /\ pc' = [pc EXCEPT ![p] = "enq_link"]
          /\ UNCHANGED allocated
    /\ UNCHANGED <<front, rear, itemOf, nextOf, items, invalid, node, got, fault, history>>

\* Where the new node goes: a semaphore read as 0 makes it the whole list.
LinkNode(p) ==
    \/ /\ ReplacesList(size[p])
       /\ front' = node[p] /\ rear' = node[p]
       /\ UNCHANGED nextOf
    \/ /\ ~ReplacesList(size[p]) /\ rear \in allocated
       /\ nextOf' = [nextOf EXCEPT ![rear] = node[p]]
       /\ rear' = node[p]
       /\ UNCHANGED front

\* Links the node, posts the semaphore and releases the mutex.
EnqueueLink(p) ==
    /\ pc[p] = "enq_link"
    /\ LinkNode(p)
    /\ items' = SemPost(items)
    /\ lock' = Null
    /\ pc' = [pc EXCEPT ![p] = "idle"]
    /\ linked' = linked + 1
    /\ stamp' = [stamp EXCEPT ![itemOf[node[p]]] = linked + 1]
    /\ UNCHANGED <<allocated, itemOf, invalid, node, size, got, fault, made,
                   delivered>>

\* self->rear->next with a rear that is no node.
EnqueueFault(p) ==
    /\ pc[p] = "enq_link" /\ ~ReplacesList(size[p]) /\ rear \notin allocated
    /\ fault' = BadPointer(rear)
    /\ UNCHANGED <<list, items, lock, invalid, pc, node, size, got, history>>

-----------------------------------------------------------------------------
(* dequeue *)

\* sem_wait, before the mutex.
DequeueWait(c) ==
    /\ pc[c] = "idle" /\ SemAvailable
    /\ items' = items - 1
    /\ pc' = [pc EXCEPT ![c] = "deq_lock"]
    /\ UNCHANGED <<list, lock, invalid, node, size, got, fault, history>>

\* Takes the mutex.  An invalid queue makes dequeue return NULL, otherwise
\* the item at the front and the semaphore are read.
DequeueEnter(c) ==
    /\ pc[c] = "deq_lock" /\ MutexFree
    /\ \/ /\ Refuses
          /\ pc' = [pc EXCEPT ![c] = "idle"]
          /\ UNCHANGED <<lock, size, got>>
       \/ /\ ~Refuses /\ front \in allocated
          /\ lock' = c
          /\ got' = [got EXCEPT ![c] = itemOf[front]]
          /\ size' = [size EXCEPT ![c] = items]
          /\ pc' = [pc EXCEPT ![c] = "deq_unlink"]
    /\ UNCHANGED <<list, items, invalid, node, fault, history>>

\* self->front->item with a front that is no node.
DequeueFault(c) ==
    /\ pc[c] = "deq_lock" /\ MutexFree
    /\ ~Refuses /\ front \notin allocated
    /\ fault' = BadPointer(front)
    /\ UNCHANGED <<list, items, lock, invalid, pc, node, size, got, history>>

\* The node is unlinked and freed only when the semaphore was read as positive.
UnlinkNode(c) ==
    \/ /\ Unlinks(size[c])
       /\ front' = nextOf[front]
       /\ allocated' = allocated \ {front}
       /\ rear' = RearAfterUnlink(size[c])
    \/ /\ ~Unlinks(size[c])
       /\ UNCHANGED <<front, rear, allocated>>

DequeueUnlink(c) ==
    /\ pc[c] = "deq_unlink"
    /\ UnlinkNode(c)
    /\ lock' = Null
    /\ pc' = [pc EXCEPT ![c] = "idle"]
    /\ delivered' = Append(delivered, got[c])
    /\ UNCHANGED <<itemOf, nextOf, items, invalid, node, size, got, fault,
                   made, linked, stamp>>

-----------------------------------------------------------------------------
(* invalidate_queue *)

\* The loop over the nodes runs while i < sem_getvalue(&self->items, &size),
\* and sem_getvalue RETURNS 0: no item is destroyed and no node is freed.
InvalidateQueue(x) ==
    /\ pc[x] = "idle" /\ MutexFree
    /\ pc' = [pc EXCEPT ![x] = "closed"]
    /\ invalid' = TRUE
    /\ UNCHANGED <<list, items, lock, node, size, got, fault, history>>

-----------------------------------------------------------------------------

Produce(p) == EnqueueAlloc(p) \/ EnqueueEnter(p) \/ EnqueueLink(p) \/ EnqueueFault(p)
Consume(c) == DequeueWait(c) \/ DequeueEnter(c) \/ DequeueUnlink(c) \/ DequeueFault(c)

\* A fault ends the process.
Next ==
    /\ fault = "none"
    /\ \/ \E p \in Producers : Produce(p)
       \/ \E c \in Consumers : Consume(c)
       \/ \E x \in Closers : InvalidateQueue(x)

Spec == Init /\ [][Next]_vars

\* The scheduler runs a thread that can run for ever.  Nothing is assumed of
\* the callers: an idle producer need not call enqueue again.
ThreadFairness ==
    /\ \A p \in Producers :
          WF_vars(fault = "none" /\ (EnqueueEnter(p) \/ EnqueueLink(p) \/ EnqueueFault(p)))
    /\ \A c \in Consumers : WF_vars(fault = "none" /\ Consume(c))

FairSpec == Spec /\ ThreadFairness

=============================================================================
