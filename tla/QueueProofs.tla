---------------------------- MODULE QueueProofs ----------------------------
(***************************************************************************)
(* What is proved of the queue for any number of producers, threads that   *)
(* invalidate, nodes and items.  CloseIsFinal is proved for any number of  *)
(* workers too, the order of delivery for one worker, as it fails for two: *)
(* a queue with one worker is a OneWorkerFifo.                             *)
(***************************************************************************)
EXTENDS QueueProperties, Induction, TLAPS

Roles ==
    /\ \A p \in Producers : pc[p] \in {"idle", "enq_lock", "enq_link"}
    /\ \A c \in Consumers : pc[c] \in {"idle", "deq_lock", "deq_unlink"}
    /\ \A x \in Closers : pc[x] \in {"idle", "closed"}

\* The mutex: a thread between sem_getvalue and unlock holds it, and there is
\* no such thread on an invalid queue.
Critical(t) == pc[t] \in {"enq_link", "deq_unlink"}
MutexHeld ==
    /\ \A t \in Threads : Critical(t) => lock = t
    /\ invalid => \A t \in Threads : ~Critical(t)

\* The node whose item a worker has read stays in use until it is unlinked.
FrontHeld == \A c \in Consumers : pc[c] = "deq_unlink" => front \in allocated

SafeInv == TypeOK /\ Roles /\ MutexHeld /\ FrontHeld

-----------------------------------------------------------------------------
(* The list is described by the positions at which its items were linked. *)

Position(n) == stamp[itemOf[n]]
Base == IF front = Null THEN linked + 1 ELSE Position(front)
Woken == IF \E c \in Consumers : InDequeue(c) THEN 1 ELSE 0
S == items + Woken

\* Items are stamped once, with the numbers 1..linked.
Stamps ==
    /\ \A i \in Items : stamp[i] <= linked /\ (i > made => stamp[i] = 0)
    /\ \A i, j \in Items : stamp[i] = stamp[j] /\ stamp[i] # 0 => i = j

\* A node in use holds an item of its own.
NodeItems ==
    /\ \A n \in allocated : itemOf[n] \in 1..made
    /\ \A n, m \in allocated : itemOf[n] = itemOf[m] => n = m

\* The node a producer is about to link is its own, and is on no list.
Pending(p) == pc[p] \in {"enq_lock", "enq_link"}
PendingNodes ==
    /\ \A p \in Producers : Pending(p) =>
          /\ node[p] \in allocated
          /\ Position(node[p]) = 0
          /\ nextOf[node[p]] = Null
    /\ \A p, q \in Producers :
          Pending(p) /\ Pending(q) /\ node[p] = node[q] => p = q

\* From the front on the nodes carry the positions Base..linked in order.
ListEnds ==
    \/ front = Null /\ rear = Null
    \/ /\ front \in allocated /\ Position(front) # 0
       /\ rear \in allocated /\ Position(rear) = linked

ListLinks ==
    \A n \in allocated : Position(n) # 0 /\ Position(n) >= Base =>
        \/ /\ Position(n) < linked
           /\ nextOf[n] \in allocated
           /\ Position(nextOf[n]) = Position(n) + 1
        \/ Position(n) = linked /\ nextOf[n] = Null

\* How far the semaphore and the list can be apart.
PermitsFit ==
    /\ linked + 1 <= Base + S \/ (S = 0 /\ Base = linked)
    /\ S <= linked + 2 - Base

\* What a thread in the critical section has read still holds.
ReadsHold ==
    /\ \A c \in Consumers : pc[c] = "deq_unlink" =>
          size[c] = items /\ front # Null /\ got[c] = itemOf[front]
    /\ \A p \in Producers : pc[p] = "enq_link" =>
          (size[p] = 0 => items = 0) /\ (size[p] # 0 => S # 0)

DeliveredBefore ==
    /\ \A k \in DOMAIN delivered :
          \/ stamp[delivered[k]] < Base
          \/ S = 0 /\ stamp[delivered[k]] = Base
    /\ S = 0 /\ front # Null => \E k \in DOMAIN delivered : delivered[k] = itemOf[front]

DeliveredItems ==
    \A k \in DOMAIN delivered : delivered[k] \in Items /\ stamp[delivered[k]] # 0

ListInv == Stamps /\ NodeItems /\ PendingNodes /\ ListEnds /\ ListLinks /\ DeliveredItems
OpenInv == ~invalid => PermitsFit /\ ReadsHold /\ DeliveredBefore

IInv == SafeInv /\ ListInv /\ OpenInv /\ InOrder /\ NoFreedAccess

-----------------------------------------------------------------------------
(* Any number of workers. *)

USE DEF Threads, Items, Critical, InDequeue, NodeOrNull, Faults, Locations,
        MutexFree, SemAvailable, SemPost, ReplacesList, Unlinks, RearAfterUnlink,
        Refuses, BadPointer, list, history

LEMMA SafeInit == ASSUME Init PROVE SafeInv
<1>1. TypeOK
  <2> USE QueueAssumption DEF Init
  <2>1. front \in NodeOrNull /\ rear \in NodeOrNull /\ items \in Nat
        /\ lock \in Threads \cup {Null} /\ invalid \in BOOLEAN
    OBVIOUS
  <2>2. allocated \in SUBSET Nodes /\ itemOf \in [Nodes -> Items \cup {0}]
        /\ nextOf \in [Nodes -> NodeOrNull] /\ pc \in [Threads -> Locations]
    OBVIOUS
  <2>3. node \in [Producers -> NodeOrNull] /\ size \in [Threads -> Nat]
        /\ got \in [Consumers -> Items \cup {0}] /\ fault \in Faults
    OBVIOUS
  <2>4. made \in 0..MaxItems /\ linked \in Nat /\ stamp \in [Items -> Nat]
    OBVIOUS
  <2>5. delivered \in Seq(Items \cup {0})
    OBVIOUS
  <2> QED
    BY <2>1, <2>2, <2>3, <2>4, <2>5 DEF TypeOK
<1>2. Roles /\ MutexHeld /\ FrontHeld
  BY QueueAssumption DEF Init, Roles, MutexHeld, FrontHeld
<1> QED
  BY <1>1, <1>2 DEF SafeInv

LEMMA TypeStep == ASSUME SafeInv, [Next]_vars PROVE TypeOK'
<1> USE DEF SafeInv, TypeOK
<1>1. ASSUME NEW p \in Producers, EnqueueAlloc(p) PROVE TypeOK'
  <2> USE <1>1, QueueAssumption DEF EnqueueAlloc
  <2>1. made' \in 0..MaxItems /\ made + 1 \in Items
    OBVIOUS
  <2>2. itemOf' \in [Nodes -> Items \cup {0}]
    BY <2>1, SMTT(30)
  <2>3. nextOf' \in [Nodes -> NodeOrNull] /\ allocated' \in SUBSET Nodes
    OBVIOUS
  <2>4. node' \in [Producers -> NodeOrNull]
    <3>1. ASSUME NEW n \in Nodes, node' = [node EXCEPT ![p] = n]
          PROVE  node' \in [Producers -> NodeOrNull]
      BY <3>1
    <3> QED
      BY <3>1
  <2>5. pc' \in [Threads -> Locations]
    OBVIOUS
  <2> QED
    BY <2>1, <2>2, <2>3, <2>4, <2>5
<1>2. ASSUME NEW p \in Producers, EnqueueEnter(p) PROVE TypeOK'
  BY <1>2, ZenonT(30) DEF EnqueueEnter
<1>3. ASSUME NEW p \in Producers, EnqueueLink(p) PROVE TypeOK'
  <2> USE <1>3 DEF EnqueueLink, LinkNode
  <2>1. nextOf' \in [Nodes -> NodeOrNull]
    OBVIOUS
  <2>2. front' \in NodeOrNull
    OBVIOUS
  <2>5. rear' \in NodeOrNull
    OBVIOUS
  <2>3. linked' \in Nat /\ items' \in Nat
    OBVIOUS
  <2>6. stamp' \in [Items -> Nat]
    <3> HIDE <1>3 DEF TypeOK, EnqueueLink, LinkNode, SafeInv
    <3>1. stamp \in [Items -> Nat] /\ linked + 1 \in Nat
      BY DEF SafeInv, TypeOK
    <3>2. stamp' = [stamp EXCEPT ![itemOf[node[p]]] = linked + 1]
      BY <1>3 DEF EnqueueLink
    <3> QED
      BY <3>1, <3>2
  <2>4. pc' \in [Threads -> Locations]
    OBVIOUS
  <2> QED
    BY <2>1, <2>2, <2>3, <2>4, <2>5, <2>6
<1>4. ASSUME NEW p \in Producers, EnqueueFault(p) PROVE TypeOK'
  BY <1>4 DEF EnqueueFault
<1>5. ASSUME NEW c \in Consumers, DequeueWait(c) PROVE TypeOK'
  BY <1>5 DEF DequeueWait
<1>6. ASSUME NEW c \in Consumers, DequeueEnter(c) PROVE TypeOK'
  <2> USE <1>6 DEF DequeueEnter
  <2>1. got' \in [Consumers -> Items \cup {0}]
    BY ZenonT(60)
  <2>2. size' \in [Threads -> Nat]
    OBVIOUS
  <2>3. pc' \in [Threads -> Locations]
    OBVIOUS
  <2> QED
    BY <2>1, <2>2, <2>3
<1>7. ASSUME NEW c \in Consumers, DequeueUnlink(c) PROVE TypeOK'
  BY <1>7 DEF DequeueUnlink, UnlinkNode, FrontHeld
<1>8. ASSUME NEW c \in Consumers, DequeueFault(c) PROVE TypeOK'
  BY <1>8 DEF DequeueFault
<1>9. ASSUME NEW x \in Closers, InvalidateQueue(x) PROVE TypeOK'
  BY <1>9 DEF InvalidateQueue
<1>10. CASE UNCHANGED vars
  BY <1>10 DEF vars
<1> QED
  BY <1>1, <1>2, <1>3, <1>4, <1>5, <1>6, <1>7, <1>8, <1>9, <1>10
  DEF Next, Produce, Consume

LEMMA MutexStep ==
    ASSUME SafeInv, [Next]_vars
    PROVE  Roles' /\ MutexHeld' /\ FrontHeld'
<1> USE QueueAssumption DEF SafeInv, TypeOK, Roles, MutexHeld, FrontHeld
<1>1. ASSUME NEW p \in Producers, EnqueueAlloc(p)
      PROVE  Roles' /\ MutexHeld' /\ FrontHeld'
  <2> USE <1>1 DEF EnqueueAlloc
  <2>1. pc' = pc \/ pc' = [pc EXCEPT ![p] = "enq_lock"]
    OBVIOUS
  <2>2. allocated \subseteq allocated' /\ UNCHANGED <<front, lock, invalid>>
    OBVIOUS
  <2>3. Roles'
    <3>1. \A q \in Producers : pc'[q] \in {"idle", "enq_lock", "enq_link"}
      BY <2>1
    <3>2. \A t \in Threads : t # p => pc'[t] = pc[t]
      BY <2>1
    <3>3. \A t \in Consumers \cup Closers : t \in Threads /\ t # p
      OBVIOUS
    <3>4. \A t \in Consumers \cup Closers : pc'[t] = pc[t]
      BY <3>2, <3>3
    <3> QED
      BY <3>1, <3>4
  <2>4. MutexHeld'
    BY <2>1, <2>2
  <2>5. FrontHeld'
    BY <2>1, <2>2
  <2> QED
    BY <2>3, <2>4, <2>5
<1>2. ASSUME NEW p \in Producers, EnqueueEnter(p)
      PROVE  Roles' /\ MutexHeld' /\ FrontHeld'
  BY <1>2, ZenonT(30) DEF EnqueueEnter
<1>3. ASSUME NEW p \in Producers, EnqueueLink(p)
      PROVE  Roles' /\ MutexHeld' /\ FrontHeld'
  BY <1>3 DEF EnqueueLink
<1>4. ASSUME NEW p \in Producers, EnqueueFault(p)
      PROVE  Roles' /\ MutexHeld' /\ FrontHeld'
  BY <1>4 DEF EnqueueFault
<1>5. ASSUME NEW c \in Consumers, DequeueWait(c)
      PROVE  Roles' /\ MutexHeld' /\ FrontHeld'
  BY <1>5 DEF DequeueWait
<1>6. ASSUME NEW c \in Consumers, DequeueEnter(c)
      PROVE  Roles' /\ MutexHeld' /\ FrontHeld'
  BY <1>6, ZenonT(30) DEF DequeueEnter
<1>7. ASSUME NEW c \in Consumers, DequeueUnlink(c)
      PROVE  Roles' /\ MutexHeld' /\ FrontHeld'
  BY <1>7 DEF DequeueUnlink
<1>8. ASSUME NEW c \in Consumers, DequeueFault(c)
      PROVE  Roles' /\ MutexHeld' /\ FrontHeld'
  BY <1>8 DEF DequeueFault
<1>9. ASSUME NEW x \in Closers, InvalidateQueue(x)
      PROVE  Roles' /\ MutexHeld' /\ FrontHeld'
  BY <1>9 DEF InvalidateQueue
<1>10. CASE UNCHANGED vars
  BY <1>10 DEF vars
<1> QED
  BY <1>1, <1>2, <1>3, <1>4, <1>5, <1>6, <1>7, <1>8, <1>9, <1>10
  DEF Next, Produce, Consume

LEMMA SafeStep == ASSUME SafeInv, [Next]_vars PROVE SafeInv'
  BY TypeStep, MutexStep DEF SafeInv

\* The queue stays within its types, whatever threads use it.
THEOREM TypeCorrect == Spec => []TypeOK
<1>1. SafeInv => TypeOK
  BY DEF SafeInv
<1> QED
  BY <1>1, SafeInit, SafeStep, PTL DEF Spec

\* With any number of workers dequeue hands out only what enqueue was given:
\* never the 0 of a node that was not filled in, nor an item to come.
ItemsMade ==
    /\ \A n \in allocated : itemOf[n] \in 1..made
    /\ \A c \in Consumers : pc[c] = "deq_unlink" => got[c] \in 1..made
    /\ \A k \in DOMAIN delivered : delivered[k] \in 1..made

LEMMA MadeStep == ASSUME SafeInv, SafeInv', ItemsMade, [Next]_vars PROVE ItemsMade'
<1> USE DEF ItemsMade
<1>1. ASSUME NEW p \in Producers, EnqueueAlloc(p) PROVE ItemsMade'
  <2>1. made' = made + 1 /\ 1..made \subseteq 1..made' /\ made + 1 \in 1..made'
    BY <1>1 DEF EnqueueAlloc, SafeInv, TypeOK
  <2>2. \A n \in allocated' : itemOf'[n] \in 1..made'
    BY <1>1, <2>1 DEF EnqueueAlloc, SafeInv, TypeOK
  <2>3. \A c \in Consumers : pc'[c] = "deq_unlink" => pc[c] = "deq_unlink"
    BY <1>1 DEF EnqueueAlloc, SafeInv, TypeOK
  <2> QED
    BY <1>1, <2>1, <2>2, <2>3 DEF EnqueueAlloc
<1>2. ASSUME NEW c \in Consumers, DequeueEnter(c) PROVE ItemsMade'
  <2>1. UNCHANGED <<allocated, itemOf, made, delivered>>
    BY <1>2 DEF DequeueEnter
  <2>2. \/ pc' = [pc EXCEPT ![c] = "idle"] /\ got' = got
        \/ /\ pc' = [pc EXCEPT ![c] = "deq_unlink"] /\ front \in allocated
           /\ got' = [got EXCEPT ![c] = itemOf[front]]
    BY <1>2 DEF DequeueEnter
  <2>3. \A d \in Consumers : pc'[d] = "deq_unlink" => got'[d] \in 1..made'
    BY <2>1, <2>2 DEF SafeInv, TypeOK
  <2> QED
    BY <2>1, <2>3
<1>3. ASSUME NEW c \in Consumers, DequeueUnlink(c) PROVE ItemsMade'
  <2>1. UNCHANGED <<itemOf, made, got>> /\ allocated' \subseteq allocated
    BY <1>3 DEF DequeueUnlink, UnlinkNode
  <2>2. delivered \in Seq(Items \cup {0}) /\ delivered' = Append(delivered, got[c])
        /\ got[c] \in 1..made
    BY <1>3 DEF DequeueUnlink, SafeInv, TypeOK
  <2>3. \A k \in DOMAIN delivered' : delivered'[k] \in 1..made
    BY <2>2
  <2>4. \A d \in Consumers : pc'[d] = "deq_unlink" => pc[d] = "deq_unlink"
    BY <1>3 DEF DequeueUnlink, SafeInv, TypeOK
  <2> QED
    BY <2>1, <2>3, <2>4
<1>4. ASSUME UNCHANGED <<itemOf, got, made, delivered>>, allocated' \subseteq allocated,
             \A c \in Consumers : pc'[c] = "deq_unlink" => pc[c] = "deq_unlink"
      PROVE  ItemsMade'
  BY <1>4
<1>5. ASSUME NEW p \in Producers, EnqueueEnter(p) \/ EnqueueLink(p) \/ EnqueueFault(p)
      PROVE  ItemsMade'
  BY <1>4, <1>5 DEF EnqueueEnter, EnqueueLink, EnqueueFault, SafeInv, TypeOK
<1>6. ASSUME NEW c \in Consumers, DequeueWait(c) \/ DequeueFault(c) PROVE ItemsMade'
  BY <1>4, <1>6 DEF DequeueWait, DequeueFault, SafeInv, TypeOK
<1>7. ASSUME NEW x \in Closers, InvalidateQueue(x) PROVE ItemsMade'
  BY <1>4, <1>7 DEF InvalidateQueue, SafeInv, TypeOK
<1>8. CASE UNCHANGED vars
  BY <1>8 DEF vars
<1> QED
  BY <1>1, <1>2, <1>3, <1>5, <1>6, <1>7, <1>8 DEF Next, Produce, Consume

LEMMA MadeInit == ASSUME Init PROVE ItemsMade
  BY DEF Init, ItemsMade

\* Whatever is handed out, and however often, is an item enqueue was given.
THEOREM OnlyWhatWasMade == Spec => []ItemsMade
  BY SafeInit, SafeStep, MadeInit, MadeStep, PTL DEF Spec

\* With any number of workers: after invalidate_queue nothing is linked,
\* unlinked or handed out, because nobody was inside the mutex when it ran and
\* whoever enters afterwards turns back.
THEOREM CloseFinal == Spec => CloseIsFinal
<1> DEFINE Frozen ==
      invalid => /\ UNCHANGED <<front, rear, linked, delivered, invalid>>
                 /\ \A n \in allocated : nextOf'[n] = nextOf[n]
<1>1. ASSUME SafeInv, [Next]_vars PROVE [Frozen]_vars
  <2> SUFFICES ASSUME invalid, Next PROVE Frozen
    BY <1>1
  <2> USE DEF SafeInv, TypeOK, MutexHeld
  <2>1. ASSUME NEW p \in Producers, EnqueueAlloc(p) PROVE Frozen
    BY <1>1, <2>1 DEF EnqueueAlloc
  <2>2. ASSUME NEW p \in Producers, EnqueueEnter(p) PROVE Frozen
    BY <2>2 DEF EnqueueEnter
  <2>3. ASSUME NEW p \in Producers, EnqueueLink(p) PROVE Frozen
    BY <1>1, <2>3 DEF EnqueueLink
  <2>4. ASSUME NEW p \in Producers, EnqueueFault(p) PROVE Frozen
    BY <2>4 DEF EnqueueFault
  <2>5. ASSUME NEW c \in Consumers, DequeueWait(c) PROVE Frozen
    BY <2>5 DEF DequeueWait
  <2>6. ASSUME NEW c \in Consumers, DequeueEnter(c) PROVE Frozen
    BY <2>6 DEF DequeueEnter
  <2>7. ASSUME NEW c \in Consumers, DequeueUnlink(c) PROVE Frozen
    BY <1>1, <2>7 DEF DequeueUnlink
  <2>8. ASSUME NEW c \in Consumers, DequeueFault(c) PROVE Frozen
    BY <2>8 DEF DequeueFault
  <2>9. ASSUME NEW x \in Closers, InvalidateQueue(x) PROVE Frozen
    BY <2>9 DEF InvalidateQueue
  <2> QED
    BY <2>1, <2>2, <2>3, <2>4, <2>5, <2>6, <2>7, <2>8, <2>9
    DEF Next, Produce, Consume
<1> QED
  BY <1>1, SafeInit, SafeStep, PTL DEF Spec, CloseIsFinal

-----------------------------------------------------------------------------
(* The list, changed only in the critical sections. *)

LEMMA ListAlloc ==
    ASSUME SafeInv, ListInv, NEW p \in Producers, EnqueueAlloc(p)
    PROVE  ListInv' /\ UNCHANGED <<Base, items, size, got, delivered, stamp, linked, front>>
                    /\ (front # Null => itemOf'[front] = itemOf[front])
<1> USE QueueAssumption DEF SafeInv, TypeOK, ListInv
<1>1. CASE Nodes \subseteq allocated /\ UNCHANGED <<allocated, itemOf, nextOf, node, pc>>
  BY <1>1 DEF EnqueueAlloc, Stamps, NodeItems, PendingNodes, Pending, ListEnds,
              ListLinks, DeliveredItems, Position, Base
<1>2. ASSUME NEW n \in Nodes \ allocated,
             allocated' = allocated \cup {n},
             itemOf' = [itemOf EXCEPT ![n] = made + 1],
             nextOf' = [nextOf EXCEPT ![n] = Null],
             node' = [node EXCEPT ![p] = n],
             pc' = [pc EXCEPT ![p] = "enq_lock"]
      PROVE  ListInv' /\ UNCHANGED <<Base, items, size, got, delivered, stamp, linked, front>>
                      /\ (front # Null => itemOf'[front] = itemOf[front])
  <2>1. made < MaxItems /\ made' = made + 1
        /\ UNCHANGED <<front, rear, items, invalid, size, got, linked, stamp, delivered>>
    BY DEF EnqueueAlloc
  <2>2. \A m \in allocated : itemOf'[m] = itemOf[m] /\ nextOf'[m] = nextOf[m]
                             /\ Position(m)' = Position(m)
    BY <1>2, <2>1 DEF Position
  <2>3. itemOf'[n] = made + 1 /\ nextOf'[n] = Null
    BY <1>2
  <2>4. made + 1 \in Items /\ stamp[made + 1] = 0
    BY <2>1 DEF Stamps
  <2>5. Position(n)' = 0
    BY <2>1, <2>3, <2>4 DEF Position
  <2>6. Stamps'
    BY <2>1, <2>4 DEF Stamps
  <2>7. NodeItems'
    BY <1>2, <2>1, <2>2, <2>3 DEF NodeItems
  <2>8. PendingNodes'
    BY <1>2, <2>1, <2>2, <2>3, <2>5 DEF PendingNodes, Pending
  <2>9. front # Null => front \in allocated
    BY DEF ListEnds
  <2>10. Base' = Base /\ (front # Null => itemOf'[front] = itemOf[front])
    BY <2>1, <2>2, <2>9 DEF Base
  <2>11. ListEnds'
    BY <1>2, <2>1, <2>2 DEF ListEnds
  <2>12. ListLinks'
    BY <1>2, <2>1, <2>2, <2>5, <2>10 DEF ListLinks
  <2>13. DeliveredItems'
    BY <2>1 DEF DeliveredItems
  <2> QED
    BY <2>1, <2>6, <2>7, <2>8, <2>10, <2>11, <2>12, <2>13
<1> QED
  BY <1>1, <1>2 DEF EnqueueAlloc

LEMMA ListEnter ==
    ASSUME SafeInv, ListInv, NEW p \in Producers, EnqueueEnter(p)
    PROVE  ListInv'
<1> USE QueueAssumption DEF SafeInv, TypeOK, ListInv
<1>1. CASE ~Refuses
  BY <1>1 DEF EnqueueEnter, Stamps, NodeItems, PendingNodes, Pending, ListEnds,
              ListLinks, DeliveredItems, Position, Base
<1>2. CASE Refuses
  <2>1. /\ allocated' = allocated \ {node[p]} /\ pc[p] = "enq_lock"
        /\ pc' = [pc EXCEPT ![p] = "idle"]
        /\ UNCHANGED <<front, rear, itemOf, nextOf, node, made, linked, stamp, delivered>>
    BY <1>2 DEF EnqueueEnter
  <2>2. Position(node[p]) = 0 /\ node[p] \in allocated
    BY <2>1 DEF PendingNodes, Pending
  <2>3. /\ Base' = Base
        /\ \A n \in Nodes : Position(n)' = Position(n)
    BY <2>1 DEF Base, Position
  <2>4. Stamps' /\ NodeItems' /\ DeliveredItems'
    BY <2>1 DEF Stamps, NodeItems, DeliveredItems
  <2>5. PendingNodes'
    <3>1. \A q \in Producers : Pending(q)' => Pending(q) /\ node[q] # node[p]
      BY <2>1 DEF PendingNodes, Pending
    <3> QED
      BY <3>1, <2>1, <2>3 DEF PendingNodes
  <2>6. ListEnds'
    <3>1. CASE front = Null /\ rear = Null
      BY <3>1, <2>1 DEF ListEnds
    <3>2. CASE front # Null
      <4>1. front \in allocated /\ Position(front) # 0
            /\ rear \in allocated /\ Position(rear) = linked
        BY <3>2 DEF ListEnds
      <4>2. Position(front) <= linked /\ itemOf[front] \in Items
        BY <4>1 DEF Stamps, NodeItems, Position
      <4>3. linked # 0
        BY <4>1, <4>2 DEF Position
      <4> QED
        BY <4>1, <4>3, <2>1, <2>2, <2>3 DEF ListEnds
    <3> QED
      BY <3>1, <3>2 DEF ListEnds
  <2>7. ListLinks'
    <3> SUFFICES ASSUME NEW n \in allocated, n # node[p], Position(n) # 0, Position(n) >= Base
                 PROVE  \/ /\ Position(n) < linked
                           /\ nextOf[n] \in allocated \ {node[p]}
                           /\ Position(nextOf[n]) = Position(n) + 1
                        \/ Position(n) = linked /\ nextOf[n] = Null
      BY <2>1, <2>3 DEF ListLinks
    <3>1. Position(n) \in Nat
      BY DEF Position, NodeItems
    <3> QED
      BY <2>2, <3>1 DEF ListLinks
  <2> QED
    BY <2>4, <2>5, <2>6, <2>7
<1> QED
  BY <1>1, <1>2

\* Linking gives the item the next position and puts the node last.
LEMMA ListLink ==
    ASSUME SafeInv, ListInv, NEW p \in Producers, EnqueueLink(p)
    PROVE  /\ ListInv'
           /\ \A k \in DOMAIN delivered : stamp'[delivered[k]] = stamp[delivered[k]]
           /\ ReplacesList(size[p]) => Base' = linked + 1
           /\ ~ReplacesList(size[p]) => Base' = Base /\ front # Null
<1> USE QueueAssumption DEF SafeInv, TypeOK, ListInv
<1> DEFINE new == node[p]
           item == itemOf[new]
<1>1. /\ pc[p] = "enq_link" /\ pc' = [pc EXCEPT ![p] = "idle"]
      /\ linked' = linked + 1 /\ stamp' = [stamp EXCEPT ![item] = linked + 1]
      /\ UNCHANGED <<allocated, itemOf, made, node, delivered>>
  BY DEF EnqueueLink
<1>2. new \in allocated /\ stamp[item] = 0 /\ nextOf[new] = Null /\ item \in Items /\ item <= made
  BY <1>1 DEF PendingNodes, Pending, NodeItems, Position
<1>3. \A n \in allocated : Position(n) \in Nat /\ Position(n) <= linked /\ itemOf[n] \in Items
  BY DEF Position, NodeItems, Stamps
<1>4. /\ Position(new)' = linked + 1
      /\ \A n \in allocated : n # new => Position(n)' = Position(n)
  <2>1. \A i \in Items : stamp'[i] = IF i = item THEN linked + 1 ELSE stamp[i]
    BY <1>1
  <2> QED
    BY <1>1, <1>2, <1>3, <2>1 DEF Position, NodeItems
<1>5. Stamps'
  <2>1. \A i \in Items : stamp'[i] = IF i = item THEN linked + 1 ELSE stamp[i]
    BY <1>1
  <2> QED
    BY <1>1, <1>2, <2>1, SMTT(30) DEF Stamps
<1>6. NodeItems'
  BY <1>1 DEF NodeItems
<1>7. /\ DeliveredItems'
      /\ \A k \in DOMAIN delivered : stamp'[delivered[k]] = stamp[delivered[k]]
  BY <1>1, <1>2 DEF DeliveredItems
<1>8. CASE ReplacesList(size[p])
  <2>1. front' = new /\ rear' = new /\ nextOf' = nextOf
    BY <1>8 DEF EnqueueLink, LinkNode
  <2>2. Base' = linked + 1
    BY <2>1, <1>1, <1>2, <1>4 DEF Base
  <2>3. ListEnds'
    BY <2>1, <1>1, <1>2, <1>4 DEF ListEnds
  <2>4. ListLinks'
    <3> SUFFICES ASSUME NEW n \in allocated', Position(n)' # 0, Position(n)' >= Base'
                 PROVE  Position(n)' = linked' /\ nextOf'[n] = Null
      BY DEF ListLinks
    <3>1. n = new
      BY <2>2, <1>1, <1>3, <1>4
    <3> QED
      BY <3>1, <2>1, <1>1, <1>2, <1>4
  <2>5. PendingNodes'
    <3>1. \A q \in Producers : Pending(q)' => Pending(q) /\ node[q] # new
      BY <1>1 DEF PendingNodes, Pending
    <3> QED
      BY <3>1, <2>1, <1>1, <1>4 DEF PendingNodes
  <2> QED
    BY <1>8, <2>2, <2>3, <2>4, <2>5, <1>5, <1>6, <1>7
<1>9. CASE ~ReplacesList(size[p])
  <2>1. /\ rear \in allocated /\ rear' = new /\ front' = front
        /\ nextOf' = [nextOf EXCEPT ![rear] = new]
    BY <1>9 DEF EnqueueLink, LinkNode
  <2>2. front \in allocated /\ front # Null /\ Position(front) # 0 /\ Position(rear) = linked
    BY <2>1 DEF ListEnds
  <2>3. linked # 0 /\ rear # new /\ front # new
    BY <2>1, <2>2, <1>2, <1>3 DEF Position
  <2>4. Base' = Base
    BY <2>1, <2>2, <2>3, <1>4 DEF Base
  <2>5. ListEnds'
    BY <2>1, <2>2, <2>3, <1>1, <1>2, <1>4 DEF ListEnds
  <2>6. \A n \in allocated : nextOf'[n] = IF n = rear THEN new ELSE nextOf[n]
    BY <2>1
  <2>7. ListLinks'
    <3> DEFINE pos(n) == stamp'[itemOf[n]]
    <3>1. pos(new) = linked + 1 /\ \A n \in allocated : n # new => pos(n) = Position(n)
      BY <1>1, <1>4 DEF Position
    <3> SUFFICES ASSUME NEW n \in allocated, pos(n) # 0, pos(n) >= Base
                 PROVE  \/ /\ pos(n) < linked + 1
                           /\ nextOf'[n] \in allocated
                           /\ pos(nextOf'[n]) = pos(n) + 1
                        \/ pos(n) = linked + 1 /\ nextOf'[n] = Null
      BY <2>4, <1>1 DEF ListLinks, Position
    <3> HIDE DEF pos
    <3>2. CASE n = new
      BY <3>1, <3>2, <2>3, <2>6, <1>2
    <3>3. CASE n = rear
      BY <3>1, <3>3, <2>1, <2>2, <2>3, <2>6, <1>2
    <3>4. CASE n # new /\ n # rear
      <4>1. pos(n) = Position(n) /\ nextOf'[n] = nextOf[n]
        BY <3>1, <3>4, <2>6
      <4>2. Position(n) # linked
        BY <4>1, <3>4, <2>1, <2>2, <2>3, <1>3 DEF Stamps, NodeItems, Position
      <4>3. /\ nextOf[n] \in allocated /\ Position(nextOf[n]) = Position(n) + 1
            /\ Position(n) < linked
        BY <4>1, <4>2 DEF ListLinks
      <4>4. nextOf[n] # new
        BY <4>3, <1>2, <1>3 DEF Position
      <4>5. pos(nextOf[n]) = Position(nextOf[n])
        BY <4>3, <4>4, <3>1
      <4> QED
        BY <4>1, <4>3, <4>5, <1>3
    <3> QED
      BY <3>2, <3>3, <3>4
  <2>8. PendingNodes'
    <3>1. \A q \in Producers : Pending(q)' => Pending(q) /\ node[q] # new
      BY <1>1 DEF PendingNodes, Pending
    <3>2. \A q \in Producers : Pending(q)' =>
            /\ node[q] \in allocated /\ node[q] # rear
            /\ Position(node[q]) = 0 /\ nextOf[node[q]] = Null
      BY <3>1, <2>2, <2>3 DEF PendingNodes
    <3> QED
      BY <3>1, <3>2, <2>6, <1>1, <1>4 DEF PendingNodes
  <2> QED
    BY <1>9, <2>2, <2>4, <2>5, <2>7, <2>8, <1>5, <1>6, <1>7
<1> QED
  BY <1>8, <1>9

\* The worker that unlinks the front knows from the semaphore whether another
\* node follows it: the permits and the list are never more than one apart.
LEMMA ListUnlink ==
    ASSUME SafeInv, ListInv, OpenInv, NEW c \in Consumers, DequeueUnlink(c)
    PROVE  /\ ListInv'
           /\ Unlinks(size[c]) => Base' = Base + 1
           /\ ~Unlinks(size[c]) => Base' = Base /\ front' = front
<1> USE QueueAssumption DEF SafeInv, TypeOK, ListInv
<1>1. /\ pc[c] = "deq_unlink" /\ pc' = [pc EXCEPT ![c] = "idle"]
      /\ delivered' = Append(delivered, got[c])
      /\ UNCHANGED <<itemOf, nextOf, made, node, linked, stamp>>
  BY DEF DequeueUnlink
<1>2. ~invalid
  BY <1>1 DEF MutexHeld
<1>3. size[c] = items /\ front \in allocated /\ front # Null /\ got[c] = itemOf[front]
  BY <1>1, <1>2 DEF OpenInv, ReadsHold, FrontHeld
<1>4. /\ Base = Position(front) /\ Base \in Nat /\ Base # 0 /\ Base <= linked
      /\ itemOf[front] \in Items
      /\ rear \in allocated /\ Position(rear) = linked
  BY <1>3 DEF ListEnds, NodeItems, Stamps, Base, Position
<1>5. Woken = 1
  BY <1>1 DEF Woken
<1>6. linked <= Base + items /\ items <= linked + 1 - Base
  <2>1. S = items + 1
    BY <1>5 DEF S
  <2>2. /\ linked + 1 <= Base + (items + 1) \/ items + 1 = 0
        /\ items + 1 <= linked + 2 - Base
    BY <1>2, <2>1 DEF OpenInv, PermitsFit
  <2>3. items \in Nat /\ linked \in Nat
    OBVIOUS
  <2> HIDE DEF SafeInv, TypeOK, ListInv
  <2> QED
    BY <1>4, <2>2, <2>3
<1>7. Stamps'
  BY <1>1 DEF Stamps
<1>8. DeliveredItems'
  BY <1>1, <1>3, <1>4 DEF DeliveredItems, Position
<1>9. \A q \in Producers : pc'[q] = pc[q]
  BY <1>1, <1>3
<1>10. CASE ~Unlinks(size[c])
  <2>1. UNCHANGED <<front, rear, allocated>>
    BY <1>10 DEF DequeueUnlink, UnlinkNode
  <2>2. Base' = Base
    BY <2>1, <1>1 DEF Base, Position
  <2>3. NodeItems' /\ ListEnds' /\ ListLinks'
    BY <2>1, <2>2, <1>1 DEF NodeItems, ListEnds, ListLinks, Position
  <2>4. PendingNodes'
    BY <2>1, <1>1, <1>9 DEF PendingNodes, Pending, Position
  <2> QED
    BY <1>7, <1>8, <1>10, <2>1, <2>2, <2>3, <2>4
<1>11. CASE Unlinks(size[c])
  <2>1. /\ front' = nextOf[front] /\ allocated' = allocated \ {front}
        /\ rear' = IF items = 1 THEN nextOf[front] ELSE rear
    BY <1>3, <1>11 DEF DequeueUnlink, UnlinkNode, RearAfterUnlink
  <2>2. \/ /\ Base < linked
           /\ nextOf[front] \in allocated
           /\ Position(nextOf[front]) = Base + 1
        \/ Base = linked /\ nextOf[front] = Null
    BY <1>3, <1>4 DEF ListLinks
  <2>3. Base' = Base + 1
    BY <2>1, <2>2, <1>1 DEF Base, Position
  <2>4. NodeItems'
    BY <2>1, <1>1 DEF NodeItems
  <2>5. ListEnds'
    <3>1. CASE items = 1 /\ nextOf[front] = Null
      BY <3>1, <2>1 DEF ListEnds
    <3>2. CASE items = 1 /\ nextOf[front] # Null
      <4>1. nextOf[front] \in allocated /\ nextOf[front] # front
            /\ Position(nextOf[front]) = Base + 1 /\ Base + 1 = linked
        BY <3>2, <2>2, <1>4, <1>6
      <4> QED
        BY <3>2, <4>1, <2>1, <1>1, <1>4 DEF ListEnds, Position
    <3>3. CASE items # 1
      <4>1. items > 1
        BY <3>3, <1>3, <1>11
      <4>2. Base < linked
        BY <4>1, <1>4, <1>6
      <4>3. /\ nextOf[front] \in allocated /\ nextOf[front] # front
            /\ Position(nextOf[front]) = Base + 1 /\ rear # front
        BY <4>2, <2>2, <1>4
      <4> QED
        BY <3>3, <4>3, <2>1, <1>1, <1>4 DEF ListEnds, Position
    <3> QED
      BY <3>1, <3>2, <3>3
  <2>6. ListLinks'
    <3> SUFFICES ASSUME NEW n \in allocated, n # front,
                        Position(n) # 0, Position(n) >= Base + 1
                 PROVE  \/ /\ Position(n) < linked
                           /\ nextOf[n] \in allocated \ {front}
                           /\ Position(nextOf[n]) = Position(n) + 1
                        \/ Position(n) = linked /\ nextOf[n] = Null
      BY <2>1, <2>3, <1>1 DEF ListLinks, Position
    <3>1. Position(n) \in Nat
      BY DEF Position, NodeItems
    <3> QED
      BY <3>1, <1>4 DEF ListLinks
  <2>7. PendingNodes'
    <3>1. \A q \in Producers : Pending(q)' <=> Pending(q)
      BY <1>9 DEF Pending
    <3>2. \A q \in Producers : Pending(q) => node[q] # front
      BY <1>4 DEF PendingNodes
    <3> QED
      BY <3>1, <3>2, <2>1, <1>1 DEF PendingNodes, Position
  <2> QED
    BY <1>7, <1>8, <1>11, <2>3, <2>4, <2>5, <2>6, <2>7
<1> QED
  BY <1>10, <1>11

-----------------------------------------------------------------------------
(* One worker: the semaphore, the list and what was handed out agree. *)

LEMMA WokenOf ==
    ASSUME OneWorker, NEW c \in Consumers
    PROVE  /\ Woken = IF InDequeue(c) THEN 1 ELSE 0
           /\ Woken' = IF InDequeue(c)' THEN 1 ELSE 0
BY DEF OneWorker, Woken

LEMMA WokenSame ==
    ASSUME \A c \in Consumers : pc'[c] = pc[c]
    PROVE  Woken' = Woken
BY DEF Woken

LEMMA OpenAlloc ==
    ASSUME SafeInv, ListInv, OpenInv, NEW p \in Producers, EnqueueAlloc(p)
    PROVE  OpenInv'
<1> USE QueueAssumption DEF SafeInv, TypeOK
<1>1. UNCHANGED <<Base, items, size, got, delivered, stamp, linked, front, invalid>>
      /\ (front # Null => itemOf'[front] = itemOf[front])
  BY ListAlloc DEF EnqueueAlloc
<1>2. \A t \in Threads : t # p => pc'[t] = pc[t]
  BY DEF EnqueueAlloc
<1>3. \A c \in Consumers : c \in Threads /\ c # p
  OBVIOUS
<1>4. \A c \in Consumers : pc'[c] = pc[c]
  BY <1>2, <1>3
<1>5. S' = S
  BY <1>1, <1>4, WokenSame DEF S
<1>6. \A q \in Producers : pc'[q] = "enq_link" => pc[q] = "enq_link"
  BY <1>2 DEF EnqueueAlloc
<1> HIDE DEF SafeInv, TypeOK
<1>7. PermitsFit' = PermitsFit
  BY <1>1, <1>5 DEF PermitsFit
<1>8. ReadsHold => ReadsHold'
  BY <1>1, <1>4, <1>5, <1>6 DEF ReadsHold
<1>9. DeliveredBefore => DeliveredBefore'
  BY <1>1, <1>5 DEF DeliveredBefore
<1> QED
  BY <1>1, <1>7, <1>8, <1>9 DEF OpenInv

LEMMA OpenEnter ==
    ASSUME SafeInv, OpenInv, NEW p \in Producers, EnqueueEnter(p)
    PROVE  OpenInv'
<1> USE QueueAssumption DEF SafeInv, TypeOK
<1>1. CASE invalid
  BY <1>1 DEF EnqueueEnter, OpenInv
<1>2. CASE ~invalid
  <2>1. /\ size' = [size EXCEPT ![p] = items] /\ pc' = [pc EXCEPT ![p] = "enq_link"]
        /\ UNCHANGED <<allocated, front, itemOf, items, got, delivered, stamp, linked, invalid>>
    BY <1>2 DEF EnqueueEnter
  <2>2. \A c \in Consumers : pc'[c] = pc[c] /\ size'[c] = size[c]
    BY <2>1
  <2>3. S' = S
    BY <2>1, <2>2, WokenSame DEF S
  <2>4. Base' = Base
    BY <2>1 DEF Base, Position
  <2>5. PermitsFit /\ ReadsHold /\ DeliveredBefore
    BY <1>2 DEF OpenInv
  <2>6. PermitsFit'
    BY <2>1, <2>3, <2>4, <2>5 DEF PermitsFit
  <2>7. DeliveredBefore'
    BY <2>1, <2>3, <2>4, <2>5 DEF DeliveredBefore
  <2>8. ReadsHold'
    <3>1. \A c \in Consumers : pc'[c] = "deq_unlink" =>
             size'[c] = items' /\ front' # Null /\ got'[c] = itemOf'[front']
      BY <2>1, <2>2, <2>5 DEF ReadsHold
    <3>2. \A q \in Producers : pc'[q] = "enq_link" =>
             (size'[q] = 0 => items' = 0) /\ (size'[q] # 0 => items # 0 \/ S # 0)
      BY <2>1, <2>5 DEF ReadsHold
    <3>3. items # 0 => S # 0
      BY DEF S, Woken
    <3> QED
      BY <3>1, <3>2, <3>3, <2>3 DEF ReadsHold
  <2> QED
    BY <2>6, <2>7, <2>8 DEF OpenInv
<1> QED
  BY <1>1, <1>2

LEMMA OpenLink ==
    ASSUME SafeInv, ListInv, OpenInv, NEW p \in Producers, EnqueueLink(p)
    PROVE  OpenInv'
<1> USE QueueAssumption DEF SafeInv, TypeOK
<1>1. /\ pc[p] = "enq_link" /\ pc' = [pc EXCEPT ![p] = "idle"]
      /\ items' = items + 1 /\ linked' = linked + 1
      /\ UNCHANGED <<itemOf, size, got, delivered, invalid>>
  BY DEF EnqueueLink
<1>2. lock = p /\ ~invalid
  BY <1>1 DEF MutexHeld
<1>3. PermitsFit /\ ReadsHold /\ DeliveredBefore
  BY <1>2 DEF OpenInv
<1>4. \A c \in Consumers : pc'[c] = pc[c] /\ pc[c] # "deq_unlink"
  BY <1>1, <1>2 DEF MutexHeld
<1>5. S' = S + 1 /\ S \in Nat /\ (items = 0 => S <= 1)
  <2>1. Woken \in {0, 1}
    BY DEF Woken
  <2> QED
    BY <2>1, <1>1, <1>4, WokenSame DEF S
<1>6. ReadsHold'
  <2>1. \A q \in Producers : pc'[q] # "enq_link"
    BY <1>1, <1>2 DEF MutexHeld
  <2> QED
    BY <2>1, <1>4 DEF ReadsHold
<1>7. \A k \in DOMAIN delivered : /\ stamp'[delivered[k]] = stamp[delivered[k]]
                                 /\ stamp[delivered[k]] <= linked
                                 /\ stamp[delivered[k]] \in Nat
  <2>1. \A k \in DOMAIN delivered : delivered[k] \in Items
    BY DEF ListInv, DeliveredItems
  <2> QED
    BY <2>1, ListLink DEF ListInv, Stamps
<1>8. Base \in Nat /\ linked \in Nat
  <2>1. CASE front = Null
    BY <2>1 DEF Base
  <2>2. CASE front # Null
    BY <2>2 DEF Base, Position, ListInv, ListEnds, NodeItems
  <2> QED
    BY <2>1, <2>2
<1>9. CASE size[p] = 0
  <2>1. items = 0 /\ Base' = linked + 1
    BY <1>1, <1>3, <1>9, ListLink DEF ReadsHold
  <2> HIDE DEF SafeInv, TypeOK
  <2>2. PermitsFit'
    BY <2>1, <1>1, <1>5, <1>8 DEF PermitsFit
  <2>3. DeliveredBefore'
    BY <2>1, <1>1, <1>5, <1>7, <1>8 DEF DeliveredBefore
  <2> QED
    BY <2>2, <2>3, <1>6 DEF OpenInv
<1>10. CASE size[p] # 0
  <2>1. S # 0 /\ Base' = Base
    BY <1>1, <1>3, <1>10, ListLink DEF ReadsHold
  <2> HIDE DEF SafeInv, TypeOK
  <2>2. PermitsFit'
    BY <2>1, <1>1, <1>3, <1>5, <1>8 DEF PermitsFit
  <2>3. DeliveredBefore'
    BY <2>1, <1>1, <1>3, <1>5, <1>7, <1>8 DEF DeliveredBefore
  <2> QED
    BY <2>2, <2>3, <1>6 DEF OpenInv
<1> QED
  BY <1>9, <1>10

\* sem_wait turns a permit of the semaphore into one held by the worker.
LEMMA OpenWait ==
    ASSUME OneWorker, SafeInv, OpenInv, NEW c \in Consumers, DequeueWait(c)
    PROVE  OpenInv'
<1> USE QueueAssumption DEF SafeInv, TypeOK
<1>1. /\ pc[c] = "idle" /\ items > 0 /\ items' = items - 1
      /\ pc' = [pc EXCEPT ![c] = "deq_lock"]
      /\ UNCHANGED <<front, itemOf, size, got, delivered, stamp, linked, invalid>>
  BY DEF DequeueWait
<1>2. S' = S
  <2>1. Woken = 0 /\ Woken' = 1
    BY <1>1, WokenOf
  <2> QED
    BY <1>1, <2>1 DEF S
<1>3. Base' = Base
  BY <1>1 DEF Base, Position
<1>4. \A d \in Consumers : d = c
  BY DEF OneWorker
<1>5. \A q \in Producers : q # c /\ pc'[q] = pc[q]
  BY <1>1
<1> HIDE DEF SafeInv, TypeOK
<1>6. PermitsFit => PermitsFit'
  BY <1>1, <1>2, <1>3 DEF PermitsFit
<1>7. DeliveredBefore => DeliveredBefore'
  BY <1>1, <1>2, <1>3 DEF DeliveredBefore
<1>8. ReadsHold => ReadsHold'
  <2>1. pc'[c] = "deq_lock"
    BY <1>1 DEF SafeInv, TypeOK
  <2>2. items # 0
    BY <1>1
  <2> QED
    BY <1>1, <1>2, <1>4, <1>5, <2>1, <2>2 DEF ReadsHold
<1> QED
  BY <1>1, <1>6, <1>7, <1>8 DEF OpenInv

LEMMA OpenRead ==
    ASSUME OneWorker, SafeInv, OpenInv, NEW c \in Consumers, DequeueEnter(c)
    PROVE  OpenInv'
<1> USE QueueAssumption DEF SafeInv, TypeOK
<1>1. CASE invalid
  BY <1>1 DEF DequeueEnter, OpenInv
<1>2. CASE ~invalid
  <2>1. /\ pc[c] = "deq_lock" /\ lock = Null /\ front \in allocated
        /\ got' = [got EXCEPT ![c] = itemOf[front]] /\ size' = [size EXCEPT ![c] = items]
        /\ pc' = [pc EXCEPT ![c] = "deq_unlink"]
        /\ UNCHANGED <<front, itemOf, items, delivered, stamp, linked, invalid>>
    BY <1>2 DEF DequeueEnter
  <2>2. S' = S
    BY <2>1, WokenOf DEF S
  <2>3. Base' = Base
    BY <2>1 DEF Base, Position
  <2>4. \A d \in Consumers : d = c
    BY DEF OneWorker
  <2>5. PermitsFit /\ ReadsHold /\ DeliveredBefore
    BY <1>2 DEF OpenInv
  <2>6. ReadsHold'
    <3>1. \A q \in Producers : pc'[q] # "enq_link"
      BY <2>1 DEF MutexHeld
    <3>2. size'[c] = items' /\ front' # Null /\ got'[c] = itemOf'[front']
      BY <2>1
    <3> QED
      BY <3>1, <3>2, <2>4 DEF ReadsHold
  <2> HIDE DEF SafeInv, TypeOK
  <2>7. PermitsFit' /\ DeliveredBefore'
    BY <2>1, <2>2, <2>3, <2>5 DEF PermitsFit, DeliveredBefore
  <2> QED
    BY <2>6, <2>7 DEF OpenInv
<1> QED
  BY <1>1, <1>2

\* What DequeueUnlink hands out is the item at position Base, and every item
\* handed out before has a smaller position.
LEMMA Handed ==
    ASSUME SafeInv, ListInv, OpenInv, NEW c \in Consumers, DequeueUnlink(c)
    PROVE  /\ delivered' = Append(delivered, got[c])
           /\ got[c] \in Items /\ got[c] = itemOf[front] /\ stamp[got[c]] = Base
           /\ Base \in Nat /\ Base <= linked /\ front # Null /\ size[c] = items
           /\ \A k \in DOMAIN delivered : stamp[delivered[k]] < Base
           /\ UNCHANGED <<stamp, linked, itemOf, items, invalid>> /\ ~invalid
           /\ S = items + 1 /\ PermitsFit
<1> USE QueueAssumption DEF SafeInv, TypeOK
<1>1. /\ pc[c] = "deq_unlink" /\ delivered' = Append(delivered, got[c])
      /\ UNCHANGED <<stamp, linked, itemOf, items, invalid>>
  BY DEF DequeueUnlink
<1>2. ~invalid
  BY <1>1 DEF MutexHeld
<1>3. size[c] = items /\ front \in allocated /\ front # Null /\ got[c] = itemOf[front]
      /\ PermitsFit
  BY <1>1, <1>2 DEF OpenInv, ReadsHold, FrontHeld
<1>4. itemOf[front] \in Items /\ Base = stamp[itemOf[front]]
  BY <1>3 DEF ListInv, NodeItems, Base, Position
<1>5. Base \in Nat /\ Base <= linked
  BY <1>4 DEF ListInv, Stamps
<1>6. S = items + 1 /\ S # 0
  BY <1>1 DEF S, Woken
<1>7. \A k \in DOMAIN delivered : stamp[delivered[k]] < Base
  BY <1>2, <1>6 DEF OpenInv, DeliveredBefore
<1> QED
  BY <1>1, <1>2, <1>3, <1>4, <1>5, <1>6, <1>7

LEMMA AppendParts ==
    ASSUME NEW T, NEW q \in Seq(T), NEW e \in T
    PROVE  /\ DOMAIN Append(q, e) = DOMAIN q \cup {Len(q) + 1}
           /\ \A k \in DOMAIN q : Append(q, e)[k] = q[k] /\ k \in Nat /\ k < Len(q) + 1
           /\ Append(q, e)[Len(q) + 1] = e
OBVIOUS

LEMMA OpenUnlink ==
    ASSUME OneWorker, SafeInv, ListInv, OpenInv, NEW c \in Consumers, DequeueUnlink(c)
    PROVE  OpenInv'
<1> USE QueueAssumption
<1>1. pc'[c] = "idle" /\ (\A q \in Producers : pc'[q] = pc[q])
      /\ (Unlinks(size[c]) => front' = nextOf[front]) /\ items \in Nat /\ linked \in Nat
  BY DEF SafeInv, TypeOK, DequeueUnlink, UnlinkNode
<1>2. S' = items
  BY <1>1, Handed, WokenOf DEF S
<1>3. \A d \in Consumers : d = c
  BY DEF OneWorker
<1>4. /\ Unlinks(size[c]) => Base' = Base + 1
      /\ ~Unlinks(size[c]) => Base' = Base /\ front' = front
  BY ListUnlink
<1>5. ReadsHold'
  <2>1. \A q \in Producers : pc'[q] # "enq_link"
    BY <1>1 DEF SafeInv, MutexHeld, DequeueUnlink
  <2> QED
    BY <1>1, <1>3, <2>1 DEF ReadsHold
<1>6. PermitsFit'
  <2>1. /\ size[c] = items /\ linked' = linked /\ Base \in Nat
        /\ linked + 1 <= Base + (items + 1) /\ items + 1 <= linked + 2 - Base
    BY <1>1, Handed DEF PermitsFit
  <2> QED
    BY <1>1, <1>2, <1>4, <2>1 DEF PermitsFit
<1>7. DeliveredBefore'
  <2>1. delivered \in Seq(Items \cup {0}) /\ got[c] \in Items \cup {0}
    BY Handed DEF SafeInv, TypeOK
  <2>2. /\ DOMAIN delivered' = DOMAIN delivered \cup {Len(delivered) + 1}
        /\ \A k \in DOMAIN delivered : delivered'[k] = delivered[k]
        /\ delivered'[Len(delivered) + 1] = got[c]
    <3>1. delivered' = Append(delivered, got[c])
      BY Handed
    <3> QED
      BY <2>1, <3>1, AppendParts
  <2>3. \A k \in DOMAIN delivered : stamp[delivered[k]] \in Nat
    BY DEF SafeInv, TypeOK, ListInv, DeliveredItems
  <2>4. ASSUME NEW k \in DOMAIN delivered'
        PROVE  \/ stamp'[delivered'[k]] < Base'
               \/ S' = 0 /\ stamp'[delivered'[k]] = Base'
    <3>1. Base \in Nat /\ (Base' = Base \/ Base' = Base + 1) /\ (items # 0 => Base' = Base + 1)
      BY <1>1, <1>4, Handed
    <3>2. CASE k \in DOMAIN delivered
      BY <3>1, <3>2, <2>2, <2>3, Handed
    <3>3. CASE k = Len(delivered) + 1
      BY <3>1, <3>3, <2>2, <1>2, Handed
    <3> QED
      BY <3>2, <3>3, <2>2
  <2>5. S' = 0 => delivered'[Len(delivered) + 1] = itemOf'[front']
    BY <1>2, <1>4, <2>2, Handed
  <2> QED
    BY <2>2, <2>4, <2>5 DEF DeliveredBefore
<1> QED
  BY <1>5, <1>6, <1>7 DEF OpenInv

-----------------------------------------------------------------------------

LEMMA Quiet ==
    ASSUME SafeInv, ListInv, OpenInv,
           UNCHANGED <<list, made, linked, stamp, delivered, node>>,
           \A p \in Producers : Pending(p)' => Pending(p)
    PROVE  ListInv' /\ (InOrder => InOrder')
BY DEF ListInv, Stamps, NodeItems, PendingNodes, ListEnds, ListLinks, DeliveredItems,
       Position, Base, InOrder

LEMMA OrderUnlink ==
    ASSUME SafeInv, ListInv, OpenInv, InOrder, NEW c \in Consumers, DequeueUnlink(c)
    PROVE  InOrder'
<1>1. delivered \in Seq(Items \cup {0}) /\ got[c] \in Items \cup {0}
  BY Handed DEF SafeInv, TypeOK
<1>2. delivered' = Append(delivered, got[c]) /\ stamp' = stamp
  BY Handed
<1>3. SUFFICES ASSUME NEW i \in DOMAIN delivered', NEW j \in DOMAIN delivered', i < j
               PROVE  stamp[delivered'[i]] < stamp[delivered'[j]]
  BY <1>2 DEF InOrder
<1>4. i \in DOMAIN delivered
  BY <1>1, <1>2, <1>3, AppendParts
<1>5. CASE j \in DOMAIN delivered
  BY <1>1, <1>2, <1>3, <1>4, <1>5, AppendParts DEF InOrder
<1>6. CASE j = Len(delivered) + 1
  BY <1>1, <1>2, <1>4, <1>6, AppendParts, Handed
<1> QED
  BY <1>1, <1>2, <1>5, <1>6, AppendParts

LEMMA InvStep == ASSUME OneWorker, IInv, [Next]_vars PROVE IInv'
<1> USE QueueAssumption
<1> SUFFICES ASSUME SafeInv, ListInv, OpenInv, InOrder, NoFreedAccess
             PROVE  ListInv' /\ OpenInv' /\ InOrder' /\ NoFreedAccess'
  BY SafeStep DEF IInv
<1>1. ASSUME NEW p \in Producers, EnqueueAlloc(p)
      PROVE  ListInv' /\ OpenInv' /\ InOrder' /\ NoFreedAccess'
  <2>1. UNCHANGED <<delivered, stamp, fault>>
    BY <1>1 DEF EnqueueAlloc
  <2> QED
    BY <1>1, <2>1, ListAlloc, OpenAlloc DEF InOrder, NoFreedAccess
<1>2. ASSUME NEW p \in Producers, EnqueueEnter(p)
      PROVE  ListInv' /\ OpenInv' /\ InOrder' /\ NoFreedAccess'
  <2>1. UNCHANGED <<delivered, stamp, fault>>
    BY <1>2 DEF EnqueueEnter
  <2> QED
    BY <1>2, <2>1, ListEnter, OpenEnter DEF InOrder, NoFreedAccess
<1>3. ASSUME NEW p \in Producers, EnqueueLink(p)
      PROVE  ListInv' /\ OpenInv' /\ InOrder' /\ NoFreedAccess'
  <2>1. UNCHANGED <<delivered, fault>>
    BY <1>3 DEF EnqueueLink
  <2>2. InOrder'
    BY <1>3, <2>1, ListLink DEF InOrder
  <2> QED
    BY <1>3, <2>1, <2>2, ListLink, OpenLink DEF NoFreedAccess
<1>4. ASSUME NEW p \in Producers, EnqueueFault(p)
      PROVE  ListInv' /\ OpenInv' /\ InOrder' /\ NoFreedAccess'
  <2>1. rear = Null
    BY <1>4 DEF EnqueueFault, ListInv, ListEnds
  <2>2. fault' = "null" /\ UNCHANGED <<list, items, invalid, pc, node, size, got, history>>
    BY <1>4, <2>1 DEF EnqueueFault
  <2>3. OpenInv'
    BY <2>2 DEF OpenInv, PermitsFit, ReadsHold, DeliveredBefore, S, Woken, Base, Position
  <2>4. \A q \in Producers : Pending(q)' => Pending(q)
    BY <2>2 DEF Pending
  <2> QED
    BY <2>2, <2>3, <2>4, Quiet DEF NoFreedAccess
<1>5. ASSUME NEW c \in Consumers, DequeueWait(c)
      PROVE  ListInv' /\ OpenInv' /\ InOrder' /\ NoFreedAccess'
  <2>1. UNCHANGED <<list, made, linked, stamp, delivered, node, fault>>
    BY <1>5 DEF DequeueWait
  <2>2. \A q \in Producers : Pending(q)' => Pending(q)
    BY <1>5 DEF DequeueWait, Pending, SafeInv, TypeOK
  <2> QED
    BY <1>5, <2>1, <2>2, Quiet, OpenWait DEF NoFreedAccess
<1>6. ASSUME NEW c \in Consumers, DequeueEnter(c)
      PROVE  ListInv' /\ OpenInv' /\ InOrder' /\ NoFreedAccess'
  <2>1. UNCHANGED <<list, made, linked, stamp, delivered, node, fault>>
    BY <1>6 DEF DequeueEnter
  <2>2. \A q \in Producers : Pending(q)' => Pending(q)
    BY <1>6 DEF DequeueEnter, Pending, SafeInv, TypeOK
  <2> QED
    BY <1>6, <2>1, <2>2, Quiet, OpenRead DEF NoFreedAccess
<1>7. ASSUME NEW c \in Consumers, DequeueUnlink(c)
      PROVE  ListInv' /\ OpenInv' /\ InOrder' /\ NoFreedAccess'
  <2>1. fault' = fault
    BY <1>7 DEF DequeueUnlink
  <2> QED
    BY <1>7, <2>1, ListUnlink, OpenUnlink, OrderUnlink DEF NoFreedAccess
<1>8. ASSUME NEW c \in Consumers, DequeueFault(c)
      PROVE  ListInv' /\ OpenInv' /\ InOrder' /\ NoFreedAccess'
  <2>1. front = Null
    BY <1>8 DEF DequeueFault, ListInv, ListEnds
  <2>2. fault' = "null" /\ UNCHANGED <<list, items, invalid, pc, node, size, got, history>>
    BY <1>8, <2>1 DEF DequeueFault
  <2>3. OpenInv'
    BY <2>2 DEF OpenInv, PermitsFit, ReadsHold, DeliveredBefore, S, Woken, Base, Position
  <2>4. \A q \in Producers : Pending(q)' => Pending(q)
    BY <2>2 DEF Pending
  <2> QED
    BY <2>2, <2>3, <2>4, Quiet DEF NoFreedAccess
<1>9. ASSUME NEW x \in Closers, InvalidateQueue(x)
      PROVE  ListInv' /\ OpenInv' /\ InOrder' /\ NoFreedAccess'
  <2>1. UNCHANGED <<list, made, linked, stamp, delivered, node, fault>> /\ invalid'
    BY <1>9 DEF InvalidateQueue
  <2>2. \A q \in Producers : Pending(q)' => Pending(q)
    BY <1>9 DEF InvalidateQueue, Pending, SafeInv, TypeOK
  <2> QED
    BY <2>1, <2>2, Quiet DEF OpenInv, NoFreedAccess
<1>10. CASE UNCHANGED vars
  <2>1. UNCHANGED <<list, items, invalid, pc, node, size, got, history, fault>>
    BY <1>10 DEF vars
  <2>2. OpenInv'
    BY <2>1 DEF OpenInv, PermitsFit, ReadsHold, DeliveredBefore, S, Woken, Base, Position
  <2>3. \A q \in Producers : Pending(q)' => Pending(q)
    BY <2>1 DEF Pending
  <2> QED
    BY <2>1, <2>2, <2>3, Quiet DEF NoFreedAccess
<1> QED
  BY <1>1, <1>2, <1>3, <1>4, <1>5, <1>6, <1>7, <1>8, <1>9, <1>10
  DEF Next, Produce, Consume

LEMMA InvInit == ASSUME Init PROVE IInv
<1> USE QueueAssumption
<1>1. ListInv
  BY DEF Init, ListInv, Stamps, NodeItems, PendingNodes, Pending, ListEnds, ListLinks,
         DeliveredItems, Position
<1>2. Base = 1 /\ linked = 0 /\ S = 0 /\ front = Null
  <2>1. Woken = 0
    BY DEF Init, Woken
  <2> QED
    BY <2>1 DEF Init, S, Base
<1>3. OpenInv
  <2>1. PermitsFit
    BY <1>2 DEF PermitsFit
  <2>2. ReadsHold
    BY DEF Init, ReadsHold
  <2>3. DeliveredBefore
    BY <1>2 DEF Init, DeliveredBefore
  <2> QED
    BY <2>1, <2>2, <2>3 DEF OpenInv
<1>4. InOrder /\ NoFreedAccess
  BY DEF Init, InOrder, NoFreedAccess
<1> QED
  BY <1>1, <1>3, <1>4, SafeInit DEF IInv

LEMMA OneWorkerInv == ASSUME OneWorker PROVE Spec => []IInv
<1>1. IInv /\ [Next]_vars => IInv'
  BY InvStep
<1> QED
  BY <1>1, InvInit, PTL DEF Spec

\* With one worker dequeue hands the items out in the order enqueue linked
\* them, and none twice, however its calls interleave with enqueue.
THEOREM DeliveryOrder == ASSUME OneWorker PROVE Spec => []InOrder
<1>1. IInv => InOrder
  BY DEF IInv
<1> QED
  BY <1>1, OneWorkerInv, PTL

\* With one worker no call follows a pointer to a freed node.
THEOREM FreedNeverRead == ASSUME OneWorker PROVE Spec => []NoFreedAccess
<1>1. IInv => NoFreedAccess
  BY DEF IInv
<1> QED
  BY <1>1, OneWorkerInv, PTL

LEMMA PermitsAreS == ASSUME OneWorker PROVE Permits = S
<1>1. CASE \A c \in Consumers : ~InDequeue(c)
  <2>1. {c \in Consumers : InDequeue(c)} = {}
    BY <1>1
  <2> QED
    BY <1>1, <2>1, FS_EmptySet DEF Permits, S, Woken
<1>2. ASSUME NEW c \in Consumers, InDequeue(c) PROVE Permits = S
  <2>1. {d \in Consumers : InDequeue(d)} = {c}
    BY <1>2 DEF OneWorker
  <2> HIDE DEF InDequeue
  <2> QED
    BY <1>2, <2>1, FS_Singleton DEF Permits, S, Woken
<1> QED
  BY <1>1, <1>2

\* With one worker every item on the list of a valid queue has a permit, so
\* dequeue will be woken for it; only a last node that was handed out has none.
THEOREM NothingStranded == ASSUME OneWorker PROVE Spec => []NoItemStranded
<1>1. ASSUME IInv PROVE NoItemStranded
  <2> SUFFICES ASSUME ~invalid
               PROVE  \/ ListLength <= S
                      \/ /\ ListLength = 1 /\ S = 0
                         /\ \E k \in DOMAIN delivered : delivered[k] = itemOf[front]
    BY PermitsAreS DEF NoItemStranded
  <2>1. PermitsFit /\ DeliveredBefore
    BY <1>1 DEF IInv, OpenInv
  <2>2. S \in Nat /\ linked \in Nat
    BY <1>1 DEF IInv, SafeInv, TypeOK, S, Woken
  <2>3. CASE front = Null
    BY <2>2, <2>3 DEF ListLength
  <2>4. CASE front # Null
    <3>1. ListLength = linked - Base + 1 /\ Base \in Nat
      BY <1>1, <2>4 DEF ListLength, Base, Position, IInv, ListInv, ListEnds, NodeItems,
                        SafeInv, TypeOK
    <3> QED
      BY <2>1, <2>2, <2>4, <3>1 DEF PermitsFit, DeliveredBefore
  <2> QED
    BY <2>3, <2>4
<1> QED
  BY <1>1, OneWorkerInv, PTL

-----------------------------------------------------------------------------
(* The list that the next fields make is the one of the positions. *)

Length == linked + 1 - Base

\* The recursive definition of NodeAt has a solution.
LEMMA NodeAtDefined ==
    ASSUME TypeOK
    PROVE  NodeAt = [k \in Hops |->
               IF k = 0 THEN front
               ELSE IF NodeAt[k - 1] = Null THEN Null ELSE nextOf[NodeAt[k - 1]]]
<1> DEFINE N == Cardinality(Nodes)
           step == [k \in 1..N |->
                       [n \in NodeOrNull |-> IF n = Null THEN Null ELSE nextOf[n]]]
<1>1. N \in Nat
  BY QueueAssumption, FS_CardinalityType
<1>2. front \in NodeOrNull /\ step \in [1..N -> [NodeOrNull -> NodeOrNull]]
  BY DEF TypeOK
<1>3. \A k \in 1..N : \A n \in NodeOrNull :
         step[k][n] = IF n = Null THEN Null ELSE nextOf[n]
  OBVIOUS
<1> HIDE DEF step, N, NodeOrNull
<1>4. PICK f \in [0..N -> NodeOrNull] :
         f[0] = front /\ \A k \in 1..N : f[k] = step[k][f[k - 1]]
  BY <1>1, <1>2, FunctionBySteps
<1>5. f = [k \in 0..N |-> IF k = 0 THEN front
                          ELSE IF f[k - 1] = Null THEN Null ELSE nextOf[f[k - 1]]]
  <2>1. \A k \in 0..N : k # 0 => k \in 1..N /\ k - 1 \in 0..N /\ f[k - 1] \in NodeOrNull
    BY <1>1
  <2>2. \A k \in 0..N : f[k] = IF k = 0 THEN front
                               ELSE IF f[k - 1] = Null THEN Null ELSE nextOf[f[k - 1]]
    BY <1>3, <1>4, <2>1
  <2> QED
    BY <2>2
<1> QED
  BY <1>5 DEF NodeAt, Hops, N

\* The nodes at the first Length hops are the ones at the positions from Base on,
\* and then comes NULL.
LEMMA NodesInOrder ==
    ASSUME SafeInv, ListInv
    PROVE  /\ \A k \in Hops : k < Length =>
                 NodeAt[k] \in allocated /\ Position(NodeAt[k]) = Base + k
           /\ \A k \in Hops : k >= Length => NodeAt[k] = Null
           /\ Length \in Nat /\ Base \in Nat \ {0}
<1> USE QueueAssumption DEF SafeInv, TypeOK, ListInv
<1>1. linked \in Nat /\ Base \in Nat \ {0} /\ Length \in Nat
      /\ (front = Null => Length = 0)
      /\ (front # Null => front \in allocated /\ Position(front) = Base /\ Length > 0)
  BY DEF ListEnds, NodeItems, Stamps, Base, Position, Length
<1>2. Cardinality(Nodes) \in Nat
  BY FS_CardinalityType
<1>3. /\ Null \notin allocated
      /\ \A n \in allocated : Position(n) \in Nat
      /\ \A n \in allocated : Position(n) # 0 /\ Position(n) >= Base =>
             \/ /\ Position(n) < linked
                /\ nextOf[n] \in allocated
                /\ Position(nextOf[n]) = Position(n) + 1
             \/ Position(n) = linked /\ nextOf[n] = Null
  BY DEF ListLinks, NodeItems, Position
<1>4. /\ NodeAt[0] = front
      /\ \A k \in 0..(Cardinality(Nodes) - 1) :
            NodeAt[k + 1] = IF NodeAt[k] = Null THEN Null ELSE nextOf[NodeAt[k]]
  BY <1>2, NodeAtDefined, SMTT(60) DEF Hops
<1> DEFINE Right(k) == IF k < Length
                       THEN NodeAt[k] \in allocated /\ Position(NodeAt[k]) = Base + k
                       ELSE NodeAt[k] = Null
           T == {k \in Hops : Right(k)}
<1>5. 0 \in T
  BY <1>1, <1>2, <1>4 DEF Hops
<1> HIDE DEF SafeInv, TypeOK, ListInv
<1>6. ASSUME NEW k \in 0..(Cardinality(Nodes) - 1), k \in T PROVE k + 1 \in T
  <2>1. k + 1 \in Hops /\ Right(k) /\ linked = Base + Length - 1
    BY <1>1, <1>2, <1>6 DEF Hops, Length
  <2>2. CASE k < Length
    BY <1>1, <1>3, <1>4, <2>1, <2>2
  <2>3. CASE ~(k < Length)
    BY <1>1, <1>4, <2>1, <2>3
  <2> QED
    BY <2>2, <2>3
<1>7. Hops \subseteq T
  <2> HIDE DEF T
  <2> QED
    BY <1>2, <1>5, <1>6, NatSetInduction DEF Hops
<1> QED
  BY <1>1, <1>2, <1>7 DEF Hops

\* There are no more of them than nodes, as no two hops lead to the same one.
LEMMA ListFits ==
    ASSUME SafeInv, ListInv
    PROVE  Length <= Cardinality(Nodes) /\ Cardinality(Reachable) = Length
<1>1. Cardinality(Nodes) \in Nat /\ IsFiniteSet(Nodes)
  BY QueueAssumption, FS_CardinalityType
<1>2. Length \in Nat /\ Base \in Nat
  BY NodesInOrder
<1>3. allocated \subseteq Nodes /\ Null \notin allocated
  BY QueueAssumption DEF SafeInv, TypeOK
<1>4. \A j, k \in Hops : j < Length /\ k < Length /\ NodeAt[j] = NodeAt[k] => j = k
  BY <1>1, <1>2, NodesInOrder DEF Hops
<1>5. Length <= Cardinality(Nodes)
  <2> SUFFICES ASSUME Cardinality(Nodes) < Length PROVE FALSE
    BY <1>1, <1>2
  <2> DEFINE g == [k \in Hops |-> NodeAt[k]]
  <2>1. \A k \in Hops : k < Length
    BY <1>1, <1>2 DEF Hops
  <2>2. g \in [Hops -> Nodes]
    BY <1>3, <2>1, NodesInOrder
  <2>3. IsFiniteSet(Hops) /\ Cardinality(Hops) = Cardinality(Nodes) + 1
    BY <1>1, FS_Interval DEF Hops
  <2>4. \A j, k \in Hops : g[j] = g[k] => j = k
    BY <1>4, <2>1
  <2> HIDE DEF g
  <2> QED
    BY <1>1, <2>2, <2>3, <2>4, FS_PigeonHole
<1>6. Cardinality(Reachable) = Length
  <2> DEFINE g == [k \in 1..Length |-> NodeAt[k - 1]]
  <2>1. \A k \in 1..Length : k - 1 \in Hops /\ k - 1 < Length
    BY <1>1, <1>2, <1>5 DEF Hops
  <2>2. \A k \in 1..Length : g[k] \in Reachable
    BY <1>3, <2>1, NodesInOrder DEF Reachable
  <2>3. g \in [1..Length -> Reachable] /\ IsInjective(g)
    <3>1. \A j, k \in 1..Length : g[j] = g[k] => j = k
      BY <1>2, <1>4, <2>1
    <3> QED
      BY <2>2, <3>1 DEF IsInjective
  <2>4. \A n \in Reachable : \E k \in 1..Length : g[k] = n
    <3> SUFFICES ASSUME NEW h \in Hops, NodeAt[h] # Null
                 PROVE  \E k \in 1..Length : g[k] = NodeAt[h]
      BY DEF Reachable
    <3>1. h \in Nat /\ h < Length
      BY <1>1, <1>2, NodesInOrder DEF Hops
    <3>2. h + 1 \in 1..Length /\ (h + 1) - 1 = h
      BY <1>2, <3>1
    <3> QED
      BY <3>2
  <2> HIDE DEF g
  <2>5. g \in Bijection(1..Length, Reachable)
    BY <2>3, <2>4 DEF Bijection, Injection, Surjection
  <2> QED
    BY <1>2, <2>5, FS_CountingElements DEF ExistsBijection
<1> QED
  BY <1>5, <1>6

LEMMA FunctionIsSequence ==
    ASSUME NEW T, NEW n \in Nat, NEW f \in [1..n -> T]
    PROVE  f \in Seq(T) /\ Len(f) = n
OBVIOUS

\* What is on the list: the items of the positions from Base to the last.
LEMMA ContentsByPosition ==
    ASSUME SafeInv, ListInv
    PROVE  /\ Contents \in Seq(Items) /\ Len(Contents) = Length
           /\ \A k \in 1..Length : Contents[k] \in Items /\ stamp[Contents[k]] = Base + k - 1
<1>1. Cardinality(Nodes) \in Nat /\ Length \in Nat /\ Base \in Nat \ {0}
  BY QueueAssumption, FS_CardinalityType, NodesInOrder
<1>2. ASSUME NEW k \in 1..Length
      PROVE  /\ itemOf[NodeAt[k - 1]] \in Items
             /\ stamp[itemOf[NodeAt[k - 1]]] = Base + k - 1
  <2>1. k - 1 \in Hops /\ k - 1 < Length
    BY <1>1, ListFits DEF Hops
  <2>2. NodeAt[k - 1] \in allocated /\ Position(NodeAt[k - 1]) = Base + (k - 1)
    BY <2>1, NodesInOrder
  <2>3. itemOf[NodeAt[k - 1]] \in Items
    BY <2>2 DEF SafeInv, TypeOK, ListInv, NodeItems
  <2> QED
    BY <1>1, <2>2, <2>3 DEF Position
<1>3. Contents = [k \in 1..Length |-> itemOf[NodeAt[k - 1]]]
  BY ListFits DEF Contents
<1>4. Contents \in [1..Length -> Items]
  BY <1>2, <1>3
<1>5. Contents \in Seq(Items) /\ Len(Contents) = Length
  BY <1>1, <1>4, FunctionIsSequence
<1> QED
  BY <1>2, <1>3, <1>5

-----------------------------------------------------------------------------
(* The refinement. *)

\* What the mapping makes of a state that satisfies the invariant.
View ==
    /\ Permits = S
    /\ Length \in Nat /\ Base \in Nat \ {0}
    /\ Contents \in Seq(Items) /\ Len(Contents) = Length
    /\ \A k \in 1..Length : Contents[k] \in Items /\ stamp[Contents[k]] = Base + k - 1

LEMMA ViewOf == ASSUME OneWorker PROVE IInv => View
  BY PermitsAreS, NodesInOrder, ContentsByPosition DEF IInv, View

\* The list as OneWorkerFifo sees it, and whether its worker is awake.
Kept == IF invalid \/ S = 0 THEN <<>> ELSE Contents
Awake == \E c \in Consumers : InDequeue(c)

\* The actions of OneWorkerFifo in these terms.
LEMMA FifoSteps ==
    ASSUME View, View'
    PROVE  /\ \A i \in Items :
                 /\ ~invalid /\ Kept' = Append(Kept, i)
                    /\ (Awake' <=> Awake) /\ UNCHANGED <<invalid, delivered>>
                       => Fifo!Put(i)
                 /\ ~invalid /\ Awake /\ Len(Kept) = 1 /\ Kept' = <<i>>
                    /\ (Awake' <=> Awake) /\ UNCHANGED <<invalid, delivered>>
                       => Fifo!Overwrite(i)
           /\ ~Awake /\ Awake' /\ UNCHANGED <<Kept, invalid, delivered>> => Fifo!Wake
           /\ ~invalid /\ Awake /\ ~Awake' /\ Kept # <<>>
              /\ delivered' = Append(delivered, Head(Kept)) /\ Kept' = Tail(Kept)
              /\ UNCHANGED invalid => Fifo!Take
           /\ invalid /\ Awake /\ ~Awake' /\ UNCHANGED <<Kept, invalid, delivered>>
              => Fifo!GiveUp
           /\ ~invalid /\ invalid' /\ Kept' = <<>> /\ (Awake' <=> Awake)
              /\ UNCHANGED delivered => Fifo!Close
           /\ (Awake' <=> Awake) /\ UNCHANGED <<Kept, invalid, delivered>>
              => UNCHANGED Fifo!vars
  BY DEF View, Kept, Awake, Fifo!Put, Fifo!Overwrite, Fifo!Wake, Fifo!Take, Fifo!GiveUp,
         Fifo!Close, Fifo!vars

\* Two sequences with the same elements are the same.
LEMMA SameSequence ==
    ASSUME NEW T, NEW q \in Seq(T), NEW r \in Seq(T), Len(q) = Len(r),
           \A k \in 1..Len(q) : q[k] = r[k]
    PROVE  q = r
OBVIOUS

\* Nothing of the list changes in a step that leaves the positions alone.
LEMMA SameContents ==
    ASSUME SafeInv', ListInv', View, View', stamp' = stamp, Base' = Base, linked' = linked
    PROVE  Contents' = Contents
<1>1. Len(Contents') = Len(Contents) /\ Len(Contents) = Length
  BY DEF View, Length
<1>2. \A i, j \in Items : stamp[i] = stamp[j] /\ stamp[i] # 0 => i = j
  BY DEF ListInv, Stamps
<1>3. ASSUME NEW k \in 1..Length PROVE Contents'[k] = Contents[k]
  <2>1. Contents[k] \in Items /\ stamp[Contents[k]] = Base + k - 1
    BY DEF View
  <2>2. Contents'[k] \in Items /\ stamp[Contents'[k]] = Base + k - 1
    <3>1. Length' = Length
      BY DEF Length
    <3> QED
      BY <3>1 DEF View
  <2>3. Base + k - 1 # 0
    BY DEF View
  <2> QED
    BY <1>2, <2>1, <2>2, <2>3
<1>4. Contents \in Seq(Items) /\ Contents' \in Seq(Items)
  BY DEF View
<1> HIDE DEF Items
<1> QED
  BY <1>1, <1>3, <1>4, SameSequence

\* enqueue puts its item last, or in the place of the only one when the worker
\* has been woken for it.
LEMMA LinkRefines ==
    ASSUME OneWorker, IInv, IInv', View, View', NEW p \in Producers, EnqueueLink(p)
    PROVE  \E i \in Items : Fifo!Put(i) \/ Fifo!Overwrite(i)
<1> USE QueueAssumption
<1> DEFINE item == itemOf[node[p]]
<1>1. /\ pc[p] = "enq_link" /\ pc' = [pc EXCEPT ![p] = "idle"]
      /\ items' = items + 1 /\ linked' = linked + 1
      /\ stamp' = [stamp EXCEPT ![item] = linked + 1]
      /\ UNCHANGED <<delivered, invalid>>
  BY DEF EnqueueLink
<1>2. ~invalid /\ items \in Nat /\ linked \in Nat /\ stamp \in [Items -> Nat]
      /\ pc \in [Threads -> Locations]
  BY <1>1 DEF IInv, SafeInv, TypeOK, MutexHeld
<1>3. PermitsFit /\ ReadsHold
  BY <1>2 DEF IInv, OpenInv
<1>4. item \in Items /\ stamp[item] = 0
  BY <1>1 DEF IInv, ListInv, SafeInv, TypeOK, PendingNodes, Pending, NodeItems, Position
<1>5. \A c \in Consumers : pc'[c] = pc[c]
  BY <1>1, <1>2
<1>6. (Awake' <=> Awake) /\ Woken' = Woken /\ Woken \in {0, 1} /\ (Woken = 1 => Awake)
  BY <1>5, WokenSame DEF Awake, Woken
<1>7. S' = S + 1 /\ S \in Nat
  BY <1>1, <1>2, <1>6 DEF S
<1>8. /\ size[p] = 0 => items = 0 /\ Base' = linked + 1
      /\ size[p] # 0 => S # 0 /\ Base' = Base
  BY <1>1, <1>3, ListLink DEF ReadsHold, IInv
<1>9. \A i, j \in Items : stamp'[i] = stamp'[j] /\ stamp'[i] # 0 => i = j
  BY DEF IInv, ListInv, Stamps
<1>10. Contents \in Seq(Items) /\ Contents' \in Seq(Items)
       /\ Length \in Nat /\ Len(Contents) = Length /\ Len(Contents') = linked' + 1 - Base'
       /\ Base \in Nat \ {0}
  BY DEF View, Length
<1>11. stamp'[item] = linked + 1
       /\ \A i \in Items : stamp[i] # 0 => stamp'[i] = stamp[i]
  BY <1>1, <1>2, <1>4
<1>12. Kept' = Contents'
  BY <1>1, <1>2, <1>7 DEF Kept
<1>13. CASE size[p] = 0
  <2>1. Len(Contents') = 1 /\ Base' = linked + 1
    BY <1>1, <1>2, <1>8, <1>10, <1>13
  <2>2. stamp'[Contents'[1]] = linked + 1 /\ Contents'[1] \in Items
    <3>1. 1 \in 1..Length'
      BY <1>1, <1>2, <2>1 DEF Length
    <3>2. stamp'[Contents'[1]] = Base' + 1 - 1
      BY <3>1 DEF View
    <3> QED
      BY <1>2, <2>1, <3>1, <3>2 DEF View
  <2>3. Contents'[1] = item
    BY <1>2, <1>4, <1>9, <1>11, <2>2
  <2>4. Kept' = <<item>>
    <3> HIDE DEF Items, item
    <3>1. <<item>> \in Seq(Items) /\ Len(<<item>>) = 1 /\ <<item>>[1] = item
      BY <1>4
    <3>2. \A k \in 1..Len(Contents') : Contents'[k] = <<item>>[k]
      BY <2>1, <2>3, <3>1
    <3>3. Contents' = <<item>>
      BY <1>10, <2>1, <3>1, <3>2, SameSequence
    <3> QED
      BY <1>12, <3>3
  <2>5. Length <= 1 /\ (S = 0 \/ (S = 1 /\ Awake))
    <3>1. S = Woken
      BY <1>6, <1>8, <1>13 DEF S
    <3>2. Base \in Nat
      BY <1>10
    <3>3. S = 0 \/ (S = 1 /\ Awake)
      BY <1>6, <3>1
    <3>4. linked + 1 <= Base + 1
      <4>1. linked + 1 <= Base + S \/ Base = linked
        BY <1>3 DEF PermitsFit
      <4> HIDE <3>1
      <4> QED
        BY <1>2, <3>2, <3>3, <4>1
    <3>5. Length <= 1
      BY <1>2, <3>2, <3>4 DEF Length
    <3> QED
      BY <3>3, <3>5
  <2>6. CASE Kept = <<>>
    <3>1. Kept' = Append(Kept, item)
      BY <2>4, <2>6
    <3> QED
      BY <1>1, <1>2, <1>4, <1>6, <3>1, FifoSteps
  <2>7. CASE Kept # <<>>
    <3>1. Kept = Contents /\ Awake /\ Len(Contents) = 1
      BY <1>2, <1>10, <2>5, <2>7 DEF Kept
    <3> QED
      BY <1>1, <1>2, <1>4, <1>6, <2>4, <3>1, FifoSteps
  <2> QED
    BY <2>6, <2>7
<1>14. CASE size[p] # 0
  <2>1. Kept = Contents /\ Base' = Base /\ Len(Contents') = Length + 1
    BY <1>1, <1>2, <1>8, <1>10, <1>14 DEF Kept, Length
  <2>2. ASSUME NEW k \in 1..(Length + 1) PROVE Contents'[k] = Append(Contents, item)[k]
    <3>1. Contents'[k] \in Items /\ stamp'[Contents'[k]] = Base + k - 1 /\ Base + k - 1 # 0
      BY <1>10, <2>1 DEF View, Length
    <3>2. CASE k = Length + 1
      <4>1. Base + k - 1 = linked + 1
        BY <1>2, <1>10, <3>2 DEF Length
      <4>2. Contents'[k] = item
        BY <1>4, <1>9, <1>11, <3>1, <4>1
      <4> QED
        BY <1>4, <1>10, <3>2, <4>2
    <3>3. CASE k \in 1..Length
      <4>1. Contents[k] \in Items /\ stamp[Contents[k]] = Base + k - 1
        BY <1>10, <3>3 DEF View
      <4>2. Contents'[k] = Contents[k]
        BY <1>9, <1>11, <3>1, <4>1
      <4> QED
        BY <1>4, <1>10, <3>3, <4>2
    <3> QED
      BY <1>10, <3>2, <3>3
  <2>3. Append(Contents, item) \in Seq(Items) /\ Len(Append(Contents, item)) = Length + 1
    BY <1>4, <1>10
  <2>4. Contents' = Append(Contents, item)
    <3> HIDE DEF Items, item
    <3> QED
      BY <1>10, <2>1, <2>2, <2>3, SameSequence
  <2> QED
    BY <1>1, <1>2, <1>4, <1>6, <1>12, <2>1, <2>4, FifoSteps
<1> QED
  BY <1>13, <1>14

\* dequeue takes the first item; when the semaphore reads 0 it leaves the node on
\* the list without a permit, which is no item for OneWorkerFifo.
LEMMA UnlinkRefines ==
    ASSUME OneWorker, IInv, IInv', View, View', NEW c \in Consumers, DequeueUnlink(c)
    PROVE  Fifo!Take
<1> USE QueueAssumption
<1>1. /\ pc[c] = "deq_unlink" /\ pc'[c] = "idle" /\ items \in Nat /\ linked \in Nat
      /\ size[c] = items /\ ~invalid /\ PermitsFit
      /\ delivered' = Append(delivered, got[c])
      /\ UNCHANGED <<stamp, linked, items, invalid>>
      /\ got[c] \in Items /\ stamp[got[c]] = Base /\ Base <= linked /\ S = items + 1
  BY Handed DEF IInv, SafeInv, TypeOK, DequeueUnlink
<1>2. Awake /\ ~Awake' /\ S' = items
  BY <1>1, WokenOf DEF OneWorker, Awake, S
<1>3. /\ items > 0 => Base' = Base + 1
      /\ items = 0 => Base' = Base
  BY <1>1, ListUnlink DEF IInv
<1>4. \A i, j \in Items : stamp[i] = stamp[j] /\ stamp[i] # 0 => i = j
  BY DEF IInv, ListInv, Stamps
<1>5. Contents \in Seq(Items) /\ Contents' \in Seq(Items)
      /\ Length \in Nat /\ Len(Contents) = Length /\ Len(Contents') = linked' + 1 - Base'
      /\ Base \in Nat \ {0} /\ Length = linked + 1 - Base
  BY DEF View, Length
<1>6. Kept = Contents /\ Kept # <<>> /\ Length # 0
  BY <1>1, <1>5 DEF Kept
<1>7. Head(Kept) = got[c]
  <2>1. Contents[1] \in Items /\ stamp[Contents[1]] = Base
    <3>1. 1 \in 1..Length /\ Base + 1 - 1 = Base
      BY <1>5, <1>6
    <3>2. stamp[Contents[1]] = Base + 1 - 1
      BY <3>1 DEF View
    <3> QED
      BY <3>1, <3>2 DEF View
  <2>2. Contents[1] = got[c]
    BY <1>1, <1>4, <1>5, <2>1
  <2> QED
    BY <1>5, <1>6, <2>2
<1>8. CASE items = 0
  <2>1. Length = 1
    BY <1>1, <1>5, <1>8 DEF PermitsFit
  <2>2. Tail(Contents) = <<>>
    BY <1>5, <2>1
  <2>3. Kept' = <<>>
    BY <1>2, <1>8 DEF Kept
  <2> QED
    BY <1>1, <1>2, <1>6, <1>7, <2>2, <2>3, FifoSteps
<1>9. CASE items # 0
  <2>1. Kept' = Contents' /\ Base' = Base + 1 /\ Len(Contents') = Length - 1
    BY <1>1, <1>2, <1>3, <1>5, <1>9 DEF Kept
  <2>2. Tail(Contents) \in Seq(Items) /\ Len(Tail(Contents)) = Length - 1
    BY <1>5, <1>6
  <2>3. ASSUME NEW k \in 1..(Length - 1) PROVE Contents'[k] = Tail(Contents)[k]
    <3>1. Contents'[k] \in Items /\ stamp[Contents'[k]] = Base + k
      <4>1. k \in 1..Length' /\ Base' + k - 1 = Base + k
        BY <1>1, <1>5, <2>1 DEF Length
      <4>2. stamp'[Contents'[k]] = Base' + k - 1
        BY <4>1 DEF View
      <4> QED
        BY <1>1, <4>1, <4>2 DEF View
    <3>2. Contents[k + 1] \in Items /\ stamp[Contents[k + 1]] = Base + k
      BY <1>5, SMTT(60) DEF View
    <3>3. Contents'[k] = Contents[k + 1]
      <4>1. Base + k # 0
        BY <1>5
      <4> QED
        BY <1>4, <3>1, <3>2, <4>1
    <3> QED
      BY <1>5, <1>6, <3>3
  <2>4. Contents' = Tail(Contents)
    <3> HIDE DEF Items
    <3> QED
      BY <1>5, <2>1, <2>2, <2>3, SameSequence
  <2> QED
    BY <1>1, <1>2, <1>6, <1>7, <2>1, <2>4, FifoSteps
<1> QED
  BY <1>8, <1>9

\* The other steps of producers leave the list as it is.
LEMMA ProducerRests ==
    ASSUME OneWorker, IInv, IInv', View, View', NEW p \in Producers,
           EnqueueAlloc(p) \/ EnqueueEnter(p) \/ EnqueueFault(p)
    PROVE  UNCHANGED Fifo!vars
<1> USE QueueAssumption
<1>1. UNCHANGED <<items, stamp, linked, delivered, invalid, front>>
  BY DEF EnqueueAlloc, EnqueueEnter, EnqueueFault
<1>2. \A c \in Consumers : c # p /\ pc'[c] = pc[c]
  BY DEF EnqueueAlloc, EnqueueEnter, EnqueueFault, IInv, SafeInv, TypeOK
<1>3. (Awake' <=> Awake) /\ S' = S
  BY <1>1, <1>2, WokenSame DEF Awake, S
<1>4. Base' = Base
  <2>1. CASE EnqueueAlloc(p)
    BY <2>1, ListAlloc DEF IInv
  <2>2. CASE EnqueueEnter(p) \/ EnqueueFault(p)
    BY <2>2 DEF EnqueueEnter, EnqueueFault, Base, Position
  <2> QED
    BY <2>1, <2>2
<1>5. Contents' = Contents
  BY <1>1, <1>4, SameContents DEF IInv
<1>6. Kept' = Kept
  BY <1>1, <1>3, <1>5 DEF Kept
<1> QED
  BY <1>1, <1>3, <1>6, FifoSteps

\* The worker is woken by the semaphore, and gives up when the queue is invalid.
LEMMA WorkerRefines ==
    ASSUME OneWorker, IInv, IInv', View, View', NEW c \in Consumers,
           DequeueWait(c) \/ DequeueEnter(c) \/ DequeueFault(c)
    PROVE  Fifo!Wake \/ Fifo!GiveUp \/ UNCHANGED Fifo!vars
<1> USE QueueAssumption
<1>1. UNCHANGED <<stamp, linked, delivered, invalid, front, itemOf>>
  BY DEF DequeueWait, DequeueEnter, DequeueFault
<1>2. Base' = Base
  BY <1>1 DEF Base, Position
<1>3. Contents' = Contents
  BY <1>1, <1>2, SameContents DEF IInv
<1>4. pc \in [Threads -> Locations] /\ items \in Nat /\ items' \in Nat
  BY DEF IInv, SafeInv, TypeOK
<1>5. (Awake <=> InDequeue(c)) /\ (Awake' <=> InDequeue(c)')
  BY DEF OneWorker, Awake
<1>6. S = (IF InDequeue(c) THEN items + 1 ELSE items)
      /\ S' = (IF InDequeue(c)' THEN items' + 1 ELSE items')
  BY <1>4, WokenOf DEF S
<1>7. CASE DequeueWait(c)
  <2>1. pc[c] = "idle" /\ pc'[c] = "deq_lock" /\ items > 0 /\ items' = items - 1
    BY <1>4, <1>7 DEF DequeueWait
  <2>2. ~Awake /\ Awake' /\ S' = S
    BY <1>4, <1>5, <1>6, <2>1
  <2>3. Kept' = Kept
    BY <1>1, <1>3, <2>2 DEF Kept
  <2> QED
    BY <1>1, <2>2, <2>3, FifoSteps
<1>8. CASE DequeueEnter(c) /\ invalid
  <2>1. pc[c] = "deq_lock" /\ pc'[c] = "idle"
    BY <1>4, <1>8 DEF DequeueEnter
  <2>2. Awake /\ ~Awake' /\ Kept' = Kept
    BY <1>1, <1>5, <1>8, <2>1 DEF Kept
  <2> QED
    BY <1>1, <1>8, <2>2, FifoSteps
<1>9. CASE DequeueFault(c) \/ (DequeueEnter(c) /\ ~invalid)
  <2>1. InDequeue(c) /\ InDequeue(c)' /\ items' = items
    BY <1>4, <1>9 DEF DequeueEnter, DequeueFault
  <2>2. (Awake' <=> Awake) /\ S' = S
    BY <1>5, <1>6, <2>1
  <2>3. Kept' = Kept
    BY <1>1, <1>3, <2>2 DEF Kept
  <2> QED
    BY <1>1, <2>2, <2>3, FifoSteps
<1> QED
  BY <1>7, <1>8, <1>9

LEMMA CloserRefines ==
    ASSUME OneWorker, IInv, IInv', View, View', NEW x \in Closers, InvalidateQueue(x)
    PROVE  Fifo!Close \/ UNCHANGED Fifo!vars
<1> USE QueueAssumption
<1>1. invalid' = TRUE /\ UNCHANGED delivered
  BY DEF InvalidateQueue
<1>2. \A c \in Consumers : pc'[c] = pc[c]
  BY DEF InvalidateQueue, IInv, SafeInv, TypeOK
<1>3. (Awake' <=> Awake) /\ Kept' = <<>> /\ (invalid => Kept = <<>>)
  BY <1>1, <1>2 DEF Awake, Kept
<1>4. invalid \in BOOLEAN
  BY DEF IInv, SafeInv, TypeOK
<1> QED
  BY <1>1, <1>3, <1>4, FifoSteps

LEMMA StepRefines ==
    ASSUME OneWorker, IInv, IInv', View, View', [Next]_vars
    PROVE  [Fifo!Next]_(Fifo!vars)
<1>1. ASSUME NEW p \in Producers, Produce(p) PROVE [Fifo!Next]_(Fifo!vars)
  BY <1>1, LinkRefines, ProducerRests DEF Produce, Fifo!Next
<1>2. ASSUME NEW c \in Consumers, Consume(c) PROVE [Fifo!Next]_(Fifo!vars)
  BY <1>2, UnlinkRefines, WorkerRefines DEF Consume, Fifo!Next
<1>3. ASSUME NEW x \in Closers, InvalidateQueue(x) PROVE [Fifo!Next]_(Fifo!vars)
  BY <1>3, CloserRefines DEF Fifo!Next
<1>4. CASE UNCHANGED vars
  <2>1. UNCHANGED <<items, stamp, linked, delivered, invalid, pc, front, itemOf>>
    BY <1>4 DEF vars
  <2>2. Base' = Base /\ S' = S /\ (Awake' <=> Awake)
    BY <2>1 DEF Base, Position, S, Woken, Awake
  <2>3. Contents' = Contents
    BY <2>1, <2>2, SameContents DEF IInv
  <2>4. Kept' = Kept
    BY <2>1, <2>2, <2>3 DEF Kept
  <2> QED
    BY <2>1, <2>2, <2>4, FifoSteps
<1> QED
  BY <1>1, <1>2, <1>3, <1>4 DEF Next

LEMMA InitRefines == ASSUME OneWorker, Init, IInv, View PROVE Fifo!Init
<1>1. S = 0 /\ delivered = <<>> /\ ~invalid
  BY DEF Init, S, Woken
<1>2. \A c \in Consumers : ~InDequeue(c)
  BY DEF Init
<1> QED
  BY <1>1, <1>2 DEF View, Fifo!Init

\* With one worker the queue is a first-in first-out queue that loses an item only
\* when enqueue overwrites it under the woken worker (queue.c:78), for any number
\* of producers, nodes and items and whoever invalidates it when.
THEOREM OneWorkerIsFifo == ASSUME OneWorker PROVE Spec => RefinesFifo
<1>1. IInv => View
  BY ViewOf
<1>2. Init /\ IInv /\ View => Fifo!Init
  BY InitRefines
<1>3. IInv /\ IInv' /\ View /\ View' /\ [Next]_vars => [Fifo!Next]_(Fifo!vars)
  BY StepRefines
<1> QED
  BY <1>1, <1>2, <1>3, OneWorkerInv, PTL DEF Spec, RefinesFifo, Fifo!Spec

=============================================================================
