---------------------------- MODULE CreamProofs ----------------------------
(***************************************************************************)
(* What is proved of the server for any number of workers, connections,    *)
(* keys, values, nodes and descriptors.  First that it uses the map and    *)
(* the queue as their specifications expect (a block given to put is not   *)
(* one the map holds: MemoryInv); so what HashMapProofs and QueueProofs    *)
(* prove holds inside the server, and is used for what follows: its types, *)
(* who owns a descriptor, how often a connection is answered, when a PUT   *)
(* is refused and what a GET sends.                                        *)
(***************************************************************************)
EXTENDS CreamProperties, TLAPS

Types ==
    /\ phase \in [Workers -> Phases]
    /\ request \in [Workers -> Requests \cup {NoRequest}]
    /\ sawFull \in [Workers -> BOOLEAN]
    /\ block = [w \in Workers |-> block[w]]

\* A worker between reading a PUT and storing it.
HoldsBlock(w) == phase[w] \in {"check", "put"}

\* The operation a worker is at is the one it has read.
AtItsHandler ==
    \A w \in Workers :
        /\ HoldsBlock(w) => request[w].op = "put"
        /\ phase[w] = "get" => request[w].op = "get"
        /\ phase[w] = "evict" => request[w].op = "evict"

\* The map holds only allocated blocks, and none that a worker still holds;
\* no two workers hold the same one.
MemoryInv ==
    /\ live \subseteq blocks
    /\ \A w \in Workers : HoldsBlock(w) => block[w] \in Values \cap (blocks \ live)
    /\ \A u, w \in Workers :
          HoldsBlock(u) /\ HoldsBlock(w) /\ block[u] = block[w] => u = w

IInv == Types /\ AtItsHandler /\ MemoryInv

-----------------------------------------------------------------------------

\* The invariant holds when the server starts.
LEMMA InvInit == Init => IInv
  BY DEF Init, IInv, Types, AtItsHandler, MemoryInv, HoldsBlock, Phases, NoRequest,
         Requests, H!Init

\* What a request with an operation on a key carries.
LEMMA RequestKeys ==
    ASSUME NEW r \in Requests \cup {NoRequest}, r.op \in {"put", "get", "evict"}
    PROVE  r.key \in Keys
  BY DEF Requests, NoRequest

\* A step that leaves the memory, the requests and the map's values alone, and
\* takes no worker to a place where it would hold a block or look up a key.
LEMMA QuietStep ==
    ASSUME IInv,
           UNCHANGED <<request, sawFull, live, blocks>>,
           phase' \in [Workers -> Phases],
           block' = [w \in Workers |-> block'[w]],
           \A w \in Workers :
              \/ phase'[w] = phase[w] /\ block'[w] = block[w]
              \/ phase'[w] \notin {"check", "put", "get", "evict"}
    PROVE  IInv'
  BY DEF IInv, Types, AtItsHandler, MemoryInv, HoldsBlock

\* Reading a request: the block of a PUT was free until now.
LEMMA ReadStep ==
    ASSUME IInv, NEW w \in Workers, ReadRequest(w)
    PROVE  IInv'
<1>1. PICK r \in Requests : /\ request' = [request EXCEPT ![w] = r]
                             /\ phase' = [phase EXCEPT ![w] = Handler(r.op)]
                             /\ \/ r.op = "put" /\ \E v \in Values \ blocks :
                                                     /\ block' = [block EXCEPT ![w] = v]
                                                     /\ blocks' = blocks \cup {v}
                                \/ r.op # "put" /\ UNCHANGED <<block, blocks>>
  BY DEF ReadRequest, GoTo, memory
<1>2. UNCHANGED <<live, sawFull>>
  BY DEF ReadRequest, map
<1>3. /\ r.op = "put" => Handler(r.op) = "check"
      /\ r.op # "put" => ~(Handler(r.op) \in {"check", "put"})
      /\ Handler(r.op) = "get" => r.op = "get"
      /\ Handler(r.op) = "evict" => r.op = "evict"
      /\ Handler(r.op) \in Phases
  BY DEF Handler, Phases
<1>4. Types'
  BY <1>1, <1>2, <1>3 DEF IInv, Types
<1>5. AtItsHandler'
  BY <1>1, <1>3 DEF IInv, Types, AtItsHandler, HoldsBlock
<1>6. CASE r.op = "put"
  <2>1. PICK v \in Values \ blocks : /\ block' = [block EXCEPT ![w] = v]
                                     /\ blocks' = blocks \cup {v}
    BY <1>1, <1>6
  <2>2. MemoryInv'
    BY <1>1, <1>2, <1>3, <1>6, <2>1 DEF IInv, Types, MemoryInv, HoldsBlock
  <2> QED  BY <1>4, <1>5, <2>2 DEF IInv
<1>7. CASE r.op # "put"
  <2>1. MemoryInv'
    BY <1>1, <1>2, <1>3, <1>7 DEF IInv, Types, MemoryInv, HoldsBlock
  <2> QED  BY <1>4, <1>5, <2>1 DEF IInv
<1> QED  BY <1>6, <1>7

\* isFull is asked between reading a PUT and storing it.
LEMMA CheckStep ==
    ASSUME IInv, NEW w \in Workers, CheckFull(w)
    PROVE  IInv'
<1>1. /\ phase[w] = "check" /\ phase' = [phase EXCEPT ![w] = "put"]
      /\ sawFull' = [sawFull EXCEPT ![w] = SeesFull]
      /\ SeesFull \in BOOLEAN
      /\ UNCHANGED <<request, block, live, blocks>>
  BY DEF CheckFull, GoTo, SeesFull, H!IsFull, map, memory
<1>2. Types'
  BY <1>1 DEF IInv, Types, Phases
<1>3. AtItsHandler' /\ MemoryInv'
  BY <1>1 DEF IInv, Types, AtItsHandler, MemoryInv, HoldsBlock
<1> QED  BY <1>2, <1>3 DEF IInv

\* put: the block goes to the map, and what the map destroys is freed.
LEMMA PutStep ==
    ASSUME IInv, NEW w \in Workers, PutStores(w)
    PROVE  IInv'
<1>1. /\ phase[w] = "put" /\ phase' = [phase EXCEPT ![w] = "answer"]
      /\ blocks' = blocks \ (live \ live')
      /\ UNCHANGED <<request, sawFull, block>>
  BY DEF PutStores, Respond, GoTo, HandlerFrees
<1>2. PICK gone : live' = (live \ gone) \cup {block[w]}
  BY DEF PutStores, H!Put
<1>3. block[w] \in Values \cap (blocks \ live)
  BY <1>1 DEF IInv, MemoryInv, HoldsBlock
<1>4. Types'
  BY <1>1 DEF IInv, Types, Phases
<1>5. AtItsHandler'
  BY <1>1 DEF IInv, Types, AtItsHandler, HoldsBlock
<1>6. live' \subseteq blocks'
  BY <1>1, <1>2, <1>3 DEF IInv, MemoryInv
<1>7. ASSUME NEW u \in Workers, HoldsBlock(u)'
      PROVE  /\ HoldsBlock(u) /\ u # w
             /\ block'[u] \in Values \cap (blocks' \ live')
  <2>1. u # w /\ HoldsBlock(u)
    BY <1>1, <1>7 DEF IInv, Types, HoldsBlock
  <2>2. block[u] \in Values \cap (blocks \ live) /\ block[u] # block[w]
    BY <1>1, <2>1 DEF IInv, MemoryInv, HoldsBlock
  <2> QED  BY <1>1, <1>2, <2>1, <2>2
<1>8. MemoryInv'
  BY <1>1, <1>6, <1>7 DEF IInv, MemoryInv
<1> QED  BY <1>4, <1>5, <1>8 DEF IInv

\* clear_map: the map and the allocated memory lose the same blocks.
LEMMA ClearStep ==
    ASSUME IInv, NEW w \in Workers, Clears(w)
    PROVE  IInv'
<1>1. /\ phase[w] = "clear" /\ phase' = [phase EXCEPT ![w] = "answer"]
      /\ blocks' = blocks \ (live \ live')
      /\ live' \subseteq live
      /\ UNCHANGED <<request, sawFull, block>>
  BY DEF Clears, Respond, GoTo, H!ClearMap
<1>2. Types'
  BY <1>1 DEF IInv, Types, Phases
<1>3. AtItsHandler'
  BY <1>1 DEF IInv, Types, AtItsHandler, HoldsBlock
<1>4. MemoryInv'
  BY <1>1 DEF IInv, Types, MemoryInv, HoldsBlock
<1> QED  BY <1>2, <1>3, <1>4 DEF IInv

\* The steps of a worker at a response, in get or in delete.
LEMMA AnswerSteps ==
    ASSUME IInv, NEW w \in Workers,
           \/ PutRefused(w) \/ GetBegins(w) \/ GetSearches(w) \/ GetLeaves(w)
           \/ GetReturns(w) \/ EvictDeletes(w) \/ EvictFindsNone(w) \/ EvictReturns(w)
           \/ WriteHeader(w) \/ WriteValue(w) \/ BadFree(w) \/ IOError(w)
    PROVE  IInv'
<1>1. UNCHANGED <<request, sawFull, blocks, live>>
  BY DEF PutRefused, GetBegins, GetSearches, GetLeaves, GetReturns, EvictDeletes,
         EvictFindsNone, EvictReturns, WriteHeader, WriteValue, BadFree, IOError, Exit,
         map, locals, memory, H!GetAnnounce, H!GetLock, H!GetProbe, H!GetRelease,
         H!Return, H!Delete
<1>2. \E place \in Phases \ {"check", "put", "get", "evict"} :
         phase' = [phase EXCEPT ![w] = place] \/ phase' = phase
  BY DEF PutRefused, GetBegins, GetSearches, GetLeaves, GetReturns, EvictDeletes,
         EvictFindsNone, EvictReturns, WriteHeader, WriteValue, BadFree, IOError, Exit,
         GoTo, Respond, AfterHeader, Phases
<1>3. block' = block \/ GetReturns(w)
  BY DEF PutRefused, GetBegins, GetSearches, GetLeaves, EvictDeletes,
         EvictFindsNone, EvictReturns, WriteHeader, WriteValue, BadFree, IOError, Exit,
         locals
<1>4. CASE block' = block
  BY <1>1, <1>2, <1>4, QuietStep DEF IInv, Types
<1>5. CASE GetReturns(w)
  <2>1. /\ phase' = [phase EXCEPT ![w] = "answer"]
        /\ block' = [block EXCEPT ![w] = nodes[found[w]].val]
    BY <1>5 DEF GetReturns, Respond, GoTo
  <2>2. \A u \in Workers : \/ phase'[u] = phase[u] /\ block'[u] = block[u]
                           \/ phase'[u] \notin {"check", "put", "get", "evict"}
    BY <2>1 DEF IInv, Types
  <2>3. phase' \in [Workers -> Phases] /\ block' = [u \in Workers |-> block'[u]]
    BY <2>1 DEF IInv, Types, Phases
  <2> QED  BY <1>1, <2>2, <2>3, QuietStep
<1> QED  BY <1>3, <1>4, <1>5

\* The steps of main, and those of a worker at the queue or at its close.
LEMMA LoopSteps ==
    ASSUME IInv,
           \/ AcceptConn \/ AcceptFails \/ MainEnqueues
           \/ \E w \in Workers : WorkerWaits(w) \/ WorkerTakes(w) \/ CloseConn(w)
    PROVE  IInv'
<1>1. CASE \/ AcceptConn \/ AcceptFails \/ MainEnqueues \/ \E w \in Workers : WorkerWaits(w)
  <2>1. UNCHANGED <<request, sawFull, block, blocks, live, phase>>
    BY <1>1 DEF AcceptConn, AcceptFails, MainEnqueues, WorkerWaits, Exit, locals, map, memory
  <2> QED  BY <2>1, QuietStep DEF IInv, Types
<1>2. ASSUME NEW w \in Workers, WorkerTakes(w) PROVE IInv'
  <2>1. /\ UNCHANGED <<request, sawFull, block, blocks, live>>
        /\ phase' = [phase EXCEPT ![w] = "read"]
    BY <1>2 DEF WorkerTakes, GoTo, map, memory
  <2> QED  BY <2>1, QuietStep DEF IInv, Types, Phases
<1>3. ASSUME NEW w \in Workers, CloseConn(w) PROVE IInv'
  <2>1. /\ UNCHANGED <<blocks, live>>
        /\ phase' = [phase EXCEPT ![w] = "dequeue"]
        /\ request' = [request EXCEPT ![w] = NoRequest]
        /\ sawFull' = [sawFull EXCEPT ![w] = FALSE]
        /\ block' = [block EXCEPT ![w] = NoVal]
    BY <1>3 DEF CloseConn, GoTo, map, memory
  <2>2. Types'
    BY <2>1 DEF IInv, Types, Phases
  <2>3. AtItsHandler' /\ MemoryInv'
    BY <2>1 DEF IInv, Types, AtItsHandler, MemoryInv, HoldsBlock
  <2> QED  BY <2>2, <2>3 DEF IInv
<1> QED  BY <1>1, <1>2, <1>3

\* Every step keeps the invariant.
LEMMA InvStep == IInv /\ [Next]_vars => IInv'
<1> SUFFICES ASSUME IInv, [Next]_vars PROVE IInv'
  OBVIOUS
<1>1. CASE UNCHANGED vars
  BY <1>1 DEF vars, map, locals, memory, IInv, Types, AtItsHandler, MemoryInv, HoldsBlock
<1>2. CASE AcceptConn \/ AcceptFails \/ MainEnqueues
  BY <1>2, LoopSteps
<1>3. ASSUME NEW w \in Workers, WorkerSteps(w) PROVE IInv'
  <2>1. CASE WorkerWaits(w) \/ WorkerTakes(w) \/ CloseConn(w)
    BY <2>1, LoopSteps
  <2>2. CASE ReadRequest(w)
    BY <2>2, ReadStep
  <2>3. CASE MapSteps(w)
    BY <2>3, CheckStep, PutStep, ClearStep, AnswerSteps DEF MapSteps
  <2>4. CASE WriteHeader(w) \/ WriteValue(w) \/ BadFree(w) \/ IOError(w)
    BY <2>4, AnswerSteps
  <2> QED  BY <1>3, <2>1, <2>2, <2>3, <2>4 DEF WorkerSteps
<1> QED  BY <1>1, <1>2, <1>3 DEF Next

-----------------------------------------------------------------------------

\* A worker's step in the map is one of the map's own actions, with arguments
\* the map expects.
LEMMA WorkerMapStep ==
    ASSUME IInv, NEW w \in Workers, MapSteps(w)
    PROVE  H!Read(w) \/ H!Write(w) \/ H!Return(w) \/ UNCHANGED H!vars
<1>1. /\ phase[w] \in {"put", "get", "evict"} /\ request[w].op = phase[w]
            => request[w].key \in Keys
      /\ phase[w] = "put" => request[w].op = "put"
      /\ phase[w] = "get" => request[w].op = "get"
      /\ phase[w] = "evict" => request[w].op = "evict"
  BY RequestKeys DEF IInv, Types, AtItsHandler, HoldsBlock
<1>2. CASE CheckFull(w) \/ PutRefused(w) \/ EvictFindsNone(w)
  BY <1>2 DEF CheckFull, PutRefused, EvictFindsNone, map, H!vars, H!table, H!locks, H!locals
<1>3. CASE PutStores(w)
  <2>1. phase[w] = "put" /\ H!Put(w, request[w].key, block[w], sawFull[w])
    BY <1>3 DEF PutStores
  <2>2. /\ request[w].key \in Keys /\ block[w] \in Values \ live
        /\ sawFull[w] \in BOOLEAN
    BY <1>1, <2>1 DEF IInv, Types, MemoryInv, HoldsBlock
  <2> QED  BY <2>1, <2>2 DEF H!Write
<1>4. CASE GetBegins(w)
  BY <1>1, <1>4 DEF GetBegins, H!Read
<1>5. CASE GetSearches(w) \/ GetLeaves(w)
  BY <1>5 DEF GetSearches, GetLeaves, H!Read
<1>6. CASE GetReturns(w) \/ EvictReturns(w)
  BY <1>6 DEF GetReturns, EvictReturns
<1>7. CASE EvictDeletes(w)
  BY <1>1, <1>7 DEF EvictDeletes, H!Write
<1>8. CASE Clears(w)
  BY <1>8 DEF Clears, H!Write
<1> QED  BY <1>2, <1>3, <1>4, <1>5, <1>6, <1>7, <1>8 DEF MapSteps

\* Every step of the server is a step of the map or leaves it alone.
LEMMA MapStep == IInv /\ [Next]_vars => [H!Next]_(H!vars)
<1> SUFFICES ASSUME IInv, [Next]_vars PROVE [H!Next]_(H!vars)
  OBVIOUS
<1> USE DEF map, H!vars, H!table, H!locks, H!locals
<1>1. CASE UNCHANGED vars
  BY <1>1 DEF vars
<1>2. CASE AcceptConn \/ AcceptFails \/ MainEnqueues
  BY <1>2 DEF AcceptConn, AcceptFails, MainEnqueues, Exit
<1>3. ASSUME NEW w \in Workers, WorkerSteps(w), Running PROVE [H!Next]_(H!vars)
  <2>1. CASE MapSteps(w)
    BY <1>3, <2>1, WorkerMapStep DEF H!Next, Running
  <2>2. CASE ~MapSteps(w)
    BY <1>3, <2>2 DEF WorkerSteps, WorkerWaits, WorkerTakes, ReadRequest, WriteHeader,
         WriteValue, BadFree, CloseConn, IOError, Exit
  <2> QED  BY <2>1, <2>2
<1> QED  BY <1>1, <1>2, <1>3 DEF Next

\* The memory invariant holds in the server: the map never holds a block that
\* was freed, nor one that a worker is still filling for a PUT.
THEOREM MemorySafe == Spec => []MemoryInv
<1>1. IInv => MemoryInv
  BY DEF IInv
<1> QED  BY <1>1, InvInit, InvStep, PTL DEF Spec

\* Whatever clients send and the queue hands out, the workers together behave
\* towards the map as its specification says its users do (cream.c:124-210).
THEOREM ServerUsesMap == Spec => RefinesHashMap
<1>1. Init => H!Init
  BY DEF Init
<1> QED  BY <1>1, InvInit, InvStep, MapStep, PTL DEF Spec, RefinesHashMap, H!Spec

-----------------------------------------------------------------------------
(* What is proved of the queue and of the map holds of them in the server. *)

QP == INSTANCE QueueProofs WITH
    Producers <- {Main}, Consumers <- Workers, Closers <- {}, MaxItems <- MaxConns,
    invalid <- qInvalid, pc <- qPc, size <- qSize, fault <- qFault
HP == INSTANCE HashMapProofs WITH
    Threads <- Workers, invalid <- mInvalid, pc <- mPc, fault <- mFault

LEMMA MapConstants == HP!HashMapAssumption
  BY PartsAssumption DEF HP!HashMapAssumption, H!IsFiniteSet, HP!IsFiniteSet

LEMMA QueueConstants == QP!QueueAssumption
  BY PartsAssumption DEF QP!QueueAssumption, Q!IsFiniteSet, QP!IsFiniteSet

\* Q and QP, H and HP are the same specifications.
LEMMA SameMap ==
    /\ H!Init => HP!Init
    /\ [H!Next]_(H!vars) => [HP!Next]_(HP!vars)
<1> USE DEF H!vars, H!table, H!locks, H!locals, HP!vars, HP!table, HP!locks, HP!locals,
        H!Slots, HP!Slots, H!NoSlot, HP!NoSlot, H!EmptyNode, HP!EmptyNode
<1>1. H!Init => HP!Init
  BY DEF H!Init, HP!Init
<1>2. [H!Next]_(H!vars) => [HP!Next]_(HP!vars)
  BY DEF H!Next, HP!Next, H!Read, HP!Read, H!Write, HP!Write, H!Return, HP!Return,
     H!GetAnnounce, HP!GetAnnounce, H!GetLock, HP!GetLock, H!GetProbe, HP!GetProbe,
     H!GetRelease, HP!GetRelease, H!Put, HP!Put, H!Delete, HP!Delete,
     H!DeleteFreed, HP!DeleteFreed, H!ClearMap, HP!ClearMap,
     H!InvalidateMap, HP!InvalidateMap, H!SlotOf, HP!SlotOf, H!Lookup, HP!Lookup,
     H!Matches, HP!Matches, H!SameKey, HP!SameKey, H!Occupied, HP!Occupied,
     H!Probe, HP!Probe, H!IsFull, HP!IsFull, H!CanPut, HP!CanPut, H!PutSlot, HP!PutSlot,
     H!Displaced, HP!Displaced, H!SizeAfterPut, HP!SizeAfterPut,
     H!WriterMayEnter, HP!WriterMayEnter, H!LastReader, HP!LastReader,
     H!FieldsLockGivenBack, HP!FieldsLockGivenBack
<1> QED  BY <1>1, <1>2

LEMMA SameQueue ==
    /\ Q!Init => QP!Init
    /\ [Q!Next]_(Q!vars) => [QP!Next]_(QP!vars)
<1> USE DEF Q!vars, Q!list, Q!history, QP!vars, QP!list, QP!history, Q!Threads, QP!Threads,
        Q!Items, QP!Items
<1>1. Q!Init => QP!Init
  BY DEF Q!Init, QP!Init
<1>2. [Q!Next]_(Q!vars) => [QP!Next]_(QP!vars)
  BY DEF Q!Next, QP!Next, Q!Produce, QP!Produce, Q!Consume, QP!Consume,
     Q!EnqueueAlloc, QP!EnqueueAlloc, Q!EnqueueEnter, QP!EnqueueEnter,
     Q!EnqueueLink, QP!EnqueueLink, Q!EnqueueFault, QP!EnqueueFault,
     Q!DequeueWait, QP!DequeueWait, Q!DequeueEnter, QP!DequeueEnter,
     Q!DequeueUnlink, QP!DequeueUnlink, Q!DequeueFault, QP!DequeueFault,
     Q!InvalidateQueue, QP!InvalidateQueue, Q!LinkNode, QP!LinkNode,
     Q!UnlinkNode, QP!UnlinkNode, Q!MutexFree, QP!MutexFree,
     Q!BadPointer, QP!BadPointer, Q!SemAvailable, QP!SemAvailable,
     Q!SemPost, QP!SemPost, Q!ReplacesList, QP!ReplacesList, Q!Unlinks, QP!Unlinks,
     Q!RearAfterUnlink, QP!RearAfterUnlink, Q!Refuses, QP!Refuses
<1> QED  BY <1>1, <1>2

\* Every step of the server is a step of the queue or leaves it alone.
LEMMA QueueStep == [Next]_vars => [Q!Next]_(Q!vars)
<1> SUFFICES ASSUME [Next]_vars PROVE [Q!Next]_(Q!vars)
  OBVIOUS
<1> USE DEF queue, Q!vars, Q!list, Q!history
<1>1. CASE UNCHANGED vars
  BY <1>1 DEF vars
<1>2. ASSUME AcceptConn \/ AcceptFails \/ MainEnqueues, Running PROVE [Q!Next]_(Q!vars)
  BY <1>2 DEF AcceptConn, AcceptFails, MainEnqueues, Exit, Q!Next, Q!Produce, Running
<1>3. ASSUME NEW w \in Workers, WorkerSteps(w), Running PROVE [Q!Next]_(Q!vars)
  <2>1. CASE WorkerWaits(w) \/ WorkerTakes(w)
    BY <1>3, <2>1 DEF WorkerWaits, WorkerTakes, Q!Next, Q!Consume, Running
  <2>2. CASE MapSteps(w)
    BY <2>2 DEF MapSteps, CheckFull, PutStores, PutRefused, GetBegins, GetSearches,
         GetLeaves, GetReturns, EvictDeletes, EvictFindsNone, EvictReturns, Clears
  <2>3. CASE ~(WorkerWaits(w) \/ WorkerTakes(w)) /\ ~MapSteps(w)
    BY <1>3, <2>3 DEF WorkerSteps, ReadRequest, WriteHeader, WriteValue, BadFree,
         CloseConn, IOError, Exit
  <2> QED  BY <2>1, <2>2, <2>3
<1> QED  BY <1>1, <1>2, <1>3 DEF Next

\* What is known of the queue and of the map, whatever happens.
Parts ==
    /\ QP!SafeInv /\ QP!ItemsMade
    /\ HP!IInv

LEMMA PartsInit == Init => Parts
  BY SameMap, SameQueue, MapConstants, QueueConstants, HP!InvInit, QP!SafeInit, QP!MadeInit
     DEF Init, Parts

LEMMA PartsStep == IInv /\ Parts /\ [Next]_vars => Parts'
<1> SUFFICES ASSUME IInv, Parts, [Next]_vars PROVE Parts'
  OBVIOUS
<1>1. [QP!Next]_(QP!vars) /\ [HP!Next]_(HP!vars)
  BY QueueStep, MapStep, SameQueue, SameMap
<1>2. QP!SafeInv'
  BY <1>1, QueueConstants, QP!SafeStep DEF Parts
<1>3. QP!ItemsMade'
  BY <1>1, <1>2, QueueConstants, QP!MadeStep DEF Parts
<1>4. HP!IInv'
  BY <1>1, MapConstants, HP!InvStep DEF Parts
<1> QED  BY <1>2, <1>3, <1>4 DEF Parts

LEMMA PartsInv == Spec => [](IInv /\ Parts)
  BY InvInit, InvStep, PartsInit, PartsStep, PTL DEF Spec

\* The threads together behave towards the queue as its specification says, so
\* what is proved of the queue for any number of workers holds in the server.
THEOREM ServerUsesQueue == Spec => Q!Spec
<1>1. Init => Q!Init
  BY DEF Init
<1> QED  BY <1>1, QueueStep, PTL DEF Spec, Q!Spec

\* The part of it that the server's own state depends on.
QueueFacts ==
    /\ made \in 0..MaxConns
    /\ delivered \in Seq(Conns \cup {0})
    /\ \A k \in DOMAIN delivered : delivered[k] \in 1..made
    /\ got \in [Workers -> Conns \cup {0}]
    /\ \A w \in Workers : qPc[w] = "deq_unlink" => got[w] \in 1..made

LEMMA QueueFactsOf == Parts => QueueFacts
  BY DEF Parts, QueueFacts, QP!SafeInv, QP!TypeOK, QP!ItemsMade, QP!Items, Conns

Slots == 0..(Capacity - 1)
MapNode == [key : Keys \cup {NoKey}, val : Values \cup {NoVal}, tombstone : BOOLEAN]

MapFacts ==
    /\ nodes \in [Slots -> MapNode]
    /\ mPc = [w \in Workers |-> mPc[w]] /\ want = [w \in Workers |-> want[w]]
    /\ found \in [Workers -> Slots \cup {Capacity}]
    /\ \A w \in Workers : mPc[w] \in {"get_return", "del_return"} => found[w] \in Slots
    /\ \A s \in Slots : (nodes[s].key # NoKey) <=> nodes[s].val # NoVal
    /\ live \subseteq Values
    /\ ~mInvalid =>
          /\ \A s \in Slots : nodes[s].val # NoVal => nodes[s].val \in live
          /\ \A r, s \in Slots : nodes[r].val = nodes[s].val /\ r # s => nodes[r].val = NoVal

LEMMA MapFactsOf == Parts => MapFacts
<1> SUFFICES ASSUME Parts PROVE MapFacts
  OBVIOUS
<1>1. HP!Types /\ HP!SlotFound /\ HP!SlotsInUse /\ HP!EveryValueHeldOnce
  BY DEF Parts, HP!IInv, HP!TableInv
<1>2. HP!Slots = Slots /\ HP!NoSlot = Capacity /\ HP!Node = MapNode
  BY DEF HP!Slots, HP!NoSlot, HP!Node, Slots, MapNode
<1>3. /\ nodes \in [Slots -> MapNode] /\ live \subseteq Values
      /\ mPc = [w \in Workers |-> mPc[w]] /\ want = [w \in Workers |-> want[w]]
      /\ found \in [Workers -> Slots \cup {Capacity}]
  BY <1>1, <1>2 DEF HP!Types
<1>4. \A w \in Workers : mPc[w] \in {"get_return", "del_return"} => found[w] \in Slots
  BY <1>1, <1>2 DEF HP!SlotFound
<1>5. \A s \in Slots : (nodes[s].key # NoKey) <=> nodes[s].val # NoVal
  BY <1>1, <1>2 DEF HP!SlotsInUse, HP!Occupied
<1>6. ~mInvalid =>
          /\ \A s \in Slots : nodes[s].val # NoVal => nodes[s].val \in live
          /\ \A r, s \in Slots : nodes[r].val = nodes[s].val /\ r # s => nodes[r].val = NoVal
  BY <1>1, <1>2 DEF HP!EveryValueHeldOnce
<1> QED  BY <1>3, <1>4, <1>5, <1>6 DEF MapFacts

-----------------------------------------------------------------------------
(* Types *)

\* The connection a worker's descriptor belongs to, if any.
LEMMA OpenForTyped ==
    ASSUME TypeOK, NEW w \in Workers
    PROVE  OpenFor(w) \in Conns \cup {NoConn}
  BY DEF TypeOK, OpenFor

LEMMA TypeInit == Init => TypeOK
<1> SUFFICES ASSUME Init PROVE TypeOK
  OBVIOUS
<1>1. /\ phase \in [Workers -> Phases] /\ code \in [Workers -> Codes]
      /\ connfd \in [Workers -> Fds \cup {NoFd}]
      /\ request \in [Workers -> Requests \cup {NoRequest}]
      /\ sawFull \in [Workers -> BOOLEAN] /\ block \in [Workers -> Values \cup {NoVal}]
  BY DEF Init, Phases, Codes
<1>2. /\ fdOf \in [Conns -> Fds \cup {NoFd}] /\ owner \in [Fds -> Conns \cup {NoConn}]
      /\ blocks \subseteq Values /\ dead \in {"no", "exit", "free", "overrun"}
      /\ holds \in [Values -> [conn : Conns \cup {NoConn}, key : Keys \cup {NoKey}]]
  BY DEF Init, NoFill
<1>3. /\ answers \in [Conns -> Nat] /\ latest \in [Keys -> Conns \cup {NoConn}]
      /\ disturbed \subseteq Workers /\ overrun \in BOOLEAN
  BY DEF Init
<1> QED  BY <1>1, <1>2, <1>3 DEF TypeOK

\* The steps of main, and those of a worker at the queue or at its close.
LEMMA LoopTypes ==
    ASSUME TypeOK, Parts,
           \/ AcceptConn \/ AcceptFails \/ MainEnqueues
           \/ \E w \in Workers : WorkerWaits(w) \/ WorkerTakes(w) \/ CloseConn(w)
    PROVE  TypeOK'
<1> USE DEF TypeOK
<1>1. CASE AcceptConn
  <2>1. made < MaxConns
    BY <1>1 DEF AcceptConn, Q!EnqueueAlloc
  <2>2. made + 1 \in Conns
    BY <2>1, QueueFactsOf, CreamAssumption DEF QueueFacts, Conns
  <2>3. PICK f \in Fds : /\ fdOf' = [fdOf EXCEPT ![made + 1] = f]
                         /\ owner' = [owner EXCEPT ![f] = made + 1]
    BY <1>1 DEF AcceptConn, FreeFds
  <2> QED  BY <1>1, <2>2, <2>3 DEF AcceptConn, locals, memory, history
<1>2. CASE AcceptFails \/ MainEnqueues \/ \E w \in Workers : WorkerWaits(w)
  BY <1>2 DEF AcceptFails, MainEnqueues, WorkerWaits, Exit, locals, sockets, memory,
              history
<1>3. ASSUME NEW w \in Workers, WorkerTakes(w) PROVE TypeOK'
  <2>1. qPc[w] = "deq_unlink"
    BY <1>3 DEF WorkerTakes, Q!DequeueUnlink
  <2>2. got[w] \in Conns
    BY <2>1, QueueFactsOf, CreamAssumption DEF QueueFacts, Conns
  <2>3. fdOf[got[w]] \in Fds \cup {NoFd}
    BY <2>2
  <2>4. connfd' = [connfd EXCEPT ![w] = fdOf[got[w]]] /\ phase' = [phase EXCEPT ![w] = "read"]
    BY <1>3 DEF WorkerTakes, ItemFd, GoTo
  <2> QED  BY <1>3, <2>3, <2>4 DEF WorkerTakes, Phases, sockets, memory, history
<1>4. ASSUME NEW w \in Workers, CloseConn(w) PROVE TypeOK'
  BY <1>4 DEF CloseConn, GoTo, Phases, Codes, memory, history
<1> QED  BY <1>1, <1>2, <1>3, <1>4

\* The steps of a worker in handle_request.
LEMMA HandlerTypes ==
    ASSUME TypeOK, IInv, Parts, NEW w \in Workers,
           ReadRequest(w) \/ MapSteps(w) \/ WriteHeader(w) \/ WriteValue(w)
              \/ BadFree(w) \/ IOError(w)
    PROVE  TypeOK'
<1> USE DEF TypeOK
<1>1. CASE ReadRequest(w)
  <2>1. PICK r \in Requests :
          /\ request' = [request EXCEPT ![w] = r]
          /\ code' = [code EXCEPT ![w] = Refusal(r.op)]
          /\ phase' = [phase EXCEPT ![w] = Handler(r.op)]
          /\ \/ \E v \in Values \ blocks :
                   /\ block' = [block EXCEPT ![w] = v]
                   /\ blocks' = blocks \cup {v}
                   /\ ReadInto([holds EXCEPT ![v] = [conn |-> OpenFor(w), key |-> r.key]])
             \/ UNCHANGED <<block, blocks>> /\ ReadInto(holds)
             \/ UNCHANGED <<block, blocks, holds, dead, overrun>>
    BY <1>1 DEF ReadRequest, GoTo, memory
  <2>2. r.key \in Keys \cup {NoKey}
    BY DEF Requests
  <2>3. Refusal(r.op) \in Codes
    BY DEF Refusal, Codes
  <2>4. Handler(r.op) \in Phases
    BY DEF Handler, Phases
  <2>5. [conn |-> OpenFor(w), key |-> r.key] \in
           [conn : Conns \cup {NoConn}, key : Keys \cup {NoKey}]
    BY <2>2, OpenForTyped
  <2>6. block' \in [Workers -> Values \cup {NoVal}] /\ blocks' \subseteq Values
    BY <2>1
  <2>7. PICK filled : /\ filled \in [Values -> [conn : Conns \cup {NoConn}, key : Keys \cup {NoKey}]]
                      /\ \/ ReadInto(filled)
                         \/ holds' = filled /\ UNCHANGED <<dead, overrun>>
    BY <2>1, <2>5
  <2>8. /\ holds' \in [Values -> [conn : Conns \cup {NoConn}, key : Keys \cup {NoKey}]]
        /\ dead' \in {"no", "exit", "free", "overrun"} /\ overrun' \in BOOLEAN
    <3>1. NoFill \in [conn : Conns \cup {NoConn}, key : Keys \cup {NoKey}]
      BY DEF NoFill
    <3> QED  BY <2>7, <3>1 DEF ReadInto
  <2> QED  BY <1>1, <2>1, <2>3, <2>4, <2>6, <2>8 DEF ReadRequest, sockets
<1>2. CASE CheckFull(w)
  <2>1. SeesFull \in BOOLEAN
    BY DEF SeesFull, H!IsFull
  <2> QED  BY <1>2, <2>1 DEF CheckFull, Looks, GoTo, Phases, sockets, memory
<1>3. CASE GetReturns(w)
  <2>1. found[w] \in Slots /\ nodes[found[w]].val \in Values \cup {NoVal}
    BY <1>3, MapFactsOf DEF GetReturns, H!Return, MapFacts, MapNode
  <2> QED  BY <1>3, <2>1 DEF GetReturns, Respond, GoTo, Phases, Codes, sockets, memory, history
<1>4. CASE PutStores(w)
  <2>1. block[w] \in Values
    BY <1>4 DEF PutStores, IInv, MemoryInv, HoldsBlock
  <2>2. holds[block[w]].conn \in Conns \cup {NoConn}
    BY <2>1
  <2>3. latest' \in [Keys -> Conns \cup {NoConn}]
    BY <1>4, <2>2 DEF PutStores
  <2> QED  BY <1>4, <2>3 DEF PutStores, Disturbs, Respond, GoTo, Phases, Codes, sockets
<1>5. CASE PutRefused(w) \/ Clears(w)
  BY <1>5 DEF PutRefused, Clears, Disturbs, Respond, GoTo, Phases, Codes, sockets, memory,
              history
<1>6. CASE GetBegins(w) \/ GetSearches(w) \/ GetLeaves(w)
  BY <1>6 DEF GetBegins, GetSearches, GetLeaves, Looks, Respond, GoTo, Phases, Codes,
              locals, sockets, memory, history
<1>7. CASE EvictDeletes(w) \/ EvictFindsNone(w) \/ EvictReturns(w)
  BY <1>7 DEF EvictDeletes, EvictFindsNone, EvictReturns, Disturbs, Respond, GoTo, Phases,
              Codes, locals, sockets, memory, history
<1>8. CASE WriteHeader(w) \/ WriteValue(w) \/ BadFree(w) \/ IOError(w)
  BY <1>8 DEF WriteHeader, WriteValue, BadFree, IOError, Exit, AfterHeader, GoTo, Phases,
              locals, sockets, memory, history
<1> QED  BY <1>1, <1>2, <1>3, <1>4, <1>5, <1>6, <1>7, <1>8 DEF MapSteps

LEMMA TypeStep == TypeOK /\ IInv /\ Parts /\ [Next]_vars => TypeOK'
<1> SUFFICES ASSUME TypeOK, IInv, Parts, [Next]_vars PROVE TypeOK'
  OBVIOUS
<1>1. CASE UNCHANGED vars
  BY <1>1 DEF vars, locals, sockets, memory, history, TypeOK
<1>2. CASE Next
  BY <1>2, LoopTypes, HandlerTypes DEF Next, WorkerSteps
<1> QED  BY <1>1, <1>2

\* What the server adds to the queue and the map stays within its types: among
\* others, a worker's descriptor is always one that accept returned.
THEOREM TypeCorrect == Spec => []TypeOK
  BY TypeInit, TypeStep, PartsInv, PTL DEF Spec

-----------------------------------------------------------------------------
(* Descriptors and answers, as long as each connection is handed out once. *)

Taken == {delivered[k] : k \in DOMAIN delivered}

Answered(w) == phase[w] \in {"value", "close"}

\* Until a worker takes it a connection is open and has no answer.
WaitingOpen ==
    /\ \A c \in 1..made : c \notin Taken => fdOf[c] \in Fds /\ owner[fdOf[c]] = c
    /\ \A c \in Conns : c \notin Taken => answers[c] = 0

\* A worker has the connection it took to itself, open, with one answer as soon
\* as it has written the header.
ServedOpen ==
    /\ \A w \in Workers : Serving(w) =>
          /\ got[w] \in Taken
          /\ connfd[w] \in Fds /\ owner[connfd[w]] = got[w]
          /\ answers[got[w]] = IF Answered(w) THEN 1 ELSE 0
    /\ \A u, w \in Workers : Serving(u) /\ Serving(w) /\ got[u] = got[w] => u = w

\* A connection that was taken and that no worker has any more was answered.
DoneAnswered ==
    \A c \in Taken : (\A w \in Workers : Serving(w) => got[w] # c) => answers[c] = 1

ConnInv == EachHandedOutOnce => WaitingOpen /\ ServedOpen /\ DoneAnswered

Known == IInv /\ Parts /\ TypeOK

LEMMA KnownInv == Spec => []Known
<1>1. IInv /\ Parts /\ TypeOK => Known
  BY DEF Known
<1> QED  BY <1>1, PartsInv, TypeCorrect, PTL

\* dequeue only adds to what it has handed out.
LEMMA HandedOutBefore ==
    ASSUME Known, [Next]_vars, EachHandedOutOnce'
    PROVE  EachHandedOutOnce
<1>1. delivered' = delivered \/ \E w \in Workers : delivered' = Append(delivered, got[w])
  BY QueueStep DEF Q!vars, Q!history, Q!Next, Q!Produce, Q!Consume, Q!EnqueueAlloc,
     Q!EnqueueEnter, Q!EnqueueLink, Q!EnqueueFault, Q!DequeueWait, Q!DequeueEnter,
     Q!DequeueUnlink, Q!DequeueFault, Q!list
<1>2. delivered \in Seq(Conns \cup {0}) /\ \A w \in Workers : got[w] \in Conns \cup {0}
  BY QueueFactsOf DEF Known, QueueFacts
<1>3. CASE delivered' = delivered
  BY <1>3 DEF EachHandedOutOnce
<1>4. ASSUME NEW w \in Workers, delivered' = Append(delivered, got[w]) PROVE EachHandedOutOnce
  <2>1. /\ DOMAIN delivered \subseteq DOMAIN delivered'
        /\ \A i \in DOMAIN delivered : delivered'[i] = delivered[i]
    BY <1>2, <1>4
  <2> QED  BY <2>1 DEF EachHandedOutOnce
<1> QED  BY <1>1, <1>3, <1>4

\* A step that keeps every worker at the connection it serves, on the same side
\* of its answer, and touches no descriptor.
LEMMA ConnKept ==
    ASSUME ConnInv, EachHandedOutOnce,
           UNCHANGED <<delivered, made, fdOf, owner, answers, connfd>>,
           \A w \in Workers : /\ Serving(w)' = Serving(w)
                              /\ Serving(w) => got'[w] = got[w] /\ Answered(w)' = Answered(w)
    PROVE  ConnInv'
<1> USE DEF ConnInv
<1>1. Taken' = Taken
  BY DEF Taken
<1>2. WaitingOpen'
  BY <1>1 DEF WaitingOpen
<1>3. ServedOpen'
  BY <1>1 DEF ServedOpen
<1>4. DoneAnswered'
  BY <1>1 DEF DoneAnswered
<1> QED  BY <1>2, <1>3, <1>4

LEMMA ConnInit == Init => ConnInv
<1> SUFFICES ASSUME Init PROVE ConnInv
  OBVIOUS
<1>1. made = 0 /\ delivered = <<>>
  BY DEF Init, Q!Init
<1>2. Taken = {} /\ 1..made = {}
  BY <1>1 DEF Taken
<1>3. \A w \in Workers : ~Serving(w)
  BY DEF Init, Serving
<1> QED  BY <1>2, <1>3 DEF ConnInv, WaitingOpen, ServedOpen, DoneAnswered, Init

LEMMA ConnAccept ==
    ASSUME Known, ConnInv, EachHandedOutOnce, AcceptConn
    PROVE  ConnInv'
<1> USE DEF ConnInv
<1>1. made \in 0..MaxConns /\ made < MaxConns /\ made' = made + 1
  BY QueueFactsOf DEF Known, QueueFacts, AcceptConn, Q!EnqueueAlloc
<1>2. PICK f \in Fds : /\ owner[f] = NoConn
                       /\ fdOf' = [fdOf EXCEPT ![made + 1] = f]
                       /\ owner' = [owner EXCEPT ![f] = made + 1]
  BY DEF AcceptConn, FreeFds
<1>3. UNCHANGED <<delivered, got, phase, connfd, answers>>
  BY DEF AcceptConn, Q!EnqueueAlloc, locals, history
<1>4. Taken' = Taken /\ Taken \subseteq 1..made
  BY <1>3, QueueFactsOf DEF Taken, Known, QueueFacts
<1>5. made + 1 \in Conns /\ 1..made' = (1..made) \cup {made + 1} /\ 1..made \subseteq Conns
  BY <1>1, CreamAssumption DEF Conns
<1>6. \A c \in 1..made : c # NoConn /\ c # made + 1
  BY <1>1 DEF NoConn
<1>7. fdOf \in [Conns -> Fds \cup {NoFd}] /\ owner \in [Fds -> Conns \cup {NoConn}]
  BY DEF Known, TypeOK
<1>8. WaitingOpen'
  <2>1. ASSUME NEW c \in 1..made', c \notin Taken'
        PROVE  fdOf'[c] \in Fds /\ owner'[fdOf'[c]] = c
    <3>1. CASE c = made + 1
      BY <1>2, <1>5, <1>7, <3>1
    <3>2. CASE c \in 1..made
      <4>1. fdOf[c] \in Fds /\ owner[fdOf[c]] = c
        BY <1>4, <2>1, <3>2 DEF WaitingOpen
      <4>2. fdOf'[c] = fdOf[c] /\ fdOf[c] # f
        BY <1>2, <1>5, <1>6, <1>7, <3>2, <4>1
      <4> QED  BY <1>2, <1>7, <4>1, <4>2
    <3> QED  BY <1>5, <2>1, <3>1, <3>2
  <2> QED  BY <1>3, <1>4, <2>1 DEF WaitingOpen
<1>9. ServedOpen'
  <2>1. ASSUME NEW w \in Workers, Serving(w) PROVE owner'[connfd[w]] = owner[connfd[w]]
    <3>1. connfd[w] \in Fds /\ owner[connfd[w]] = got[w] /\ got[w] \in 1..made
      BY <1>4, <2>1 DEF ServedOpen
    <3>2. connfd[w] # f
      BY <1>2, <1>6, <3>1
    <3> QED  BY <1>2, <1>7, <3>1, <3>2
  <2> QED  BY <1>3, <1>4, <2>1 DEF ServedOpen, Serving, Answered
<1>10. DoneAnswered'
  BY <1>3, <1>4 DEF DoneAnswered, Serving
<1> QED  BY <1>8, <1>9, <1>10

LEMMA ConnTakes ==
    ASSUME Known, ConnInv, EachHandedOutOnce, EachHandedOutOnce', NEW w \in Workers,
           WorkerTakes(w)
    PROVE  ConnInv'
<1> USE DEF ConnInv
<1>1. /\ phase[w] = "dequeue" /\ phase' = [phase EXCEPT ![w] = "read"]
      /\ delivered' = Append(delivered, got[w])
      /\ connfd' = [connfd EXCEPT ![w] = fdOf[got[w]]]
      /\ UNCHANGED <<made, got, fdOf, owner, answers>>
  BY DEF WorkerTakes, Q!DequeueUnlink, GoTo, ItemFd, sockets, history
<1>2. delivered \in Seq(Conns \cup {0}) /\ got[w] \in 1..made /\ 1..made \subseteq Conns
  BY QueueFactsOf, CreamAssumption
     DEF Known, QueueFacts, Conns, WorkerTakes, Q!DequeueUnlink
<1>3. Taken' = Taken \cup {got[w]}
  <2>1. got[w] \in Conns \cup {0}
    BY <1>2
  <2>2. /\ DOMAIN delivered' = DOMAIN delivered \cup {Len(delivered) + 1}
        /\ delivered'[Len(delivered) + 1] = got[w]
        /\ \A i \in DOMAIN delivered : delivered'[i] = delivered[i]
    BY <1>1, <1>2, <2>1
  <2> QED  BY <2>2 DEF Taken
<1>4. got[w] \notin Taken
  <2>1. SUFFICES ASSUME NEW i \in DOMAIN delivered, delivered[i] = got[w] PROVE FALSE
    BY DEF Taken
  <2>2. /\ i \in DOMAIN delivered' /\ Len(delivered) + 1 \in DOMAIN delivered'
        /\ delivered'[i] = delivered'[Len(delivered) + 1] /\ i # Len(delivered) + 1
    BY <1>1, <1>2, <2>1
  <2> QED  BY <2>2 DEF EachHandedOutOnce
<1>5. phase \in [Workers -> Phases] /\ connfd \in [Workers -> Fds \cup {NoFd}]
  BY DEF Known, TypeOK
<1>6. \A u \in Workers : Serving(u)' <=> Serving(u) \/ u = w
  BY <1>1, <1>5 DEF Serving
<1>7. WaitingOpen'
  BY <1>1, <1>3 DEF WaitingOpen
<1>8. /\ got[w] \in Taken' /\ connfd'[w] \in Fds /\ owner'[connfd'[w]] = got'[w]
      /\ answers'[got'[w]] = 0 /\ ~Answered(w)'
  BY <1>1, <1>2, <1>3, <1>4, <1>5 DEF WaitingOpen, Answered
<1>9. \A u \in Workers \ {w} : Serving(u) =>
         /\ got[u] \in Taken /\ got[u] # got[w]
         /\ connfd'[u] = connfd[u] /\ (Answered(u)' <=> Answered(u))
  BY <1>1, <1>4, <1>5 DEF ServedOpen, Answered
<1>10. ServedOpen'
  BY <1>1, <1>3, <1>6, <1>8, <1>9 DEF ServedOpen
<1>11. DoneAnswered'
  BY <1>1, <1>3, <1>6 DEF DoneAnswered
<1> QED  BY <1>7, <1>10, <1>11

LEMMA ConnClose ==
    ASSUME Known, ConnInv, EachHandedOutOnce, NEW w \in Workers, CloseConn(w)
    PROVE  ConnInv'
<1> USE DEF ConnInv
<1>1. /\ phase[w] = "close" /\ phase' = [phase EXCEPT ![w] = "dequeue"]
      /\ owner' = [owner EXCEPT ![connfd[w]] = NoConn]
      /\ connfd' = [connfd EXCEPT ![w] = NoFd]
      /\ UNCHANGED <<delivered, made, got, fdOf, answers>>
  BY DEF CloseConn, GoTo, queue, history
<1>2. /\ phase \in [Workers -> Phases] /\ connfd \in [Workers -> Fds \cup {NoFd}]
      /\ owner \in [Fds -> Conns \cup {NoConn}]
  BY DEF Known, TypeOK
<1>3. Taken' = Taken
  BY <1>1 DEF Taken
<1>4. /\ got[w] \in Taken /\ connfd[w] \in Fds /\ owner[connfd[w]] = got[w]
      /\ answers[got[w]] = 1
  BY <1>1 DEF ServedOpen, Serving, Answered
<1>5. \A u \in Workers : Serving(u)' <=> Serving(u) /\ u # w
  BY <1>1, <1>2 DEF Serving
<1>6. \A f \in Fds : owner[f] # got[w] => owner'[f] = owner[f]
  BY <1>1, <1>2, <1>4
<1>7. WaitingOpen'
  BY <1>1, <1>3, <1>4, <1>6 DEF WaitingOpen
<1>8. \A u \in Workers \ {w} : Serving(u) =>
         /\ got[u] # got[w]
         /\ connfd'[u] = connfd[u] /\ (Answered(u)' <=> Answered(u))
  BY <1>1, <1>2 DEF ServedOpen, Serving, Answered
<1>9. ServedOpen'
  BY <1>1, <1>3, <1>5, <1>6, <1>8 DEF ServedOpen
<1>10. DoneAnswered'
  BY <1>1, <1>3, <1>4, <1>5 DEF DoneAnswered
<1> QED  BY <1>7, <1>9, <1>10

LEMMA ConnHeader ==
    ASSUME Known, ConnInv, EachHandedOutOnce, NEW w \in Workers, WriteHeader(w)
    PROVE  ConnInv'
<1> USE DEF ConnInv
<1>1. /\ phase[w] = "answer"
      /\ phase' = [phase EXCEPT ![w] = AfterHeader(w)] /\ AfterHeader(w) \in {"value", "close"}
      /\ answers' = [answers EXCEPT ![OpenFor(w)] = @ + 1]
      /\ UNCHANGED <<delivered, made, got, fdOf, owner, connfd>>
  BY DEF WriteHeader, GoTo, AfterHeader, queue, locals, sockets
<1>2. phase \in [Workers -> Phases]
  BY DEF Known, TypeOK
<1>3. Taken' = Taken
  BY <1>1 DEF Taken
<1>4. got[w] \in Taken /\ OpenFor(w) = got[w] /\ answers[got[w]] = 0
  BY <1>1 DEF ServedOpen, Serving, Answered, OpenFor
<1>5. Taken \subseteq Conns
  BY QueueFactsOf, CreamAssumption DEF Known, QueueFacts, Taken, Conns
<1>6. \A c \in Conns : answers'[c] = IF c = got[w] THEN 1 ELSE answers[c]
  BY <1>1, <1>4 DEF Known, TypeOK
<1>7. \A u \in Workers : Serving(u)' <=> Serving(u)
  BY <1>1, <1>2 DEF Serving
<1>8. Serving(w) /\ Answered(w)'
  BY <1>1, <1>2 DEF Serving, Answered
<1>9. \A u \in Workers \ {w} : (Answered(u)' <=> Answered(u)) /\ (Serving(u) => got[u] # got[w])
  BY <1>1, <1>2, <1>8 DEF Answered, ServedOpen
<1>10. WaitingOpen'
  BY <1>1, <1>3, <1>4, <1>6 DEF WaitingOpen
<1>11. ServedOpen'
  BY <1>1, <1>3, <1>4, <1>5, <1>6, <1>7, <1>8, <1>9 DEF ServedOpen
<1>12. DoneAnswered'
  BY <1>1, <1>3, <1>5, <1>6, <1>7 DEF DoneAnswered
<1> QED  BY <1>10, <1>11, <1>12

\* The steps of handle_request before the header, and the value after it.
LEMMA ConnHandles ==
    ASSUME Known, ConnInv, EachHandedOutOnce, NEW w \in Workers,
           ReadRequest(w) \/ MapSteps(w) \/ WriteValue(w) \/ BadFree(w) \/ IOError(w)
    PROVE  ConnInv'
<1>1. UNCHANGED <<delivered, made, got, fdOf, owner, answers, connfd>>
  BY DEF ReadRequest, MapSteps, WriteValue, BadFree, IOError, Exit, CheckFull, PutStores,
         PutRefused, GetBegins, GetSearches, GetLeaves, GetReturns, EvictDeletes,
         EvictFindsNone, EvictReturns, Clears, queue, locals, sockets, history
<1>2. phase \in [Workers -> Phases]
  BY DEF Known, TypeOK
<1>3. \/ phase' = phase
      \/ /\ phase[w] \notin {"dequeue", "value", "close"}
         /\ \E place \in Phases \ {"dequeue", "value", "close"} :
               phase' = [phase EXCEPT ![w] = place]
      \/ phase[w] = "value" /\ phase' = [phase EXCEPT ![w] = "close"]
  <2>1. CASE ReadRequest(w)
    <3>1. PICK r \in Requests : phase' = [phase EXCEPT ![w] = Handler(r.op)]
      BY <2>1 DEF ReadRequest, GoTo
    <3>2. Handler(r.op) \in Phases \ {"dequeue", "value", "close"}
      BY DEF Handler, Phases
    <3> QED  BY <2>1, <3>1, <3>2 DEF ReadRequest
  <2>2. CASE CheckFull(w) \/ PutStores(w) \/ PutRefused(w) \/ Clears(w)
    BY <2>2 DEF CheckFull, PutStores, PutRefused, Clears, Respond, GoTo, Phases
  <2>3. CASE GetBegins(w) \/ GetSearches(w) \/ GetLeaves(w) \/ GetReturns(w)
    BY <2>3 DEF GetBegins, GetSearches, GetLeaves, GetReturns, Respond, GoTo, Phases
  <2>4. CASE EvictDeletes(w) \/ EvictFindsNone(w) \/ EvictReturns(w)
    BY <2>4 DEF EvictDeletes, EvictFindsNone, EvictReturns, Respond, GoTo, Phases
  <2>5. CASE WriteValue(w) \/ BadFree(w) \/ IOError(w)
    BY <2>5 DEF WriteValue, BadFree, IOError, Exit, GoTo
  <2> QED  BY <2>1, <2>2, <2>3, <2>4, <2>5 DEF MapSteps
<1>4. \A u \in Workers : Serving(u)' = Serving(u) /\ Answered(u)' = Answered(u)
  BY <1>2, <1>3 DEF Serving, Answered, Phases
<1> QED  BY <1>1, <1>4, ConnKept

\* The steps at the queue that hand nothing out, and the end of the process.
LEMMA ConnWaits ==
    ASSUME Known, ConnInv, EachHandedOutOnce,
           \/ AcceptFails \/ MainEnqueues \/ UNCHANGED vars
           \/ \E w \in Workers : WorkerWaits(w)
    PROVE  ConnInv'
<1>1. UNCHANGED <<delivered, made, fdOf, owner, answers, connfd, phase>>
  BY DEF AcceptFails, MainEnqueues, WorkerWaits, Exit, vars, queue, locals, sockets, history,
         Q!EnqueueEnter, Q!EnqueueLink, Q!EnqueueFault, Q!DequeueWait, Q!DequeueEnter,
         Q!DequeueFault, Q!history
<1>2. \A u \in Workers : Serving(u) => got'[u] = got[u]
  <2>1. CASE AcceptFails \/ MainEnqueues \/ UNCHANGED vars
    BY <2>1 DEF AcceptFails, MainEnqueues, Exit, vars, queue,
         Q!EnqueueEnter, Q!EnqueueLink, Q!EnqueueFault
  <2>2. ASSUME NEW w \in Workers, WorkerWaits(w), NEW u \in Workers, Serving(u)
        PROVE  got'[u] = got[u]
    <3>1. got' = got \/ got' = [got EXCEPT ![w] = itemOf[front]]
      BY <2>2 DEF WorkerWaits, Q!DequeueWait, Q!DequeueEnter, Q!DequeueFault
    <3>2. u # w
      BY <2>2 DEF WorkerWaits, Serving
    <3>3. got \in [Workers -> Conns \cup {0}]
      BY QueueFactsOf DEF Known, QueueFacts
    <3> QED  BY <3>1, <3>2, <3>3
  <2> QED  BY <2>1, <2>2
<1> QED  BY <1>1, <1>2, ConnKept DEF Serving, Answered

LEMMA ConnStep == Known /\ ConnInv /\ [Next]_vars => ConnInv'
<1> SUFFICES ASSUME Known, ConnInv, [Next]_vars, EachHandedOutOnce' PROVE ConnInv'
  BY DEF ConnInv
<1>1. EachHandedOutOnce
  BY HandedOutBefore
<1>2. CASE AcceptConn \/ AcceptFails \/ MainEnqueues \/ UNCHANGED vars
  BY <1>1, <1>2, ConnAccept, ConnWaits
<1>3. ASSUME NEW w \in Workers, WorkerSteps(w) PROVE ConnInv'
  BY <1>1, <1>3, ConnWaits, ConnTakes, ConnHandles, ConnHeader, ConnClose DEF WorkerSteps
<1> QED  BY <1>2, <1>3 DEF Next

LEMMA ConnInvAlways == Spec => []ConnInv
  BY KnownInv, ConnInit, ConnStep, PTL DEF Spec

\* As long as the queue has handed no connection out twice, a worker never reads
\* from, writes to or closes a connection that is not the one it took, although
\* accept gives closed descriptors out again at once.
THEOREM DescriptorsOwned == Spec => []WorkersOwnTheirDescriptors
<1>1. ConnInv => WorkersOwnTheirDescriptors
  BY DEF ConnInv, ServedOpen, WorkersOwnTheirDescriptors, OpenFor
<1> QED  BY <1>1, ConnInvAlways, PTL

\* As long as the queue has handed no connection out twice (OneWorkerServer: one
\* worker never lets it; two may, queue.c:107), no connection gets two response
\* headers, and none is closed without one.
THEOREM AnsweredOnce == Spec => []OneAnswerEach
<1>1. ASSUME Known, ConnInv PROVE OneAnswerEach
  <2> SUFFICES ASSUME EachHandedOutOnce, NEW c \in Conns
               PROVE  /\ answers[c] <= 1
                      /\ c <= made /\ (\A f \in Fds : owner[f] # c) => answers[c] = 1
    BY DEF OneAnswerEach
  <2> USE <1>1 DEF ConnInv
  <2>1. answers[c] \in {0, 1}
    BY DEF WaitingOpen, ServedOpen, DoneAnswered
  <2>2. ASSUME c <= made, \A f \in Fds : owner[f] # c PROVE answers[c] = 1
    <3>1. c \in 1..made
      BY <2>2, QueueFactsOf, CreamAssumption DEF Known, QueueFacts, Conns
    <3>2. c \in Taken
      BY <2>2, <3>1 DEF WaitingOpen
    <3>3. \A w \in Workers : Serving(w) => got[w] # c
      BY <2>2 DEF ServedOpen
    <3> QED  BY <3>2, <3>3 DEF DoneAnswered
  <2> QED  BY <2>1, <2>2
<1>2. Known /\ ConnInv => OneAnswerEach
  BY <1>1
<1> QED  BY <1>2, KnownInv, ConnInvAlways, PTL

-----------------------------------------------------------------------------
(* One worker *)

\* With one worker the queue hands each connection out once, so what is claimed
\* of descriptors and answers needs no condition.
THEOREM OneWorkerServer ==
    ASSUME \A u, w \in Workers : u = w
    PROVE  Spec => [](/\ EachHandedOutOnce
                      /\ \A w \in Workers : Serving(w) => OpenFor(w) = got[w]
                      /\ \A c \in Conns :
                            /\ answers[c] <= 1
                            /\ c <= made /\ (\A f \in Fds : owner[f] # c) => answers[c] = 1)
<1>1. QP!OneWorker
  BY DEF QP!OneWorker
<1>2. Spec => QP!Spec
  <2>1. Init => QP!Init
    BY SameQueue DEF Init
  <2>2. [Next]_vars => [QP!Next]_(QP!vars)
    BY QueueStep, SameQueue
  <2> QED  BY <2>1, <2>2, PTL DEF Spec, QP!Spec
<1>3. QP!Spec => []QP!InOrder
  BY <1>1, QueueConstants, QP!DeliveryOrder
<1>4. ASSUME QP!InOrder, QP!SafeInv, QP!ItemsMade PROVE EachHandedOutOnce
  <2> SUFFICES ASSUME NEW i \in DOMAIN delivered, NEW j \in DOMAIN delivered,
                      delivered[i] = delivered[j], i # j
               PROVE  FALSE
    BY DEF EachHandedOutOnce
  <2>1. i \in Nat /\ j \in Nat
    BY <1>4 DEF QP!SafeInv, QP!TypeOK
  <2>2. delivered[i] \in Conns
    BY <1>4, CreamAssumption DEF QP!SafeInv, QP!TypeOK, QP!ItemsMade, Conns
  <2>3. stamp[delivered[i]] \in Nat
    BY <1>4, <2>2 DEF QP!SafeInv, QP!TypeOK, QP!Items, Conns
  <2>4. i < j \/ j < i
    BY <2>1
  <2>5. stamp[delivered[i]] < stamp[delivered[j]] \/ stamp[delivered[j]] < stamp[delivered[i]]
    BY <1>4, <2>4 DEF QP!InOrder
  <2> QED  BY <2>3, <2>5
<1>5. Known /\ QP!InOrder => EachHandedOutOnce
  BY <1>4 DEF Known, Parts
<1>6. EachHandedOutOnce /\ WorkersOwnTheirDescriptors /\ OneAnswerEach =>
         /\ EachHandedOutOnce
         /\ \A w \in Workers : Serving(w) => OpenFor(w) = got[w]
         /\ \A c \in Conns :
               /\ answers[c] <= 1
               /\ c <= made /\ (\A f \in Fds : owner[f] # c) => answers[c] = 1
  BY DEF WorkersOwnTheirDescriptors, OneAnswerEach
<1> QED  BY <1>2, <1>3, <1>5, <1>6, KnownInv, DescriptorsOwned, AnsweredOnce, PTL

-----------------------------------------------------------------------------
(* A refused PUT *)

\* What isFull told a worker still holds, unless another one wrote the map since.
RaceInv ==
    \A w \in Workers :
        phase[w] = "put" /\ ~sawFull[w] /\ w \notin disturbed => ~H!IsFull

LEMMA RaceStep == Known /\ RaceInv /\ [Next]_vars => RaceInv'
<1> SUFFICES ASSUME Known, RaceInv, [Next]_vars PROVE RaceInv'
  OBVIOUS
<1> USE DEF RaceInv
<1>1. phase \in [Workers -> Phases] /\ sawFull \in [Workers -> BOOLEAN]
  BY DEF Known, TypeOK
<1>2. ASSUME UNCHANGED <<nodes, disturbed>>,
             \A u \in Workers : phase'[u] = "put" => phase[u] = "put" /\ sawFull'[u] = sawFull[u]
      PROVE  RaceInv'
  BY <1>2 DEF H!IsFull, H!Occupied
<1>3. ASSUME NEW w \in Workers, CheckFull(w) PROVE RaceInv'
  <2>1. /\ phase' = [phase EXCEPT ![w] = "put"]
        /\ sawFull' = [sawFull EXCEPT ![w] = H!IsFull]
        /\ disturbed' = disturbed \ {w} /\ nodes' = nodes
    BY <1>3 DEF CheckFull, GoTo, Looks, SeesFull, map
  <2>2. H!IsFull' = H!IsFull
    BY <2>1 DEF H!IsFull, H!Occupied
  <2> QED  BY <1>1, <2>1, <2>2
<1>4. ASSUME NEW w \in Workers, PutStores(w) \/ EvictDeletes(w) \/ Clears(w) PROVE RaceInv'
  <2>1. disturbed' = disturbed \cup (Workers \ {w}) /\ phase'[w] # "put"
    BY <1>1, <1>4 DEF PutStores, EvictDeletes, Clears, Disturbs, Respond, GoTo
  <2> QED  BY <2>1
<1>5. ASSUME NEW w \in Workers, GetBegins(w) PROVE RaceInv'
  <2>1. /\ phase' = [phase EXCEPT ![w] = "getting"] /\ disturbed' = disturbed \ {w}
        /\ UNCHANGED <<nodes, sawFull>>
    BY <1>5 DEF GetBegins, GoTo, Looks, locals, H!GetAnnounce, H!table
  <2>2. H!IsFull' = H!IsFull
    BY <2>1 DEF H!IsFull, H!Occupied
  <2> QED  BY <1>1, <2>1, <2>2
<1>6. ASSUME NEW w \in Workers, ReadRequest(w) PROVE RaceInv'
  <2>1. PICK r \in Requests : phase' = [phase EXCEPT ![w] = Handler(r.op)]
    BY <1>6 DEF ReadRequest, GoTo
  <2>2. Handler(r.op) # "put"
    BY DEF Handler
  <2> QED  BY <1>1, <1>2, <1>6, <2>1, <2>2 DEF ReadRequest, map, history
<1>7. ASSUME NEW w \in Workers, CloseConn(w) \/ WorkerTakes(w) PROVE RaceInv'
  BY <1>1, <1>2, <1>7 DEF CloseConn, WorkerTakes, GoTo, map, history
<1>8. ASSUME NEW w \in Workers,
             PutRefused(w) \/ GetSearches(w) \/ GetLeaves(w) \/ GetReturns(w)
               \/ EvictFindsNone(w) \/ EvictReturns(w)
      PROVE  RaceInv'
  <2>1. UNCHANGED <<nodes, disturbed, sawFull>>
    BY <1>8 DEF PutRefused, GetSearches, GetLeaves, GetReturns, EvictFindsNone, EvictReturns,
         map, locals, history, H!GetLock, H!GetProbe, H!GetRelease, H!Return, H!table
  <2>2. phase' = phase \/ phase' = [phase EXCEPT ![w] = "answer"]
    BY <1>8 DEF PutRefused, GetSearches, GetLeaves, GetReturns, EvictFindsNone, EvictReturns,
         Respond, GoTo
  <2> QED  BY <1>1, <1>2, <2>1, <2>2
<1>9. ASSUME NEW w \in Workers,
             WriteHeader(w) \/ WriteValue(w) \/ BadFree(w) \/ IOError(w) \/ WorkerWaits(w)
      PROVE  RaceInv'
  <2>1. UNCHANGED <<nodes, disturbed, sawFull>>
    BY <1>9 DEF WriteHeader, WriteValue, BadFree, IOError, Exit, WorkerWaits, map, locals,
         history
  <2>2. \E place \in {"value", "close"} :
           phase' = phase \/ phase' = [phase EXCEPT ![w] = place]
    BY <1>9 DEF WriteHeader, WriteValue, BadFree, IOError, Exit, WorkerWaits, AfterHeader,
         GoTo
  <2> QED  BY <1>1, <1>2, <2>1, <2>2
<1>10. CASE AcceptConn \/ AcceptFails \/ MainEnqueues \/ UNCHANGED vars
  BY <1>2, <1>10 DEF AcceptConn, AcceptFails, MainEnqueues, Exit, vars, map, locals, history
<1> QED  BY <1>3, <1>4, <1>5, <1>6, <1>7, <1>8, <1>9, <1>10
         DEF Next, WorkerSteps, MapSteps

\* A PUT that asks for nothing impossible is turned down only because another
\* worker filled the map between isFull and put (cream.c:124-142).
THEOREM RefusalNeedsRace == Spec => RefusedOnlyInRace
<1>1. Init => RaceInv
  BY DEF Init, RaceInv
<1>2. RaceInv => (\A w \in Workers : PutRefused(w) => w \in disturbed)
  BY DEF RaceInv, PutRefused
<1>3. RaceInv /\ [Next]_vars => [\A w \in Workers : PutRefused(w) => w \in disturbed]_vars
  BY <1>2
<1> QED  BY <1>1, <1>3, RaceStep, KnownInv, PTL DEF Spec, RefusedOnlyInRace

-----------------------------------------------------------------------------
(* What a GET sends *)

\* What follows holds until a key or a value is longer than the block it is read
\* into.  A block in the map, or on its way there, was filled by a PUT of its own
\* key.  No worker invalidates the map.
TagInv ==
    /\ ~mInvalid
    /\ \A w \in Workers : HoldsBlock(w) => holds[block[w]].key = request[w].key
    /\ \A s \in Slots : nodes[s].key # NoKey => holds[nodes[s].val].key = nodes[s].key

ReadPlaces == {"get_lock", "get_probe", "get_release", "get_return"}

\* A worker in get looks for the key of its request.
InGet ==
    \A w \in Workers :
        /\ phase[w] = "getting" => /\ request[w].op = "get"
                                   /\ want[w] = request[w].key
                                   /\ mPc[w] \in ReadPlaces
        /\ phase[w] = "evicting" => request[w].op = "evict"
        /\ phase[w] = "clear" => request[w].op = "clear"
        /\ phase[w] \notin {"getting", "evicting"} => mPc[w] = "idle"

\* What an undisturbed GET has found is still there, until its last byte is sent.
FindsItsKey(w) ==
    phase[w] = "getting" /\ mPc[w] \in {"get_release", "get_return"} /\ found[w] \in Slots
        => nodes[found[w]].key = request[w].key /\ request[w].key \in Keys
SendsItsKey(w) ==
    phase[w] \in {"answer", "value"} /\ request[w].op = "get" /\ code[w] = "OK"
        => block[w] \in live /\ holds[block[w]].key = request[w].key
FoundStays == \A w \in Workers : w \notin disturbed => FindsItsKey(w) /\ SendsItsKey(w)

GetInv == TagInv /\ InGet /\ FoundStays

\* What was overrun stays overrun.
LEMMA OverrunBefore ==
    ASSUME Known, [Next]_vars, ~overrun'
    PROVE  ~overrun
<1>1. CASE \E w \in Workers : ReadRequest(w)
  BY <1>1 DEF ReadRequest, ReadInto
<1>2. CASE ~\E w \in Workers : ReadRequest(w)
  BY <1>2, ZenonT(60) DEF Next, AcceptConn, AcceptFails, MainEnqueues, Exit, vars, WorkerSteps,
     MapSteps, WorkerWaits, WorkerTakes, CloseConn, WriteHeader, WriteValue, BadFree, IOError,
     CheckFull, PutStores, PutRefused, GetBegins, GetSearches, GetLeaves, GetReturns,
     EvictDeletes, EvictFindsNone, EvictReturns, Clears, history
<1> QED  BY <1>1, <1>2

\* No block of the map is ever written by a step that overruns none: it writes at
\* most to blocks that were not allocated.
LEMMA BlocksKept ==
    ASSUME Known, [Next]_vars, ~overrun', NEW v \in blocks
    PROVE  holds'[v] = holds[v]
<1>1. CASE \E w \in Workers : ReadRequest(w)
  <2>1. holds' = holds \/ (\E u \in Values \ blocks : \E fill : holds' = [holds EXCEPT ![u] = fill])
    BY <1>1 DEF ReadRequest, ReadInto, memory
  <2> QED  BY <2>1 DEF Known, TypeOK
<1>2. CASE ~\E w \in Workers : ReadRequest(w)
  <2>1. holds' = holds
    BY <1>2 DEF Next, AcceptConn, AcceptFails, MainEnqueues, Exit, vars, WorkerSteps, MapSteps,
       WorkerWaits, WorkerTakes, CloseConn, WriteHeader, WriteValue, BadFree, IOError,
       CheckFull, PutStores, PutRefused, GetBegins, GetSearches, GetLeaves, GetReturns,
       EvictDeletes, EvictFindsNone, EvictReturns, Clears, memory
  <2> QED  BY <2>1
<1> QED  BY <1>1, <1>2

\* The values of the map are blocks that are allocated.
LEMMA MapBlocks ==
    ASSUME Known, TagInv, NEW s \in Slots, nodes[s].key # NoKey
    PROVE  nodes[s].val \in live /\ nodes[s].val \in blocks
  BY MapFactsOf DEF Known, MapFacts, TagInv, IInv, MemoryInv

\* A step that leaves the table and the map's values alone, and moves no worker
\* but w.
LEMMA QuietGet ==
    ASSUME Known, GetInv, [Next]_vars, ~overrun', NEW w \in Workers,
           UNCHANGED <<nodes, live, mInvalid>>, disturbed \ {w} \subseteq disturbed',
           \A u \in Workers \ {w} :
              /\ phase'[u] = phase[u] /\ request'[u] = request[u] /\ block'[u] = block[u]
              /\ code'[u] = code[u] /\ mPc'[u] = mPc[u] /\ want'[u] = want[u]
              /\ found'[u] = found[u],
           HoldsBlock(w)' => holds'[block'[w]].key = request'[w].key,
           phase'[w] = "getting" => /\ request'[w].op = "get"
                                    /\ want'[w] = request'[w].key
                                    /\ mPc'[w] \in ReadPlaces,
           phase'[w] = "evicting" => request'[w].op = "evict",
           phase'[w] = "clear" => request'[w].op = "clear",
           phase'[w] \notin {"getting", "evicting"} => mPc'[w] = "idle",
           w \notin disturbed' => FindsItsKey(w)' /\ SendsItsKey(w)'
    PROVE  GetInv'
<1>1. TagInv'
  <2>1. \A u \in Workers \ {w} : HoldsBlock(u)' => holds'[block'[u]].key = request'[u].key
    <3> SUFFICES ASSUME NEW u \in Workers \ {w}, HoldsBlock(u)'
                 PROVE  holds'[block'[u]].key = request'[u].key
      OBVIOUS
    <3>1. HoldsBlock(u)
      BY DEF HoldsBlock
    <3>2. block[u] \in blocks
      BY <3>1 DEF Known, IInv, MemoryInv
    <3> QED  BY <3>1, <3>2, BlocksKept DEF GetInv, TagInv
  <2>2. \A s \in Slots : nodes[s].key # NoKey => holds'[nodes[s].val].key = nodes[s].key
    BY MapBlocks, BlocksKept DEF GetInv, TagInv
  <2> QED  BY <2>1, <2>2 DEF GetInv, TagInv
<1>2. InGet'
  BY DEF GetInv, InGet
<1>3. FoundStays'
  <2> SUFFICES ASSUME NEW u \in Workers, u \notin disturbed', u # w
               PROVE  FindsItsKey(u)' /\ SendsItsKey(u)'
    BY DEF FoundStays
  <2>1. FindsItsKey(u) /\ SendsItsKey(u)
    BY DEF GetInv, FoundStays
  <2>2. FindsItsKey(u)'
    BY <2>1 DEF FindsItsKey
  <2>3. SendsItsKey(u)'
    <3>1. block[u] \in live => holds'[block[u]] = holds[block[u]]
      BY BlocksKept DEF Known, IInv, MemoryInv
    <3> QED  BY <2>1, <3>1 DEF SendsItsKey
  <2> QED  BY <2>2, <2>3
<1> QED  BY <1>1, <1>2, <1>3 DEF GetInv

\* The steps that change nothing of what GetInv speaks of.
LEMMA KeptGet ==
    ASSUME Known, GetInv,
           \/ AcceptConn \/ AcceptFails \/ MainEnqueues \/ UNCHANGED vars
           \/ \E w \in Workers : WorkerWaits(w) \/ IOError(w) \/ BadFree(w)
    PROVE  GetInv'
<1>1. UNCHANGED <<nodes, live, mInvalid, mPc, want, found, phase, request, block, code, holds,
                  disturbed>>
  BY DEF AcceptConn, AcceptFails, MainEnqueues, WorkerWaits, IOError, BadFree, Exit, vars,
         map, locals, memory, history
<1>2. TagInv'
  BY <1>1 DEF GetInv, TagInv, HoldsBlock
<1>3. InGet'
  BY <1>1 DEF GetInv, InGet
<1>4. FoundStays'
  BY <1>1 DEF GetInv, FoundStays, FindsItsKey, SendsItsKey
<1> QED  BY <1>2, <1>3, <1>4 DEF GetInv

\* Where get and delete come to, if anywhere.
LEMMA SlotOfKey ==
    ASSUME NEW k, H!SlotOf(k) \in Slots
    PROVE  H!SlotOf(k) \in H!Lookup(k) /\ nodes[H!SlotOf(k)].key = k
<1>1. Capacity \notin Slots
  BY PartsAssumption DEF Slots
<1>2. H!Lookup(k) # {}
  BY <1>1 DEF H!SlotOf, H!NoSlot
<1>3. H!SlotOf(k) \in H!Lookup(k)
  BY <1>2 DEF H!SlotOf
<1> QED  BY <1>3 DEF H!Lookup, H!Matches, H!SameKey

\* The steps of a worker outside the map.
LEMMA OutsideGet ==
    ASSUME Known, GetInv, Next, ~overrun', NEW w \in Workers,
           WorkerTakes(w) \/ CloseConn(w) \/ WriteHeader(w) \/ WriteValue(w)
    PROVE  GetInv'
<1>1. /\ phase \in [Workers -> Phases] /\ code \in [Workers -> Codes]
      /\ request \in [Workers -> Requests \cup {NoRequest}]
      /\ block \in [Workers -> Values \cup {NoVal}]
  BY DEF Known, TypeOK
<1>2. UNCHANGED <<nodes, live, mInvalid, mPc, want, found, holds, disturbed>>
  BY DEF WorkerTakes, CloseConn, WriteHeader, WriteValue, map, memory, history
<1>3. mPc[w] = "idle"
  BY DEF GetInv, InGet, WorkerTakes, CloseConn, WriteHeader, WriteValue
<1>4. CASE WorkerTakes(w)
  <2>1. phase' = [phase EXCEPT ![w] = "read"] /\ UNCHANGED <<request, block, code>>
    BY <1>4 DEF WorkerTakes, GoTo
  <2> QED  BY <1>1, <1>2, <1>3, <2>1, QuietGet DEF HoldsBlock, FindsItsKey, SendsItsKey
<1>5. CASE CloseConn(w)
  <2>1. /\ phase' = [phase EXCEPT ![w] = "dequeue"]
        /\ request' = [request EXCEPT ![w] = NoRequest]
        /\ block' = [block EXCEPT ![w] = NoVal] /\ code' = [code EXCEPT ![w] = "none"]
    BY <1>5 DEF CloseConn, GoTo
  <2> QED  BY <1>1, <1>2, <1>3, <2>1, QuietGet DEF HoldsBlock, FindsItsKey, SendsItsKey
<1>6. CASE WriteHeader(w) \/ WriteValue(w)
  <2>1. /\ phase[w] \in {"answer", "value"}
        /\ \E place \in {"value", "close"} : phase' = [phase EXCEPT ![w] = place]
        /\ UNCHANGED <<request, block, code>>
    BY <1>6 DEF WriteHeader, WriteValue, AfterHeader, GoTo, locals
  <2>2. w \notin disturbed' => SendsItsKey(w)'
    BY <1>1, <1>2, <2>1 DEF SendsItsKey, GetInv, FoundStays
  <2> QED  BY <1>1, <1>2, <1>3, <2>1, <2>2, QuietGet DEF HoldsBlock, FindsItsKey
<1> QED  BY <1>4, <1>5, <1>6

LEMMA ReadGet ==
    ASSUME Known, GetInv, Next, ~overrun', NEW w \in Workers, ReadRequest(w)
    PROVE  GetInv'
<1>1. /\ phase \in [Workers -> Phases] /\ code \in [Workers -> Codes]
      /\ request \in [Workers -> Requests \cup {NoRequest}]
      /\ block \in [Workers -> Values \cup {NoVal}] /\ holds = [v \in Values |-> holds[v]]
  BY DEF Known, TypeOK
<1>2. UNCHANGED <<nodes, live, mInvalid, mPc, want, found, disturbed>>
  BY DEF ReadRequest, map
<1>3. mPc[w] = "idle"
  BY DEF GetInv, InGet, ReadRequest
<1>4. PICK r \in Requests :
          /\ request' = [request EXCEPT ![w] = r]
          /\ code' = [code EXCEPT ![w] = Refusal(r.op)]
          /\ phase' = [phase EXCEPT ![w] = Handler(r.op)]
          /\ \/ /\ r.op = "put"
                /\ \E v \in Values :
                      /\ block' = [block EXCEPT ![w] = v]
                      /\ holds' = [holds EXCEPT ![v] = [conn |-> OpenFor(w), key |-> r.key]]
             \/ r.op # "put" /\ UNCHANGED block
  BY DEF ReadRequest, ReadInto, GoTo, memory
<1>5. /\ Handler(r.op) \notin {"getting", "evicting", "value"}
      /\ Handler(r.op) \in {"check", "put"} => r.op = "put"
      /\ Handler(r.op) = "clear" => r.op = "clear"
      /\ Handler(r.op) = "answer" => r.op # "get"
  BY DEF Handler
<1>6. request'[w] = r /\ phase'[w] = Handler(r.op)
  BY <1>1, <1>4
<1>7. HoldsBlock(w)' => holds'[block'[w]].key = request'[w].key
  BY <1>1, <1>4, <1>5, <1>6 DEF HoldsBlock
<1>8. FindsItsKey(w)' /\ SendsItsKey(w)'
  BY <1>5, <1>6 DEF FindsItsKey, SendsItsKey
<1>9. \A u \in Workers \ {w} :
          /\ phase'[u] = phase[u] /\ request'[u] = request[u] /\ block'[u] = block[u]
          /\ code'[u] = code[u]
  BY <1>1, <1>4
<1> QED  BY <1>2, <1>3, <1>5, <1>6, <1>7, <1>8, <1>9, QuietGet

\* The steps of a worker that only reads the map.
LEMMA ReaderGet ==
    ASSUME Known, GetInv, Next, ~overrun', NEW w \in Workers,
           \/ CheckFull(w) \/ PutRefused(w) \/ GetBegins(w) \/ GetSearches(w)
           \/ GetLeaves(w) \/ GetReturns(w) \/ EvictFindsNone(w) \/ EvictReturns(w)
    PROVE  GetInv'
<1>1. /\ phase \in [Workers -> Phases] /\ code \in [Workers -> Codes]
      /\ request \in [Workers -> Requests \cup {NoRequest}]
      /\ block \in [Workers -> Values \cup {NoVal}]
  BY DEF Known, TypeOK
<1>2. UNCHANGED <<nodes, live, mInvalid, request, holds>> /\ disturbed \ {w} \subseteq disturbed'
  BY DEF CheckFull, PutRefused, GetBegins, GetSearches, GetLeaves, GetReturns, EvictFindsNone,
         EvictReturns, map, locals, memory, history, Looks, H!GetAnnounce, H!GetLock,
         H!GetProbe, H!GetRelease, H!Return, H!table
<1>3. /\ mPc = [u \in Workers |-> mPc[u]] /\ want = [u \in Workers |-> want[u]]
      /\ found \in [Workers -> Slots \cup {Capacity}]
  BY MapFactsOf DEF Known, MapFacts
<1>4. Capacity \notin Slots
  BY PartsAssumption DEF Slots
<1>5. CASE CheckFull(w)
  <2>1. /\ phase[w] = "check" /\ phase' = [phase EXCEPT ![w] = "put"]
        /\ UNCHANGED <<block, code, mPc, want, found>>
    BY <1>5 DEF CheckFull, GoTo, map
  <2>2. mPc[w] = "idle" /\ holds[block[w]].key = request[w].key
    BY <2>1 DEF GetInv, InGet, TagInv, HoldsBlock
  <2> QED  BY <1>1, <1>2, <2>1, <2>2, QuietGet DEF FindsItsKey, SendsItsKey
<1>6. CASE PutRefused(w) \/ EvictFindsNone(w)
  <2>1. /\ phase[w] \in {"put", "evict"} /\ phase' = [phase EXCEPT ![w] = "answer"]
        /\ \E c \in Codes : code' = [code EXCEPT ![w] = c]
        /\ UNCHANGED <<block, mPc, want, found>>
    BY <1>6 DEF PutRefused, EvictFindsNone, Respond, GoTo, map, Codes
  <2>2. mPc[w] = "idle" /\ request[w].op # "get"
    BY <2>1 DEF GetInv, InGet, Known, IInv, AtItsHandler, HoldsBlock
  <2> QED  BY <1>1, <1>2, <2>1, <2>2, QuietGet DEF HoldsBlock, FindsItsKey, SendsItsKey
<1>7. CASE GetBegins(w)
  <2>1. /\ phase[w] = "get" /\ phase' = [phase EXCEPT ![w] = "getting"]
        /\ want' = [want EXCEPT ![w] = request[w].key]
        /\ \E place \in {"get_lock", "get_probe"} : mPc' = [mPc EXCEPT ![w] = place]
        /\ UNCHANGED <<block, code, found>>
    BY <1>7 DEF GetBegins, H!GetAnnounce, GoTo, locals
  <2>2. request[w].op = "get"
    BY <2>1 DEF Known, IInv, AtItsHandler
  <2> QED  BY <1>1, <1>2, <1>3, <2>1, <2>2, QuietGet
           DEF HoldsBlock, FindsItsKey, SendsItsKey, ReadPlaces
<1>8. CASE GetSearches(w)
  <2>1. phase[w] = "getting" /\ UNCHANGED <<phase, block, code, want, disturbed>>
    BY <1>8 DEF GetSearches, H!GetLock, H!GetProbe, locals, history
  <2>2. request[w].op = "get" /\ want[w] = request[w].key /\ request[w].key \in Keys
    BY <1>1, <2>1, RequestKeys DEF GetInv, InGet
  <2>3. CASE H!GetLock(w)
    BY <1>1, <1>2, <1>3, <2>1, <2>2, <2>3, QuietGet
    DEF HoldsBlock, FindsItsKey, SendsItsKey, ReadPlaces, H!GetLock
  <2>4. CASE H!GetProbe(w)
    <3>1. /\ mPc' = [mPc EXCEPT ![w] = "get_release"]
          /\ found' = [found EXCEPT ![w] = H!SlotOf(want[w])]
      BY <2>4 DEF H!GetProbe, GetInv, TagInv
    <3>2. found'[w] \in Slots => nodes[found'[w]].key = request[w].key
      BY <1>3, <2>2, <3>1, SlotOfKey
    <3>3. FindsItsKey(w)' /\ SendsItsKey(w)'
      BY <1>2, <2>1, <2>2, <3>2 DEF FindsItsKey, SendsItsKey
    <3> QED  BY <1>1, <1>2, <1>3, <2>1, <2>2, <3>1, <3>3, QuietGet DEF HoldsBlock, ReadPlaces
  <2> QED  BY <1>8, <2>3, <2>4 DEF GetSearches
<1>9. CASE GetLeaves(w)
  <2>1. /\ phase[w] = "getting" /\ mPc[w] = "get_release"
        /\ UNCHANGED <<block, found, disturbed>>
    BY <1>9 DEF GetLeaves, H!GetRelease, history
  <2>2. request[w].op = "get" /\ want[w] = request[w].key
    BY <2>1 DEF GetInv, InGet
  <2>3. CASE found[w] = H!NoSlot
    <3>1. /\ phase' = [phase EXCEPT ![w] = "answer"] /\ code' = [code EXCEPT ![w] = "NOT_FOUND"]
          /\ mPc' = [mPc EXCEPT ![w] = "idle"] /\ want' = [want EXCEPT ![w] = NoKey]
      BY <1>9, <2>3 DEF GetLeaves, H!GetRelease, Respond, GoTo
    <3> QED  BY <1>1, <1>2, <1>3, <2>1, <2>2, <3>1, QuietGet
             DEF HoldsBlock, FindsItsKey, SendsItsKey
  <2>4. CASE found[w] # H!NoSlot
    <3>1. UNCHANGED <<phase, code, want>> /\ mPc' = [mPc EXCEPT ![w] = "get_return"]
      BY <1>9, <2>4 DEF GetLeaves, H!GetRelease
    <3>2. w \notin disturbed' => FindsItsKey(w)' /\ SendsItsKey(w)'
      BY <1>2, <1>3, <2>1, <3>1 DEF GetInv, FoundStays, FindsItsKey, SendsItsKey
    <3> QED  BY <1>1, <1>2, <1>3, <2>1, <2>2, <3>1, <3>2, QuietGet DEF HoldsBlock, ReadPlaces
  <2> QED  BY <2>3, <2>4
<1>10. CASE GetReturns(w)
  <2>1. /\ phase[w] = "getting" /\ phase' = [phase EXCEPT ![w] = "answer"]
        /\ mPc[w] \in {"get_return", "del_return"}
        /\ mPc' = [mPc EXCEPT ![w] = "idle"] /\ want' = [want EXCEPT ![w] = NoKey]
        /\ found' = [found EXCEPT ![w] = Capacity]
        /\ block' = [block EXCEPT ![w] = nodes[found[w]].val]
        /\ code' = [code EXCEPT ![w] = IF nodes[found[w]].val = NoVal THEN "NOT_FOUND" ELSE "OK"]
        /\ UNCHANGED disturbed
    BY <1>10 DEF GetReturns, H!Return, H!NoSlot, Respond, GoTo, history
  <2>2. mPc[w] = "get_return" /\ found[w] \in Slots
    BY <2>1, MapFactsOf DEF GetInv, InGet, ReadPlaces, Known, MapFacts
  <2>3. FindsItsKey(w) => nodes[found[w]].key = request[w].key /\ request[w].key # NoKey
    BY <2>1, <2>2, PartsAssumption DEF FindsItsKey
  <2>4. FindsItsKey(w) => /\ nodes[found[w]].val \in live
                          /\ holds[nodes[found[w]].val].key = request[w].key
    BY <2>2, <2>3, MapBlocks DEF GetInv, TagInv
  <2>5. w \notin disturbed => FindsItsKey(w)
    BY DEF GetInv, FoundStays
  <2>6. w \notin disturbed' => FindsItsKey(w)' /\ SendsItsKey(w)'
    BY <1>1, <1>2, <2>1, <2>4, <2>5 DEF FindsItsKey, SendsItsKey
  <2> QED  BY <1>1, <1>2, <1>3, <2>1, <2>6, QuietGet DEF HoldsBlock
<1>11. CASE EvictReturns(w)
  <2>1. /\ phase[w] = "evicting" /\ phase' = [phase EXCEPT ![w] = "answer"]
        /\ mPc' = [mPc EXCEPT ![w] = "idle"] /\ want' = [want EXCEPT ![w] = NoKey]
        /\ found' = [found EXCEPT ![w] = Capacity]
        /\ code' = [code EXCEPT ![w] = "OK"] /\ UNCHANGED block
    BY <1>11 DEF EvictReturns, H!Return, H!NoSlot, Respond, GoTo
  <2>2. request[w].op = "evict"
    BY <2>1 DEF GetInv, InGet
  <2> QED  BY <1>1, <1>2, <1>3, <2>1, <2>2, QuietGet
           DEF HoldsBlock, FindsItsKey, SendsItsKey
<1> QED  BY <1>5, <1>6, <1>7, <1>8, <1>9, <1>10, <1>11

\* The table after a put.
LEMMA PutTable ==
    ASSUME Known, NEW w \in Workers, PutStores(w)
    PROVE  /\ request[w].op = "put" /\ request[w].key \in Keys
           /\ block[w] \in Values \cap (blocks \ live)
           /\ H!PutSlot(request[w].key) \in Slots
           /\ \A s \in Slots :
                 /\ nodes'[s].tombstone = nodes[s].tombstone
                 /\ nodes'[s].key = IF s = H!PutSlot(request[w].key) THEN request[w].key
                                    ELSE nodes[s].key
                 /\ nodes'[s].val = IF s = H!PutSlot(request[w].key) THEN block[w]
                                    ELSE nodes[s].val
<1> DEFINE k == request[w].key
<1>1. phase[w] = "put" /\ nodes' = [nodes EXCEPT ![H!PutSlot(k)].key = k, ![H!PutSlot(k)].val = block[w]]
  BY DEF PutStores, H!Put
<1>2. request[w].op = "put" /\ block[w] \in Values \cap (blocks \ live)
  BY <1>1 DEF Known, IInv, AtItsHandler, MemoryInv, HoldsBlock
<1>3. request[w] \in Requests \cup {NoRequest}
  BY DEF Known, TypeOK
<1>4. k \in Keys
  BY <1>2, <1>3, RequestKeys
<1>5. HP!PutSlot(k) \in HP!Slots
  BY <1>4, MapConstants, HP!PutSlotInTable DEF Known, Parts, HP!IInv
<1>6. H!PutSlot(k) \in Slots
  BY <1>5 DEF HP!PutSlot, H!PutSlot, HP!Slots, Slots, H!Slots, HP!IsFull, H!IsFull,
     HP!Occupied, H!Occupied, HP!CanPut, H!CanPut, HP!Probe, H!Probe
<1>7. nodes \in [Slots -> MapNode]
  BY MapFactsOf DEF Known, MapFacts
<1> HIDE DEF k
<1>8. \A s \in Slots :
                 /\ nodes'[s].tombstone = nodes[s].tombstone
                 /\ nodes'[s].key = IF s = H!PutSlot(k) THEN k ELSE nodes[s].key
                 /\ nodes'[s].val = IF s = H!PutSlot(k) THEN block[w] ELSE nodes[s].val
  BY <1>1, <1>6, <1>7 DEF MapNode
<1> QED  BY <1>2, <1>4, <1>6, <1>8 DEF k

\* delete marks an entry of the table as deleted and keeps its key and value.
LEMMA DeleteTable ==
    ASSUME Known, NEW w \in Workers, EvictDeletes(w)
    PROVE  /\ \A s \in Slots : nodes'[s].key = nodes[s].key /\ nodes'[s].val = nodes[s].val
           /\ \E s \in Slots : nodes'[s].tombstone
<1> DEFINE d == H!SlotOf(request[w].key)
<1>1. nodes' = [nodes EXCEPT ![d].tombstone = TRUE] /\ d # H!NoSlot
  BY DEF EvictDeletes, H!Delete
<1>2. d \in Slots
  BY <1>1 DEF H!SlotOf, H!Lookup, H!Slots, Slots
<1>3. nodes \in [Slots -> MapNode]
  BY MapFactsOf DEF Known, MapFacts
<1> QED  BY <1>1, <1>2, <1>3 DEF MapNode

\* The steps of a worker that writes the map.
LEMMA WriterGet ==
    ASSUME Known, GetInv, Next, NEW w \in Workers,
           PutStores(w) \/ EvictDeletes(w) \/ Clears(w)
    PROVE  GetInv'
<1>1. phase \in [Workers -> Phases] /\ mPc = [u \in Workers |-> mPc[u]]
  BY MapFactsOf DEF Known, TypeOK, MapFacts
<1>2. /\ disturbed' = disturbed \cup (Workers \ {w})
      /\ UNCHANGED <<holds, request, block, want, mInvalid>>
  BY DEF PutStores, EvictDeletes, Clears, Disturbs, locals, memory, H!Put, H!Delete,
         H!ClearMap, H!locals
<1>3. /\ phase[w] \in {"put", "evict", "clear"}
      /\ \/ phase' = [phase EXCEPT ![w] = "answer"] /\ mPc' = mPc
         \/ /\ phase[w] = "evict" /\ phase' = [phase EXCEPT ![w] = "evicting"]
            /\ mPc' = [mPc EXCEPT ![w] = "del_return"]
  BY DEF PutStores, EvictDeletes, Clears, Respond, GoTo, H!Put, H!Delete, H!ClearMap, H!locals
<1>4. /\ mPc[w] = "idle" /\ request[w].op \in {"put", "evict", "clear"}
      /\ phase[w] = "evict" => request[w].op = "evict"
  BY <1>3 DEF GetInv, InGet, Known, IInv, AtItsHandler, HoldsBlock
<1>5. \A u \in Workers \ {w} : phase'[u] = phase[u] /\ mPc'[u] = mPc[u]
  BY <1>1, <1>3
<1>6. phase'[w] \in {"answer", "evicting"} /\ (phase'[w] = "evicting" => phase[w] = "evict")
      /\ (phase'[w] = "answer" => mPc'[w] = "idle")
  BY <1>1, <1>3, <1>4
<1>7. InGet'
  BY <1>2, <1>4, <1>5, <1>6 DEF GetInv, InGet
<1>8. FoundStays'
  BY <1>2, <1>4, <1>6 DEF FoundStays, FindsItsKey, SendsItsKey
<1>9. \A u \in Workers : HoldsBlock(u)' => HoldsBlock(u)
  BY <1>5, <1>6 DEF HoldsBlock
<1>10. \A s \in Slots : nodes'[s].key # NoKey => holds[nodes'[s].val].key = nodes'[s].key
  <2>1. CASE PutStores(w)
    <3>1. HoldsBlock(w)
      BY <2>1 DEF PutStores, HoldsBlock
    <3> QED  BY <2>1, <3>1, PutTable DEF GetInv, TagInv
  <2>2. CASE EvictDeletes(w)
    BY <2>2, DeleteTable DEF GetInv, TagInv
  <2>3. CASE Clears(w)
    BY <2>3 DEF Clears, H!ClearMap, H!EmptyNode, H!Slots, Slots
  <2> QED  BY <2>1, <2>2, <2>3
<1>11. TagInv'
  BY <1>2, <1>9, <1>10 DEF GetInv, TagInv
<1> QED  BY <1>7, <1>8, <1>11 DEF GetInv

LEMMA GetInit == Init => GetInv
  BY DEF Init, H!Init, H!EmptyNode, H!Slots, Slots, GetInv, TagInv, InGet, FoundStays,
         FindsItsKey, SendsItsKey, HoldsBlock

LEMMA GetStep == Known /\ (~overrun => GetInv) /\ [Next]_vars => (~overrun => GetInv)'
<1> SUFFICES ASSUME Known, ~overrun => GetInv, [Next]_vars, ~overrun' PROVE GetInv'
  OBVIOUS
<1>0. GetInv
  BY OverrunBefore
<1>1. CASE UNCHANGED vars
  BY <1>0, <1>1, KeptGet
<1>2. CASE Next
  BY <1>0, <1>2, KeptGet, OutsideGet, ReadGet, ReaderGet, WriterGet DEF Next, WorkerSteps, MapSteps
<1> QED  BY <1>1, <1>2

LEMMA GetInvAlways == Spec => [](~overrun => GetInv)
  BY KnownInv, GetInit, GetStep, PTL DEF Spec

-----------------------------------------------------------------------------
(* The last PUT of a key *)

NoneDeleted == \A s \in Slots : ~nodes[s].tombstone

\* A search comes to one slot at most.
LEMMA LookupUnique ==
    ASSUME NEW k, NEW s \in H!Lookup(k)
    PROVE  H!SlotOf(k) = s
<1>1. H!Slots \subseteq Nat
  BY PartsAssumption DEF H!Slots
<1>2. ASSUME NEW r \in H!Lookup(k) PROVE r = s
  <2>1. PICK i \in H!Slots : /\ s = H!Probe(k, i) /\ H!Matches(s, k)
                             /\ \A j \in 0..(i - 1) : ~H!Matches(H!Probe(k, j), k)
    BY DEF H!Lookup
  <2>2. PICK n \in H!Slots : /\ r = H!Probe(k, n) /\ H!Matches(r, k)
                             /\ \A j \in 0..(n - 1) : ~H!Matches(H!Probe(k, j), k)
    BY DEF H!Lookup
  <2>3. ~(i < n) /\ ~(n < i)
    <3>1. i < n => i \in 0..(n - 1)
      BY <1>1
    <3>2. n < i => n \in 0..(i - 1)
      BY <1>1
    <3> QED  BY <2>1, <2>2, <3>1, <3>2
  <2>4. i = n
    BY <1>1, <2>3
  <2> QED  BY <2>1, <2>2, <2>4
<1>3. H!SlotOf(k) \in H!Lookup(k)
  BY DEF H!SlotOf
<1> QED  BY <1>2, <1>3

\* Every slot of a probe is a slot of the table.
LEMMA ProbeInTable ==
    ASSUME NEW k \in Keys, NEW i \in Slots
    PROVE  H!Probe(k, i) \in Slots
<1>1. Capacity \in Nat \ {0} /\ Hash[k] \in 0..(Capacity - 1) /\ i \in 0..(Capacity - 1)
  BY PartsAssumption DEF Slots
<1> QED  BY <1>1 DEF H!Probe, Slots

\* Where put writes: the slot its key hashes to if the table is full, otherwise the
\* first one that is free or has its key.
LEMMA PutSlotIs ==
    ASSUME Known, NoneDeleted, NEW k \in Keys
    PROVE  \E i \in Slots :
              /\ H!PutSlot(k) = H!Probe(k, i)
              /\ \A j \in 0..(i - 1) : H!Occupied(H!Probe(k, j)) /\ ~H!SameKey(H!Probe(k, j), k)
              /\ \/ H!IsFull /\ i = 0
                 \/ ~H!Occupied(H!PutSlot(k)) \/ H!SameKey(H!PutSlot(k), k)
<1>1. Capacity \in Nat \ {0} /\ Hash[k] \in 0..(Capacity - 1) /\ Slots \subseteq Nat
  BY PartsAssumption DEF Slots
<1>2. CASE H!IsFull
  <2>1. H!PutSlot(k) = H!Probe(k, 0) /\ 0 \in Slots /\ 0..(0 - 1) = {}
    BY <1>1, <1>2 DEF H!PutSlot, H!Probe, Slots
  <2> QED  BY <1>2, <2>1
<1>3. CASE ~H!IsFull
  <2> DEFINE stops == {i \in Slots : H!CanPut(H!Probe(k, i), k)}
             first == CHOOSE i \in stops : \A j \in stops : i <= j
  <2>1. PICK s \in Slots : ~H!Occupied(s)
    BY <1>3 DEF H!IsFull, H!Slots, Slots
  <2>2. PICK n \in Slots : H!Probe(k, n) = s
    <3>1. \E i \in HP!Slots : HP!Probe(k, i) = s
      BY MapConstants, HP!ProbeReaches DEF HP!Slots, Slots
    <3> QED  BY <3>1 DEF HP!Slots, Slots, HP!Probe, H!Probe
  <2>3. n \in stops
    BY <2>1, <2>2 DEF H!CanPut
  <2>4. first \in stops /\ \A j \in stops : first <= j
    <3>1. \E i \in stops : \A j \in stops : i <= j
      BY <2>3, MapConstants, HP!LeastSlot DEF HP!Slots, Slots
    <3> HIDE DEF stops
    <3> QED  BY <3>1
  <2>5. H!PutSlot(k) = H!Probe(k, first)
    BY <1>3 DEF H!PutSlot, H!Slots, Slots
  <2> HIDE DEF first
  <2>6. first \in Slots /\ H!CanPut(H!PutSlot(k), k)
    BY <2>4, <2>5
  <2>7. ~nodes[H!PutSlot(k)].tombstone
    BY <2>5, <2>6, ProbeInTable DEF NoneDeleted
  <2>8. ~H!Occupied(H!PutSlot(k)) \/ H!SameKey(H!PutSlot(k), k)
    BY <2>6, <2>7 DEF H!CanPut, H!SameKey
  <2>9. ASSUME NEW j \in 0..(first - 1)
        PROVE  H!Occupied(H!Probe(k, j)) /\ ~H!SameKey(H!Probe(k, j), k)
    <3>1. j \in Slots /\ ~(first <= j)
      BY <1>1, <2>6 DEF Slots
    <3>2. ~H!CanPut(H!Probe(k, j), k)
      BY <2>4, <3>1
    <3> QED  BY <3>2 DEF H!CanPut, H!SameKey
  <2> QED  BY <2>5, <2>6, <2>8, <2>9
<1> QED  BY <1>2, <1>3

\* While nothing is deleted, the last PUT of a key is what a search comes to.
LatestInv ==
    NoneDeleted => \A k \in Keys : latest[k] # NoConn =>
        /\ H!SlotOf(k) \in Slots
        /\ holds[nodes[H!SlotOf(k)].val].conn = latest[k]

LEMMA LookupUniqueLater == (\A k : \A s \in H!Lookup(k) : H!SlotOf(k) = s)'
<1>1. \A k : \A s \in H!Lookup(k) : H!SlotOf(k) = s
  BY LookupUnique
<1> QED  BY <1>1, PTL

LEMMA LatestPut ==
    ASSUME Known, TagInv, LatestInv, NEW w \in Workers, PutStores(w), NoneDeleted',
           NEW k, k = request[w].key, NEW p, p = H!PutSlot(k)
    PROVE  LatestInv'
<1>1. /\ k \in Keys /\ p \in Slots /\ block[w] \in Values \cap (blocks \ live)
      /\ \A s \in Slots :
            /\ nodes'[s].tombstone = nodes[s].tombstone
            /\ nodes'[s].key = IF s = p THEN k ELSE nodes[s].key
            /\ nodes'[s].val = IF s = p THEN block[w] ELSE nodes[s].val
  BY PutTable
<1>2. /\ live' = (live \ {nodes[p].val}) \cup {block[w]}
      /\ \A q \in Keys : latest'[q] =
            IF q = k THEN holds[block[w]].conn
            ELSE IF latest[q] \in {holds[v].conn : v \in live \ live'} THEN NoConn
            ELSE latest[q]
      /\ holds' = holds
  BY DEF PutStores, H!Put, H!Displaced
<1>3. NoneDeleted
  BY <1>1 DEF NoneDeleted
<1>4. H!Slots = Slots /\ k # NoKey
  BY <1>1, PartsAssumption DEF H!Slots, Slots
<1>5. PICK i \in Slots :
         /\ p = H!Probe(k, i)
         /\ \A j \in 0..(i - 1) : H!Occupied(H!Probe(k, j)) /\ ~H!SameKey(H!Probe(k, j), k)
         /\ \/ H!IsFull /\ i = 0
            \/ ~H!Occupied(p) \/ H!SameKey(p, k)
  BY <1>1, <1>3, PutSlotIs
<1>6. \A n \in Slots : 0..(n - 1) \subseteq Slots
  BY PartsAssumption DEF Slots
<1>7. H!SlotOf(k)' = p
  <2>1. ASSUME NEW j \in 0..(i - 1)
        PROVE  H!Occupied(H!Probe(k, j))' /\ ~H!Matches(H!Probe(k, j), k)'
    <3>1. H!Probe(k, j) \in Slots
      BY <1>1, <1>6, ProbeInTable
    <3>2. i # 0
      BY PartsAssumption DEF Slots
    <3>3. H!Probe(k, j) # p
      BY <1>5, <3>2
    <3> QED  BY <1>1, <1>5, <3>1, <3>3 DEF H!Occupied, H!Matches, H!SameKey, H!Probe
  <2>2. H!Matches(p, k)'
    BY <1>1, <1>3 DEF H!Matches, H!SameKey, NoneDeleted
  <2>3. p \in H!Lookup(k)'
    BY <1>1, <1>4, <1>5, <2>1, <2>2 DEF H!Lookup, H!Probe
  <2> QED  BY <2>3, LookupUniqueLater
<1>8. ASSUME NEW q \in Keys, q # k, latest'[q] # NoConn
      PROVE  H!SlotOf(q)' \in Slots /\ holds'[nodes'[H!SlotOf(q)'].val].conn = latest'[q]
  <2>0. PICK s : s = H!SlotOf(q)
    OBVIOUS
  <2>1. latest[q] # NoConn /\ latest'[q] = latest[q]
    BY <1>2, <1>8
  <2>2. s \in Slots /\ holds[nodes[s].val].conn = latest[q]
    BY <1>3, <2>0, <2>1 DEF LatestInv
  <2>3. s \in H!Lookup(q) /\ nodes[s].key = q /\ q # NoKey
    BY <2>0, <2>2, SlotOfKey, PartsAssumption
  <2>4. s # p
    <3>1. SUFFICES ASSUME s = p PROVE FALSE
      OBVIOUS
    <3>2. nodes[p].val \in live
      BY <2>2, <2>3, <3>1, MapBlocks
    <3>3. nodes[p].val \in live \ live'
      BY <1>1, <1>2, <3>2
    <3> QED  BY <1>2, <1>8, <2>1, <2>2, <3>1, <3>3
  <2>5. PICK n \in Slots : /\ s = H!Probe(q, n)
                           /\ \A j \in 0..(n - 1) : /\ H!Occupied(H!Probe(q, j))
                                                    /\ ~H!Matches(H!Probe(q, j), q)
    BY <1>4, <2>3 DEF H!Lookup
  <2>6. ASSUME NEW j \in 0..(n - 1)
        PROVE  H!Occupied(H!Probe(q, j))' /\ ~H!Matches(H!Probe(q, j), q)'
    <3>1. H!Probe(q, j) \in Slots
      BY <1>6, ProbeInTable
    <3> QED  BY <1>1, <1>4, <1>8, <2>5, <3>1 DEF H!Occupied, H!Matches, H!SameKey, H!Probe
  <2>7. H!Matches(s, q)'
    BY <1>1, <1>3, <2>2, <2>3, <2>4 DEF H!Matches, H!SameKey, NoneDeleted
  <2>8. s \in H!Lookup(q)'
    BY <1>4, <2>2, <2>5, <2>6, <2>7 DEF H!Lookup, H!Probe
  <2>9. H!SlotOf(q)' = s
    BY <2>8, LookupUniqueLater
  <2> QED  BY <1>1, <1>2, <2>1, <2>2, <2>4, <2>9
<1>9. holds'[nodes'[H!SlotOf(k)'].val].conn = latest'[k]
  BY <1>1, <1>2, <1>7
<1> QED  BY <1>1, <1>7, <1>8, <1>9 DEF LatestInv

LEMMA LatestStep ==
    Known /\ (~overrun => GetInv /\ LatestInv) /\ [Next]_vars => (~overrun => LatestInv)'
<1> SUFFICES ASSUME Known, ~overrun => GetInv /\ LatestInv, [Next]_vars, ~overrun', NoneDeleted'
             PROVE  LatestInv'
  BY DEF LatestInv
<1>0. TagInv /\ LatestInv
  BY OverrunBefore DEF GetInv
<1>1. ASSUME NEW w \in Workers, PutStores(w) PROVE LatestInv'
  BY <1>0, <1>1, LatestPut
<1>2. ASSUME NEW w \in Workers, EvictDeletes(w) PROVE FALSE
  BY <1>2, DeleteTable DEF NoneDeleted
<1>3. ASSUME NEW w \in Workers, Clears(w) PROVE LatestInv'
  BY <1>3 DEF Clears, LatestInv
<1>4. CASE ~\E w \in Workers : PutStores(w) \/ EvictDeletes(w) \/ Clears(w)
  <2>1. UNCHANGED <<nodes, latest>>
    BY <1>4, ZenonT(60) DEF Next, AcceptConn, AcceptFails, MainEnqueues, Exit, vars, WorkerSteps, MapSteps,
       WorkerWaits, WorkerTakes, CloseConn, ReadRequest, WriteHeader, WriteValue, BadFree,
       IOError, CheckFull, PutRefused, GetBegins, GetSearches, GetLeaves, GetReturns,
       EvictFindsNone, EvictReturns, map, history, H!GetAnnounce, H!GetLock, H!GetProbe,
       H!GetRelease, H!Return, H!table
  <2>2. NoneDeleted
    BY <2>1 DEF NoneDeleted
  <2>3. \A k : H!SlotOf(k)' = H!SlotOf(k)
    BY <2>1 DEF H!SlotOf, H!Lookup, H!Matches, H!SameKey, H!Occupied, H!Probe
  <2>4. ASSUME NEW k \in Keys, latest[k] # NoConn
        PROVE  /\ H!SlotOf(k) \in Slots
               /\ holds'[nodes[H!SlotOf(k)].val].conn = latest[k]
    <3>1. H!SlotOf(k) \in Slots /\ holds[nodes[H!SlotOf(k)].val].conn = latest[k]
      BY <1>0, <2>2, <2>4 DEF LatestInv
    <3>2. nodes[H!SlotOf(k)].key # NoKey
      BY <3>1, SlotOfKey, PartsAssumption
    <3>3. nodes[H!SlotOf(k)].val \in blocks
      BY <1>0, <3>1, <3>2, MapBlocks
    <3> QED  BY <3>1, <3>3, BlocksKept
  <2> QED  BY <2>1, <2>3, <2>4 DEF LatestInv
<1> QED  BY <1>1, <1>2, <1>3, <1>4

\* What a client is sent, until a key or a value is longer than the block it is
\* read into (cream.c:114-115): until something is evicted, a GET comes to the value
\* of the last PUT of its key that was not displaced; and what an undisturbed GET
\* has found is a value of its key until the last byte of it is written.
THEOREM GetIsRight == Spec => []GetSendsLastPut
<1>1. Init => LatestInv
  BY DEF Init, LatestInv
<1>2. ASSUME Known, GetInv, LatestInv PROVE LastPutIsFound /\ QuietGetSendsItsKey
  <2>1. LastPutIsFound
    <3>1. H!Slots = Slots /\ H!NoSlot \notin Slots
      BY PartsAssumption DEF H!Slots, Slots, H!NoSlot
    <3> QED  BY <1>2, <3>1 DEF LastPutIsFound, LatestInv, NoneDeleted
  <2>2. QuietGetSendsItsKey
    BY <1>2 DEF QuietGetSendsItsKey, GetInv, FoundStays, SendsItsKey
  <2> QED  BY <2>1, <2>2
<1>3. Known /\ (~overrun => GetInv) /\ (~overrun => LatestInv) => GetSendsLastPut
  BY <1>2 DEF GetSendsLastPut
<1>4. Known /\ (~overrun => GetInv) /\ (~overrun => LatestInv) /\ [Next]_vars
        => (~overrun => LatestInv)'
  BY LatestStep
<1> QED  BY <1>1, <1>3, <1>4, GetInvAlways, KnownInv, PTL DEF Spec

=============================================================================
