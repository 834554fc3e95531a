------------------------------- MODULE Cream -------------------------------
(***************************************************************************)
(* The cache server of hw5/src/cream.c: main accepts connections and puts  *)
(* their descriptors on a Queue, worker threads take them off, read one    *)
(* request each, call the HashMap, answer and close.  Queue and HashMap    *)
(* are instantiated whole: every step of theirs is a step here, and what   *)
(* the server adds is a step between two of them.                          *)
(*                                                                         *)
(* Reading a request fills memory no other thread sees, so the header, the *)
(* key and the value are read in one step.  The wrappers Rio_readn,        *)
(* Rio_writen and Accept call exit when the system call fails, which is    *)
(* why errno is never EPIPE where handle_request looks at it.              *)
(***************************************************************************)
EXTENDS Naturals, Sequences, FiniteSets

CONSTANTS
    Main, Workers,  \* the threads
    Nodes,          \* addresses of queue nodes
    Keys, Values, Capacity, Hash, NoKey, NoVal,  \* of the map
    Fds,            \* the descriptors of the process, numbers
    MaxConns,       \* bound: how many connections are accepted
    Null

ASSUME CreamAssumption ==
    /\ Fds \subseteq Nat /\ IsFiniteSet(Fds)
    /\ MaxConns \in Nat
    /\ 0 \notin Fds

Conns == 1..MaxConns
NoConn == 0
NoFd == 0

VARIABLES  \* of the queue
    front, rear, items, lock, allocated, itemOf, nextOf, qInvalid, qPc, node,
    qSize, got, qFault, made, linked, stamp, delivered
VARIABLES  \* of the map
    nodes, size, numReaders, writeLock, fieldsLock, mInvalid, mPc, want, found,
    mFault, live
VARIABLES
    phase,     \* where each worker is in its loop and in handle_request
    connfd,    \* the local connfd of each worker
    request,   \* what it has read: an operation and a key
    sawFull,   \* what isFull told it
    block,     \* the value block it allocated, or the one get returned
    code,      \* the response_code it is about to write
    fdOf,      \* the descriptor stored in the item of each connection
    owner,     \* the connection each open descriptor belongs to
    blocks,    \* the value blocks allocated and not freed
    holds,     \* what each block was filled with: by which PUT, of which key
    dead       \* why the process has ended
VARIABLES  \* history
    answers,   \* how many response headers were written to each connection
    latest,    \* the connection whose PUT of each key was the last to be
               \* stored, unless it was evicted, cleared or displaced since
    disturbed, \* the workers during whose look at the map another one wrote it
    overrun    \* whether a key or a value was longer than the block it was read into

queue == <<front, rear, items, lock, allocated, itemOf, nextOf, qInvalid, qPc, node,
           qSize, got, qFault, made, linked, stamp, delivered>>
map == <<nodes, size, numReaders, writeLock, fieldsLock, mInvalid, mPc, want, found,
         mFault, live>>
locals == <<connfd, request, sawFull, block, code>>
sockets == <<fdOf, owner>>
memory == <<blocks, holds>>
history == <<answers, latest, disturbed, overrun>>
vars == <<queue, map, phase, locals, sockets, memory, dead, history>>

Q == INSTANCE Queue WITH
    Producers <- {Main}, Consumers <- Workers, Closers <- {}, MaxItems <- MaxConns,
    invalid <- qInvalid, pc <- qPc, size <- qSize, fault <- qFault
H == INSTANCE HashMap WITH
    Threads <- Workers, invalid <- mInvalid, pc <- mPc, fault <- mFault

\* What the queue and the map expect of their users.
ASSUME PartsAssumption == Q!QueueAssumption /\ H!HashMapAssumption

NoFill == [conn |-> NoConn, key |-> NoKey]
NoRequest == [op |-> "none", key |-> NoKey]
\* A request with a size out of range, or an unknown code, needs no key.
Requests ==
    [op : {"put", "get", "evict"}, key : Keys] \cup
    [op : {"clear", "bad_put", "bad_get", "bad_evict", "unsupported"}, key : {NoKey}]

Init ==
    /\ Q!Init /\ H!Init
    /\ phase = [w \in Workers |-> "dequeue"]
    /\ connfd = [w \in Workers |-> NoFd]
    /\ request = [w \in Workers |-> NoRequest]
    /\ sawFull = [w \in Workers |-> FALSE]
    /\ block = [w \in Workers |-> NoVal]
    /\ code = [w \in Workers |-> "none"]
    /\ fdOf = [c \in Conns |-> NoFd]
    /\ owner = [f \in Fds |-> NoConn]
    /\ blocks = {}
    /\ holds = [v \in Values |-> NoFill]
    /\ dead = "no"
    /\ answers = [c \in Conns |-> 0]
    /\ latest = [k \in Keys |-> NoConn]
    /\ disturbed = {} /\ overrun = FALSE

FreeFds == {f \in Fds : owner[f] = NoConn}
OpenFor(w) == IF connfd[w] \in Fds THEN owner[connfd[w]] ELSE NoConn
GoTo(w, place) == phase' = [phase EXCEPT ![w] = place]

-----------------------------------------------------------------------------
(* Descriptors *)

\* A read or a write works at most while the descriptor is open.
MayWork(w) == OpenFor(w) # NoConn

Exit ==
    /\ dead' = "exit"
    /\ UNCHANGED <<queue, map, phase, locals, sockets, memory, history>>

\* It fails on a descriptor that is not open, and on an open one when the client
\* has hung up, as a client may at any time; the wrapper then ends the process.
IOError(w) == phase[w] \in {"read", "answer", "value"} /\ Exit

-----------------------------------------------------------------------------
(* main *)

\* accept gives the lowest free descriptor; it is stored in an item of its own
\* and enqueue begins.  The result of enqueue is ignored: when calloc fails the
\* connection is left open and nobody has it.
AcceptConn ==
    /\ Q!EnqueueAlloc(Main)
    /\ \E f \in FreeFds :
          /\ \A g \in FreeFds : f <= g
          /\ fdOf' = [fdOf EXCEPT ![made + 1] = f]
          /\ owner' = [owner EXCEPT ![f] = made + 1]
    /\ UNCHANGED <<map, phase, locals, memory, dead, history>>

\* With no descriptor left Accept ends the process.
AcceptFails == made < MaxConns /\ qPc[Main] = "idle" /\ FreeFds = {} /\ Exit

MainEnqueues ==
    /\ Q!EnqueueEnter(Main) \/ Q!EnqueueLink(Main) \/ Q!EnqueueFault(Main)
    /\ UNCHANGED <<map, phase, locals, sockets, memory, dead, history>>

-----------------------------------------------------------------------------
(* The loop of a worker *)

WorkerWaits(w) ==
    /\ phase[w] = "dequeue"
    /\ Q!DequeueWait(w) \/ Q!DequeueEnter(w) \/ Q!DequeueFault(w)
    /\ UNCHANGED <<map, phase, locals, sockets, memory, dead, history>>

LastAcceptedFd(c) == fdOf[made]
\* *(int *)item: each item is a malloc of its own.
ItemFd(c) == fdOf[c]

WorkerTakes(w) ==
    /\ phase[w] = "dequeue" /\ Q!DequeueUnlink(w)
    /\ connfd' = [connfd EXCEPT ![w] = ItemFd(got[w])]
    /\ GoTo(w, "read")
    /\ UNCHANGED <<map, request, sawFull, block, code, sockets, memory, dead, history>>

\* close(connfd), whoever the descriptor belongs to by now; the locals of
\* handle_request are gone.
CloseConn(w) ==
    /\ phase[w] = "close"
    /\ owner' = [owner EXCEPT ![connfd[w]] = NoConn]
    /\ connfd' = [connfd EXCEPT ![w] = NoFd]
    /\ request' = [request EXCEPT ![w] = NoRequest]
    /\ sawFull' = [sawFull EXCEPT ![w] = FALSE]
    /\ block' = [block EXCEPT ![w] = NoVal]
    /\ code' = [code EXCEPT ![w] = "none"]
    /\ GoTo(w, "dequeue")
    /\ UNCHANGED <<queue, map, fdOf, memory, dead, history>>

-----------------------------------------------------------------------------
(* handle_request: the request *)

\* Where the switch leads.
Handler(op) ==
    CASE op = "put" -> "check"
      [] op \in {"get", "evict", "clear"} -> op
      [] OTHER -> "answer"

\* Without a default the code of an unknown request is never assigned.
RefusalNoDefault(op) ==
    IF op = "unsupported" THEN "unassigned"
    ELSE IF op \in {"bad_put", "bad_get", "bad_evict"} THEN "BAD_REQUEST" ELSE "none"
\* The response to a request that is refused before the map is called.
Refusal(op) ==
    CASE op \in {"bad_put", "bad_get", "bad_evict"} -> "BAD_REQUEST"
      [] op = "unsupported" -> "UNSUPPORTED"
      [] OTHER -> "none"

\* Reads the key and the value, after which the blocks would hold `filled'.  Each
\* is read into a malloc of sizeof(uint32_t) bytes, whatever its size, so one that
\* is longer goes on into what lies behind: either into the bytes of other values,
\* and the process goes on, or into keys, items or the tags of the allocator too,
\* and what comes then is not followed.
ReadInto(filled) ==
    \/ holds' = filled /\ UNCHANGED <<overrun, dead>>
    \/ /\ overrun' = TRUE
       /\ \/ /\ \E hit \in SUBSET blocks :
                   holds' = [v \in Values |-> IF v \in hit THEN NoFill ELSE filled[v]]
             /\ UNCHANGED dead
          \/ holds' = filled /\ dead' = "overrun"

\* Reads the request; of a client that hangs up before its end the memory that
\* malloc gave is taken for the rest.  A PUT reads its value into a new block.
ReadRequest(w) ==
    /\ phase[w] = "read" /\ MayWork(w)
    /\ \E r \in Requests :
          /\ request' = [request EXCEPT ![w] = r]
          /\ code' = [code EXCEPT ![w] = Refusal(r.op)]
          /\ GoTo(w, Handler(r.op))
          /\ \/ /\ r.op = "put"
                /\ \E v \in Values \ blocks :
                      /\ block' = [block EXCEPT ![w] = v]
                      /\ blocks' = blocks \cup {v}
                      /\ ReadInto([holds EXCEPT ![v] = [conn |-> OpenFor(w), key |-> r.key]])
             \/ /\ r.op \in {"get", "evict"}
                /\ ReadInto(holds)
                /\ UNCHANGED <<block, blocks>>
             \/ /\ r.op \notin {"put", "get", "evict"}
                /\ UNCHANGED <<block, memory, dead, overrun>>
    /\ UNCHANGED <<queue, map, connfd, sawFull, sockets, answers, latest, disturbed>>

-----------------------------------------------------------------------------
(* handle_request: the map *)

\* What a worker does next, once it has the response_code.
Respond(w, response) ==
    /\ code' = [code EXCEPT ![w] = response]
    /\ GoTo(w, "answer")

\* The worker begins to look at the map; whoever writes it disturbs the others.
Looks(w) == disturbed' = disturbed \ {w}
Disturbs(w) == disturbed' = disturbed \cup (Workers \ {w})

SizeAtCapacity == size = Capacity
\* isFull, without any lock.
SeesFull == H!IsFull

CheckFull(w) ==
    /\ phase[w] = "check"
    /\ sawFull' = [sawFull EXCEPT ![w] = SeesFull]
    /\ Looks(w)
    /\ GoTo(w, "put")
    /\ UNCHANGED <<queue, map, connfd, request, block, code, sockets, memory, dead,
                   answers, latest, overrun>>

HandlerFreesIts(v) == {v}
\* The handler keeps what it gave to the map, unlike the key of a GET.
HandlerFrees(v) == {}

\* put: the value that it displaces is destroyed by map_free_function.
PutStores(w) ==
    /\ phase[w] = "put"
    /\ H!Put(w, request[w].key, block[w], sawFull[w])
    /\ blocks' = (blocks \ (live \ live')) \ HandlerFrees(block[w])
    /\ latest' = [k \in Keys |->
          IF k = request[w].key THEN holds[block[w]].conn
          ELSE IF latest[k] \in {holds[v].conn : v \in live \ live'} THEN NoConn
          ELSE latest[k]]
    /\ Respond(w, "OK") /\ Disturbs(w)
    /\ UNCHANGED <<queue, connfd, request, sawFull, block, sockets, holds, dead,
                   answers, overrun>>

\* put refuses when the map is full and was not a moment ago; the key and the
\* value are never freed.
PutRefused(w) ==
    /\ phase[w] = "put" /\ H!WriterMayEnter
    /\ H!IsFull /\ ~sawFull[w]
    /\ Respond(w, "BAD_REQUEST")
    /\ UNCHANGED <<queue, map, connfd, request, sawFull, block, sockets, memory, dead,
                   history>>

GetBegins(w) ==
    /\ phase[w] = "get" /\ H!GetAnnounce(w, request[w].key)
    /\ GoTo(w, "getting") /\ Looks(w)
    /\ UNCHANGED <<queue, locals, sockets, memory, dead, answers, latest,
                   overrun>>

GetSearches(w) ==
    /\ phase[w] = "getting" /\ (H!GetLock(w) \/ H!GetProbe(w))
    /\ UNCHANGED <<queue, phase, locals, sockets, memory, dead, history>>

\* The reader leaves; a key that is not in the map is NOT_FOUND.
GetLeaves(w) ==
    /\ phase[w] = "getting" /\ H!GetRelease(w)
    /\ IF found[w] = H!NoSlot
       THEN Respond(w, "NOT_FOUND")
       ELSE UNCHANGED <<code, phase>>
    /\ UNCHANGED <<queue, connfd, request, sawFull, block, sockets, memory, dead, history>>

\* get returns what the slot has after the unlock.
GetReturns(w) ==
    /\ phase[w] = "getting" /\ H!Return(w)
    /\ block' = [block EXCEPT ![w] = nodes[found[w]].val]
    /\ Respond(w, IF nodes[found[w]].val = NoVal THEN "NOT_FOUND" ELSE "OK")
    /\ UNCHANGED <<queue, connfd, request, sawFull, sockets, memory, dead, history>>

\* delete, whose result is ignored: the entry goes, or there is none.
EvictDeletes(w) ==
    /\ phase[w] = "evict" /\ H!Delete(w, request[w].key)
    /\ latest' = [latest EXCEPT ![request[w].key] = NoConn]
    /\ GoTo(w, "evicting") /\ Disturbs(w)
    /\ UNCHANGED <<queue, locals, sockets, memory, dead, answers, overrun>>

EvictFindsNone(w) ==
    /\ phase[w] = "evict" /\ H!WriterMayEnter
    /\ H!SlotOf(request[w].key) = H!NoSlot
    /\ Respond(w, "OK")
    /\ UNCHANGED <<queue, map, connfd, request, sawFull, block, sockets, memory, dead,
                   history>>

EvictReturns(w) ==
    /\ phase[w] = "evicting" /\ H!Return(w)
    /\ Respond(w, "OK")
    /\ UNCHANGED <<queue, connfd, request, sawFull, block, sockets, memory, dead, history>>

Clears(w) ==
    /\ phase[w] = "clear" /\ H!ClearMap(w)
    /\ blocks' = blocks \ (live \ live')
    /\ latest' = [k \in Keys |-> NoConn]
    /\ Respond(w, "OK") /\ Disturbs(w)
    /\ UNCHANGED <<queue, connfd, request, sawFull, block, sockets, holds, dead,
                   answers, overrun>>

-----------------------------------------------------------------------------
(* handle_request: the response *)

FallsThrough(w) ==
    CASE request[w].op = "put" -> "get"
      [] request[w].op = "get" /\ code[w] = "OK" -> "value"
      [] OTHER -> "close"
\* After the header: the value of a GET that found one, otherwise break.
AfterHeader(w) ==
    IF request[w].op = "get" /\ code[w] = "OK" THEN "value" ELSE "close"

WriteHeader(w) ==
    /\ phase[w] = "answer" /\ MayWork(w)
    /\ answers' = [answers EXCEPT ![OpenFor(w)] = @ + 1]
    /\ GoTo(w, AfterHeader(w))
    /\ UNCHANGED <<queue, map, locals, sockets, memory, dead, latest, disturbed,
                   overrun>>

\* An EVICT with a bad key size goes on to free a key it never allocated: the
\* pointer is whatever the stack holds.
BadFree(w) ==
    /\ phase[w] = "close" /\ request[w].op = "bad_evict"
    /\ dead' = "free"
    /\ UNCHANGED <<queue, map, phase, locals, sockets, memory, history>>

\* The second write of a GET, from the block that get returned.
WriteValue(w) ==
    /\ phase[w] = "value" /\ MayWork(w)
    /\ GoTo(w, "close")
    /\ UNCHANGED <<queue, map, locals, sockets, memory, dead, history>>

-----------------------------------------------------------------------------

MapSteps(w) ==
    \/ CheckFull(w) \/ PutStores(w) \/ PutRefused(w)
    \/ GetBegins(w) \/ GetSearches(w) \/ GetLeaves(w) \/ GetReturns(w)
    \/ EvictDeletes(w) \/ EvictFindsNone(w) \/ EvictReturns(w) \/ Clears(w)

WorkerSteps(w) ==
    \/ WorkerWaits(w) \/ WorkerTakes(w) \/ ReadRequest(w) \/ MapSteps(w)
    \/ WriteHeader(w) \/ WriteValue(w) \/ BadFree(w) \/ CloseConn(w) \/ IOError(w)

\* A faulting thread or an exit ends all threads.
Running == dead = "no" /\ qFault = "none" /\ ~mFault

Next ==
    /\ Running
    /\ \/ AcceptConn \/ AcceptFails \/ MainEnqueues
       \/ \E w \in Workers : WorkerSteps(w)

Spec == Init /\ [][Next]_vars

=============================================================================
