------------------------------ MODULE HashMap ------------------------------
(***************************************************************************)
(* The open-addressing hash map of hw5/src/hashmap.c and its readers and   *)
(* writers: get counts readers under fields_lock, the first reader takes   *)
(* write_lock for all of them and the last one gives it back.              *)
(*                                                                         *)
(* put, delete, clear_map and invalidate_map hold write_lock from their    *)
(* first access to the table to their last, so each is one action; what    *)
(* get and delete do after they have unlocked is an action of its own.  A  *)
(* read that falls into the middle of a write is taken as one before it.   *)
(***************************************************************************)
EXTENDS Naturals, FiniteSets

CONSTANTS
    Threads,    \* the threads that call the map
    Keys,
    Values,     \* the blocks malloc can give for a value; a freed one comes again
    Capacity,
    Hash,       \* get_index: the slot a key is looked for first
    NoKey,      \* the key of a slot that was never written (key_len 0)
    NoVal       \* and its value (val_base NULL)

ASSUME HashMapAssumption ==
    /\ IsFiniteSet(Threads)
    /\ Capacity \in Nat \ {0}
    /\ Hash \in [Keys -> 0..(Capacity - 1)]
    /\ NoKey \notin Keys
    /\ NoVal \notin Values

Slots == 0..(Capacity - 1)
NoSlot == Capacity

VARIABLES
    nodes,       \* the table: key, val and tombstone of every slot
    size,
    numReaders,
    writeLock,   \* TRUE while the readers hold write_lock
    fieldsLock,  \* TRUE while a first reader waits for write_lock with fields_lock
    invalid,     \* TRUE once invalidate_map has freed the table
    pc, want, found,  \* where each thread is; its key and the slot it came to
    fault,       \* TRUE once a thread reads the table after it was freed
    live         \* the values given to the map and not destroyed since

table == <<nodes, size, invalid>>
locks == <<numReaders, writeLock, fieldsLock>>
locals == <<pc, want, found>>
vars == <<table, locks, locals, fault, live>>

EmptyNode == [key |-> NoKey, val |-> NoVal, tombstone |-> FALSE]

Init == \* create_map: calloc and two mutexes
    /\ nodes = [s \in Slots |-> EmptyNode]
    /\ size = 0
    /\ numReaders = 0 /\ writeLock = FALSE /\ fieldsLock = FALSE
    /\ invalid = FALSE
    /\ pc = [t \in Threads |-> "idle"]
    /\ want = [t \in Threads |-> NoKey]
    /\ found = [t \in Threads |-> NoSlot]
    /\ fault = FALSE
    /\ live = {}

-----------------------------------------------------------------------------
(* Probing.  Each decision follows a form it could have by mistake. *)

\* The i-th slot probed for key k.
Probe(k, i) == (Hash[k] + i) % Capacity

Occupied(s) == nodes[s].key # NoKey
SameKey(s, k) == nodes[s].key = k
\* A slot that holds k for get and delete.
Matches(s, k) == SameKey(s, k) /\ ~nodes[s].tombstone

\* isFull: a tombstone still occupies its slot.
IsFull == \A s \in Slots : Occupied(s)

CanPutOnlyIfEmpty(s, k) == ~Occupied(s)
\* canPut: a slot where the probe of put stops.
CanPut(s, k) == nodes[s].tombstone \/ ~Occupied(s) \/ nodes[s].key = k

\* Where put writes.  The probe of a map that is not full stops at the latest
\* at an empty slot, so it never comes round to where it began.
PutSlot(k) ==
    IF IsFull THEN Hash[k]
    ELSE LET stops == {i \in Slots : CanPut(Probe(k, i), k)}
         IN  Probe(k, CHOOSE i \in stops : \A j \in stops : i <= j)

\* The slot get and delete come to for k: they pass tombstones and other keys
\* and stop at a slot that was never written.
Lookup(k) ==
    {s \in Slots : \E i \in Slots :
        /\ s = Probe(k, i) /\ Matches(s, k)
        /\ \A j \in 0..(i - 1) : Occupied(Probe(k, j)) /\ ~Matches(Probe(k, j), k)}

SlotOf(k) == IF Lookup(k) = {} THEN NoSlot ELSE CHOOSE s \in Lookup(k) : TRUE

AlwaysFree == TRUE
\* A writer can have write_lock.
WriterMayEnter == ~writeLock

DisplacedUnlessDeleted(s) == IF nodes[s].tombstone THEN {} ELSE {nodes[s].val}
\* put destroys the value of the slot it writes, whether it was deleted or not.
Displaced(s) == {nodes[s].val}

-----------------------------------------------------------------------------
(* Writers *)

SizeGrows(s) == size + 1
\* put: size-- when the slot had a value, then size++.
SizeAfterPut(s) == IF nodes[s].val # NoVal THEN size ELSE size + 1

\* The new key and value are stored; the slot keeps its tombstone.  A put that
\* is refused, by an invalid map or a full one without force, changes nothing.
Put(t, k, v, force) ==
    /\ pc[t] = "idle" /\ WriterMayEnter
    /\ ~invalid /\ (IsFull => force)
    /\ nodes' = [nodes EXCEPT ![PutSlot(k)].key = k, ![PutSlot(k)].val = v]
    /\ size' = SizeAfterPut(PutSlot(k))
    /\ live' = (live \ Displaced(PutSlot(k))) \cup {v}
    /\ UNCHANGED <<invalid, locks, locals, fault>>

\* delete: the entry becomes a tombstone and stays where it is; a key that is
\* not there changes nothing.
Delete(t, k) ==
    /\ pc[t] = "idle" /\ WriterMayEnter /\ ~invalid
    /\ SlotOf(k) # NoSlot
    /\ nodes' = [nodes EXCEPT ![SlotOf(k)].tombstone = TRUE]
    /\ size' = size - 1
    /\ pc' = [pc EXCEPT ![t] = "del_return"]
    /\ found' = [found EXCEPT ![t] = SlotOf(k)]
    /\ UNCHANGED <<invalid, locks, want, fault, live>>

\* delete does not ask whether the map is invalid: it reads the freed table.
DeleteFreed(t) ==
    /\ pc[t] = "idle" /\ WriterMayEnter /\ invalid
    /\ fault' = TRUE
    /\ UNCHANGED <<table, locks, locals, live>>

\* clear_map: every entry ever written and not overwritten is destroyed, a
\* tombstone too, and the table is zeroed.
ClearMap(t) ==
    /\ pc[t] = "idle" /\ WriterMayEnter /\ ~invalid
    /\ live' = live \ {nodes[s].val : s \in Slots}
    /\ nodes' = [s \in Slots |-> EmptyNode]
    /\ size' = 0
    /\ UNCHANGED <<invalid, locks, locals, fault>>

\* invalidate_map: the loop stops before the last slot, whose entry is leaked.
InvalidateMap(t) ==
    /\ pc[t] = "idle" /\ WriterMayEnter /\ ~invalid
    /\ live' = live \ {nodes[s].val : s \in Slots \ {Capacity - 1}}
    /\ invalid' = TRUE
    /\ UNCHANGED <<nodes, size, locks, locals, fault>>

-----------------------------------------------------------------------------
(* get *)

\* Counts the reader under fields_lock; the first one keeps fields_lock until
\* it has write_lock.
GetAnnounce(t, k) ==
    /\ pc[t] = "idle" /\ ~fieldsLock
    /\ numReaders' = numReaders + 1
    /\ want' = [want EXCEPT ![t] = k]
    /\ fieldsLock' = (numReaders = 0)
    /\ pc' = [pc EXCEPT ![t] = IF numReaders = 0 THEN "get_lock" ELSE "get_probe"]
    /\ UNCHANGED <<table, writeLock, found, fault, live>>

FieldsLockKept == fieldsLock
FieldsLockGivenBack == FALSE

GetLock(t) ==
    /\ pc[t] = "get_lock" /\ ~writeLock
    /\ writeLock' = TRUE
    /\ fieldsLock' = FieldsLockGivenBack
    /\ pc' = [pc EXCEPT ![t] = "get_probe"]
    /\ UNCHANGED <<table, numReaders, want, found, fault, live>>

\* The search; an invalid map is not searched.
GetProbe(t) ==
    /\ pc[t] = "get_probe"
    /\ found' = [found EXCEPT ![t] = IF invalid THEN NoSlot ELSE SlotOf(want[t])]
    /\ pc' = [pc EXCEPT ![t] = "get_release"]
    /\ UNCHANGED <<table, locks, want, fault, live>>

EveryReader == TRUE
\* The last reader gives write_lock back.
LastReader == numReaders = 1

\* A reader that found nothing has its answer, one that did goes on to read it.
GetRelease(t) ==
    /\ pc[t] = "get_release" /\ ~fieldsLock
    /\ numReaders' = numReaders - 1
    /\ writeLock' = (writeLock /\ ~LastReader)
    /\ \/ /\ found[t] = NoSlot
          /\ pc' = [pc EXCEPT ![t] = "idle"]
          /\ want' = [want EXCEPT ![t] = NoKey]
       \/ /\ found[t] # NoSlot
          /\ pc' = [pc EXCEPT ![t] = "get_return"]
          /\ UNCHANGED want
    /\ UNCHANGED <<table, fieldsLock, found, fault, live>>

\* get and delete read what they return from the slot after their unlock.
Return(t) ==
    /\ pc[t] \in {"get_return", "del_return"}
    /\ fault' = invalid
    /\ pc' = [pc EXCEPT ![t] = "idle"]
    /\ want' = [want EXCEPT ![t] = NoKey]
    /\ found' = [found EXCEPT ![t] = NoSlot]
    /\ UNCHANGED <<table, locks, live>>

-----------------------------------------------------------------------------

Read(t) ==
    \/ \E k \in Keys : GetAnnounce(t, k)
    \/ GetLock(t) \/ GetProbe(t) \/ GetRelease(t)

Write(t) ==
    \/ \E k \in Keys, v \in Values \ live, force \in BOOLEAN : Put(t, k, v, force)
    \/ \E k \in Keys : Delete(t, k)
    \/ DeleteFreed(t) \/ ClearMap(t) \/ InvalidateMap(t)

Next == ~fault /\ \E t \in Threads : Read(t) \/ Write(t) \/ Return(t)

Spec == Init /\ [][Next]_vars

\* A reader that holds write_lock goes on.  fields_lock, which no thread keeps
\* for longer than a few instructions while there are readers, comes to it.
ReaderFairness ==
    \A t \in Threads : WF_vars(~fault /\ (GetProbe(t) \/ GetRelease(t)))

FairSpec == Spec /\ ReaderFairness

=============================================================================
