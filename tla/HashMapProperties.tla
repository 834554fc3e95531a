------------------------- MODULE HashMapProperties -------------------------
(* What is claimed of the hash map, and the refinement mapping. *)
EXTENDS HashMap

\* The types of the variables; size cannot leave 0..Capacity.
TypeOK ==
    /\ nodes \in [Slots -> [key : Keys \cup {NoKey}, val : Values \cup {NoVal},
                            tombstone : BOOLEAN]]
    /\ size \in 0..Capacity
    /\ numReaders \in Nat /\ writeLock \in BOOLEAN /\ fieldsLock \in BOOLEAN
    /\ invalid \in BOOLEAN
    /\ pc \in [Threads -> {"idle", "get_lock", "get_probe", "get_release",
                           "get_return", "del_return"}]
    /\ want \in [Threads -> Keys \cup {NoKey}]
    /\ found \in [Threads -> Slots \cup {NoSlot}]
    /\ fault \in BOOLEAN
    /\ live \in SUBSET Values

Reading(t) == pc[t] \in {"get_probe", "get_release"}
Counted(t) == Reading(t) \/ pc[t] = "get_lock"

\* While a reader is between its two critical sections no thread changes the
\* table, frees it, or changes the count of its entries.
ReadersExcludeWriters ==
    [][(\E t \in Threads : Reading(t)) => UNCHANGED <<nodes, size, invalid>>]_vars

\* num_readers counts the readers, they share write_lock, and a reader never
\* finds fields_lock held by one that waits for write_lock: it can always leave.
ReadersCanLeave ==
    /\ numReaders = Cardinality({t \in Threads : Counted(t)})
    /\ (\E t \in Threads : Reading(t)) => writeLock /\ ~fieldsLock
    /\ (\A t \in Threads : ~Reading(t)) => ~writeLock

\* Every reader does leave, whoever gets write_lock.
ReaderLeaves == \A t \in Threads : Reading(t) ~> ~Reading(t) \/ fault

\* size is the number of entries that are not tombstones: a put that overwrites
\* a deleted entry counts it down a second time, and stays a tombstone.
SizeCounts ==
    size = Cardinality({s \in Slots : Occupied(s) /\ ~nodes[s].tombstone})

\* A valid map holds every value it was given and has not destroyed, and holds
\* it once: no value is leaked, none is destroyed twice, a deleted one included.
EveryValueHeldOnce ==
    ~invalid =>
        /\ live = {nodes[s].val : s \in Slots} \ {NoVal}
        /\ \A r, s \in Slots : nodes[r].val = nodes[s].val /\ r # s => nodes[r].val = NoVal

-----------------------------------------------------------------------------
(* The entries a get of k could come to, in the order it would. *)

Positions(k) ==
    {i \in Slots : /\ Matches(Probe(k, i), k)
                   /\ \A j \in 0..(i - 1) : Occupied(Probe(k, j))}

NthPosition(k, n) ==
    CHOOSE i \in Positions(k) : Cardinality({j \in Positions(k) : j < i}) = n - 1

CopiesOf(k) ==
    [n \in 1..Cardinality(Positions(k)) |-> nodes[Probe(k, NthPosition(k, n))].val]

Promise == INSTANCE ShadowMap WITH
    copies <- [k \in Keys |-> IF invalid THEN <<>> ELSE CopiesOf(k)],
    holes <- IF invalid THEN 0 ELSE Cardinality({s \in Slots : nodes[s].tombstone}),
    open <- ~invalid

\* Whatever the threads do, the table is a map with shadowed copies and holes.
RefinesShadowMap == Promise!Spec

-----------------------------------------------------------------------------
(* What hashmap.h says, and the code does not do. *)

\* get returns "The corresponding value": when it reads the slot, the value
\* there, if any, is one that was put under the key it was asked for.
GetAnswersItsKey ==
    [][\A t \in Threads :
          pc[t] = "get_return" /\ Return(t) /\ Occupied(found[t])
              => SameKey(found[t], want[t])]_vars

\* A put that returns true has inserted its pair: a get would find it.
PutIsVisible ==
    [][\A t \in Threads, k \in Keys, v \in Values, force \in BOOLEAN :
          Put(t, k, v, force) => SlotOf(k)' # NoSlot /\ nodes'[SlotOf(k)'].val = v]_vars

=============================================================================
