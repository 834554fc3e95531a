--------------------------- MODULE HashMapProofs ---------------------------
(***************************************************************************)
(* What is proved of the hash map for any number of threads, keys, values  *)
(* and slots, and any hash function; among others, that the table is a     *)
(* ShadowMap.                                                              *)
(***************************************************************************)
EXTENDS HashMapProperties, FiniteSetTheorems, SequenceTheorems, WellFoundedInduction, TLAPS

Locations == {"idle", "get_lock", "get_probe", "get_release", "get_return", "del_return"}
Node == [key : Keys \cup {NoKey}, val : Values \cup {NoVal}, tombstone : BOOLEAN]

\* The types, without the bound on size.
Types ==
    /\ nodes \in [Slots -> Node]
    /\ size \in Nat
    /\ numReaders \in Nat /\ writeLock \in BOOLEAN /\ fieldsLock \in BOOLEAN
    /\ invalid \in BOOLEAN
    /\ pc \in [Threads -> Locations]
    /\ want \in [Threads -> Keys \cup {NoKey}]
    /\ found \in [Threads -> Slots \cup {NoSlot}]
    /\ fault \in BOOLEAN
    /\ live \in SUBSET Values

\* A thread goes on to read a slot only when it has one.
SlotFound == \A t \in Threads : pc[t] \in {"get_return", "del_return"} => found[t] \in Slots

\* A first reader that waits for write_lock has fields_lock and is alone.
FirstReaderAlone ==
    \A t \in Threads : pc[t] = "get_lock" =>
        fieldsLock /\ \A u \in Threads : Counted(u) => u = t

\* A slot has a key exactly when it has a value, and else it is no tombstone.
SlotsInUse ==
    \A s \in Slots : /\ Occupied(s) <=> nodes[s].val # NoVal
                     /\ nodes[s].tombstone => Occupied(s)

LockInv == ReadersCanLeave /\ FirstReaderAlone
TableInv == SlotsInUse /\ SizeCounts /\ EveryValueHeldOnce
IInv == Types /\ SlotFound /\ LockInv /\ TableInv

-----------------------------------------------------------------------------
(* The probe of put *)

\* A set of slots that is not empty has a least element.
LEMMA LeastSlot ==
    ASSUME NEW I, I \subseteq Slots, I # {}
    PROVE  \E i \in I : \A j \in I : i <= j
PROOF
<1> DEFINE UpTo(i) == {j \in I : j <= i}
           T == {UpTo(i) : i \in I}
<1>1. Capacity - 1 \in Int
  BY HashMapAssumption, SMT DEF HashMapAssumption
<1>2. IsFiniteSet(Slots)
  BY <1>1, FS_Interval DEF Slots
<1>3. IsFiniteSet(I)
  BY <1>2, FS_Subset
<1>4. T \subseteq FiniteSubsetsOf(I)
  <2>1. \A i \in I : UpTo(i) \in SUBSET I
    OBVIOUS
  <2> QED BY <1>3, <2>1, FS_Subset DEF FiniteSubsetsOf
<1>5. T # {}
  OBVIOUS
<1>6. PICK x \in T : \A y \in T : <<y, x>> \notin StrictSubsetOrdering(I)
  <2> HIDE DEF T
  <2> QED BY <1>4, <1>5, FS_StrictSubsetOrderingWellFounded, WFMin
<1>7. PICK i \in I : x = UpTo(i)
  OBVIOUS
<1>8. ASSUME NEW j \in I, ~(i <= j) PROVE FALSE
  <2>1. \A n \in I : n \in Int
    BY <1>1 DEF Slots
  <2>2. UpTo(j) \subseteq UpTo(i) /\ i \in UpTo(i) /\ i \notin UpTo(j)
    BY <1>8, <2>1
  <2>3. <<UpTo(j), UpTo(i)>> \in StrictSubsetOrdering(I)
    BY <2>2 DEF StrictSubsetOrdering
  <2> QED BY <1>6, <1>7, <2>3
<1> QED BY <1>8

\* Every slot is on the way of every probe.
LEMMA ProbeReaches ==
    ASSUME NEW k \in Keys, NEW s \in Slots
    PROVE  \E i \in Slots : Probe(k, i) = s
PROOF
<1>1. Capacity \in Nat \ {0} /\ Hash[k] \in 0..(Capacity - 1) /\ s \in 0..(Capacity - 1)
  BY HashMapAssumption DEF Slots
<1> DEFINE h == Hash[k]
<1>2. CASE s >= h
  <2>1. s - h \in Slots /\ (h + (s - h)) % Capacity = s
    BY <1>1, <1>2 DEF Slots
  <2> QED BY <2>1 DEF Probe
<1>3. CASE s < h
  <2>1. s - h + Capacity \in Slots /\ h + (s - h + Capacity) = s + Capacity
    BY <1>1, <1>3 DEF Slots
  <2>2. (s + Capacity) % Capacity = s
    BY <1>1
  <2> QED BY <2>1, <2>2 DEF Probe
<1> QED BY <1>1, <1>2, <1>3

\* put writes into the table.
LEMMA PutSlotInTable ==
    ASSUME Types, NEW k \in Keys
    PROVE  PutSlot(k) \in Slots
PROOF
<1>1. Capacity \in Nat \ {0} /\ Hash[k] \in 0..(Capacity - 1)
  BY HashMapAssumption DEF Slots
<1>2. CASE IsFull
  BY <1>1, <1>2 DEF PutSlot, Slots
<1>3. CASE ~IsFull
  <2> DEFINE stops == {i \in Slots : CanPut(Probe(k, i), k)}
             first == CHOOSE i \in stops : \A j \in stops : i <= j
  <2>1. PICK s \in Slots : ~Occupied(s)
    BY <1>3 DEF IsFull
  <2>2. PICK i \in Slots : Probe(k, i) = s
    BY ProbeReaches
  <2>3. i \in stops
    BY <2>1, <2>2 DEF CanPut
  <2>4. \E n \in stops : \A j \in stops : n <= j
    BY <2>3, LeastSlot
  <2>5. first \in stops
    <3> HIDE DEF stops
    <3> QED BY <2>4
  <2>6. first \in 0..(Capacity - 1)
    BY <2>5 DEF Slots
  <2>7. Probe(k, first) \in Slots
    <3> HIDE DEF first
    <3> QED BY <1>1, <2>6 DEF Probe, Slots
  <2> QED BY <1>3, <2>7 DEF PutSlot
<1> QED BY <1>2, <1>3

\* delete and get come to an entry of the key they look for.
LEMMA SlotOfMatches ==
    ASSUME NEW k \in Keys, SlotOf(k) # NoSlot
    PROVE  SlotOf(k) \in Slots /\ Matches(SlotOf(k), k)
PROOF
<1>1. Lookup(k) # {}
  BY DEF SlotOf
<1>2. SlotOf(k) \in Lookup(k)
  BY <1>1 DEF SlotOf
<1> QED BY <1>2 DEF Lookup

-----------------------------------------------------------------------------
(* The readers and the writers *)

\* What each action does to the locks and to pc.
LEMMA ReadersStep ==
    ASSUME Types, LockInv, NEW t \in Threads,
           \/ \E k \in Keys : GetAnnounce(t, k)
           \/ GetLock(t) \/ GetRelease(t)
    PROVE  LockInv'
PROOF
<1> DEFINE C == {u \in Threads : Counted(u)}
<1>1. IsFiniteSet(C) /\ numReaders = Cardinality(C) /\ numReaders \in Nat
  BY FS_Subset, HashMapAssumption DEF LockInv, ReadersCanLeave, Types, HashMapAssumption
<1>2. numReaders = 0 <=> C = {}
  BY <1>1, FS_EmptySet
<1>3. ASSUME NEW k \in Keys, GetAnnounce(t, k) PROVE LockInv'
  <2>1. t \notin C
    BY <1>3 DEF GetAnnounce, Counted, Reading
  <2>2. C' = C \cup {t}
    BY <1>3 DEF GetAnnounce, Counted, Reading, Types
  <2>3. numReaders' = Cardinality(C')
    BY <1>1, <1>3, <2>1, <2>2, FS_AddElement DEF GetAnnounce
  <2>4. CASE numReaders = 0
    <3>1. \A u \in Threads : pc'[u] = IF u = t THEN "get_lock" ELSE pc[u]
      BY <1>3, <2>4 DEF GetAnnounce, Types
    <3>2. \A u \in Threads : ~Counted(u)
      BY <1>2, <2>4
    <3>3. fieldsLock' /\ writeLock' = writeLock /\ ~writeLock
      BY <1>3, <2>4, <3>2 DEF GetAnnounce, LockInv, ReadersCanLeave, Counted
    <3> QED BY <2>3, <3>1, <3>2, <3>3
            DEF LockInv, ReadersCanLeave, FirstReaderAlone, Counted, Reading
  <2>5. CASE numReaders # 0
    <3>1. \A u \in Threads : pc'[u] = IF u = t THEN "get_probe" ELSE pc[u]
      BY <1>3, <2>5 DEF GetAnnounce, Types
    <3>2. \E u \in Threads : Counted(u)
      BY <1>2, <2>5
    <3>3. ~fieldsLock /\ fieldsLock' = FALSE /\ writeLock' = writeLock
      BY <1>3, <2>5 DEF GetAnnounce
    <3>4. writeLock /\ \A u \in Threads : pc[u] # "get_lock"
      BY <3>2, <3>3 DEF LockInv, ReadersCanLeave, FirstReaderAlone, Counted
    <3> QED BY <2>3, <3>1, <3>3, <3>4
            DEF LockInv, ReadersCanLeave, FirstReaderAlone, Counted, Reading
  <2> QED BY <2>4, <2>5
<1>4. ASSUME GetLock(t) PROVE LockInv'
  <2>1. \A u \in Threads : pc'[u] = IF u = t THEN "get_probe" ELSE pc[u]
    BY <1>4 DEF GetLock, Types
  <2>2. pc[t] = "get_lock" /\ writeLock' /\ ~fieldsLock' /\ numReaders' = numReaders
    BY <1>4 DEF GetLock, FieldsLockGivenBack
  <2>3. \A u \in Threads : Counted(u) => u = t
    BY <2>2 DEF LockInv, FirstReaderAlone
  <2>4. C' = C
    BY <2>1, <2>2 DEF Counted, Reading
  <2>5. numReaders' = Cardinality(C')
    BY <1>1, <2>2, <2>4
  <2> QED BY <2>1, <2>2, <2>3, <2>5
          DEF LockInv, ReadersCanLeave, FirstReaderAlone, Counted, Reading
<1>5. ASSUME GetRelease(t) PROVE LockInv'
  <2>1. pc[t] = "get_release" /\ ~fieldsLock /\ fieldsLock' = fieldsLock
    BY <1>5 DEF GetRelease
  <2>2. /\ pc'[t] \in {"idle", "get_return"}
        /\ \A u \in Threads : u # t => pc'[u] = pc[u]
    BY <1>5 DEF GetRelease, Types
  <2>3. t \in C /\ C' = C \ {t}
    BY <2>1, <2>2 DEF Counted, Reading
  <2>4. numReaders' = Cardinality(C')
    BY <1>1, <1>5, <2>3, FS_RemoveElement DEF GetRelease
  <2>5. writeLock /\ \A u \in Threads : pc[u] # "get_lock"
    BY <2>1 DEF LockInv, ReadersCanLeave, FirstReaderAlone, Reading
  <2>6. CASE numReaders = 1
    <3>1. C = {t}
      <4> HIDE DEF C
      <4>1. \E u : C = {u}
        BY <1>1, <2>6, FS_Singleton
      <4> QED BY <2>3, <4>1
    <3>2. writeLock' = FALSE
      BY <1>5, <2>6 DEF GetRelease, LastReader
    <3> QED BY <2>1, <2>3, <2>4, <3>1, <3>2
            DEF LockInv, ReadersCanLeave, FirstReaderAlone, Counted, Reading
  <2>7. CASE numReaders # 1
    <3>1. C # {t}
      BY <1>1, <2>7, FS_Singleton
    <3>2. PICK u \in Threads : u # t /\ Counted(u)
      BY <2>3, <3>1
    <3>3. writeLock' /\ pc'[u] = pc[u] /\ Reading(u)
      BY <1>5, <2>2, <2>5, <2>7, <3>2 DEF GetRelease, LastReader, Counted
    <3>4. \A w \in Threads : pc'[w] # "get_lock"
      BY <2>2, <2>5
    <3> QED BY <2>1, <2>4, <3>3, <3>4
            DEF LockInv, ReadersCanLeave, FirstReaderAlone, Counted, Reading
  <2> QED BY <2>6, <2>7
<1> QED BY <1>3, <1>4, <1>5

\* The other actions move no thread in or out of the readers.
LEMMA OthersStep ==
    ASSUME Types, LockInv, UNCHANGED locks,
           \A u \in Threads : /\ Counted(u)' = Counted(u)
                              /\ Reading(u)' = Reading(u)
    PROVE  LockInv'
PROOF
<1>1. {u \in Threads : Counted(u)}' = {u \in Threads : Counted(u)}
  OBVIOUS
<1>2. \A u \in Threads : (pc[u] = "get_lock")' = (pc[u] = "get_lock")
  BY DEF Counted, Reading
<1>3. ReadersCanLeave'
  BY <1>1 DEF LockInv, ReadersCanLeave, locks
<1>4. FirstReaderAlone'
  BY <1>2 DEF LockInv, FirstReaderAlone, locks
<1> QED BY <1>3, <1>4 DEF LockInv

-----------------------------------------------------------------------------
(* The entries *)

Entries == {s \in Slots : Occupied(s) /\ ~nodes[s].tombstone}

LEMMA SlotsFinite == IsFiniteSet(Slots) /\ Cardinality(Slots) = Capacity
PROOF
<1>1. Capacity - 1 \in Int /\ Capacity \in Nat \ {0}
  BY HashMapAssumption
<1> QED BY <1>1, FS_Interval DEF Slots

LEMMA EntriesFinite == IsFiniteSet(Entries) /\ Cardinality(Entries) \in 0..Capacity
PROOF
<1>1. Entries \in SUBSET Slots
  BY DEF Entries
<1> QED BY <1>1, SlotsFinite, FS_Subset, FS_CardinalityType, HashMapAssumption

\* put: a slot that had a value keeps its tombstone, so the number of entries
\* grows only when the slot was empty.
LEMMA PutCounts ==
    ASSUME Types, TableInv, NEW t \in Threads, NEW k \in Keys, NEW v \in Values \ live,
           NEW force \in BOOLEAN, Put(t, k, v, force)
    PROVE  TableInv'
PROOF
<1> DEFINE p == PutSlot(k)
<1>1. p \in Slots
  BY PutSlotInTable
<1>2. k # NoKey /\ v # NoVal /\ v \notin live /\ ~invalid /\ ~invalid'
  BY HashMapAssumption DEF Put, HashMapAssumption
<1> HIDE DEF p
<1>3. \A s \in Slots :
        /\ nodes'[s].key = IF s = p THEN k ELSE nodes[s].key
        /\ nodes'[s].val = IF s = p THEN v ELSE nodes[s].val
        /\ nodes'[s].tombstone = nodes[s].tombstone
  BY <1>1 DEF Put, Types, Node, p
<1>4. SlotsInUse'
  BY <1>2, <1>3 DEF TableInv, SlotsInUse, Occupied
<1>5. SizeCounts'
  <2>1. size = Cardinality(Entries)
    BY DEF TableInv, SizeCounts, Entries
  <2>2. CASE nodes[p].val # NoVal
    <3>1. Entries' = Entries
      BY <1>1, <1>2, <1>3, <2>2 DEF Entries, Occupied, TableInv, SlotsInUse
    <3>2. size' = size
      BY <2>2 DEF Put, SizeAfterPut, p
    <3> QED BY <2>1, <3>1, <3>2 DEF SizeCounts, Entries
  <2>3. CASE nodes[p].val = NoVal
    <3>1. p \notin Entries /\ Entries' = Entries \cup {p}
      BY <1>1, <1>2, <1>3, <2>3 DEF Entries, Occupied, TableInv, SlotsInUse
    <3>2. size' = size + 1
      BY <2>3 DEF Put, SizeAfterPut, p
    <3>3. size' = Cardinality(Entries')
      BY <2>1, <3>1, <3>2, EntriesFinite, FS_AddElement
    <3> QED BY <3>3 DEF SizeCounts, Entries
  <2> QED BY <2>2, <2>3
<1>6. EveryValueHeldOnce'
  <2>1. /\ live = {nodes[s].val : s \in Slots} \ {NoVal}
        /\ \A r, s \in Slots : nodes[r].val = nodes[s].val /\ r # s => nodes[r].val = NoVal
    BY <1>2 DEF TableInv, EveryValueHeldOnce
  <2>2. live' = (live \ {nodes[p].val}) \cup {v}
    BY DEF Put, Displaced, p
  <2>3. \A s \in Slots : nodes[s].val # v
    BY <1>2, <2>1
  <2>4. live' = {nodes'[s].val : s \in Slots} \ {NoVal}
    BY <1>1, <1>2, <1>3, <2>1, <2>2
  <2>5. \A r, s \in Slots :
          nodes'[r].val = nodes'[s].val /\ r # s => nodes'[r].val = NoVal
    BY <1>3, <2>1, <2>3
  <2> QED BY <2>4, <2>5 DEF EveryValueHeldOnce
<1> QED BY <1>4, <1>5, <1>6 DEF TableInv

\* delete: one entry becomes a tombstone, its value stays.
LEMMA DeleteCounts ==
    ASSUME Types, TableInv, NEW t \in Threads, NEW k \in Keys, Delete(t, k)
    PROVE  TableInv'
PROOF
<1> DEFINE d == SlotOf(k)
<1>1. d \in Slots /\ nodes[d].key = k /\ ~nodes[d].tombstone
  BY SlotOfMatches DEF Delete, Matches, SameKey
<1>2. k # NoKey
  BY HashMapAssumption DEF HashMapAssumption
<1> HIDE DEF d
<1>3. \A s \in Slots :
        /\ nodes'[s].key = nodes[s].key /\ nodes'[s].val = nodes[s].val
        /\ nodes'[s].tombstone = IF s = d THEN TRUE ELSE nodes[s].tombstone
  BY <1>1 DEF Delete, Types, Node, d
<1>4. SlotsInUse'
  BY <1>1, <1>2, <1>3 DEF TableInv, SlotsInUse, Occupied
<1>5. SizeCounts'
  <2>1. d \in Entries /\ Entries' = Entries \ {d}
    BY <1>1, <1>2, <1>3 DEF Entries, Occupied
  <2>2. size = Cardinality(Entries) /\ size' = size - 1
    BY DEF TableInv, SizeCounts, Entries, Delete
  <2>3. size' = Cardinality(Entries')
    BY <2>1, <2>2, EntriesFinite, FS_RemoveElement
  <2> QED BY <2>3 DEF SizeCounts, Entries
<1>6. EveryValueHeldOnce'
  <2>1. {nodes'[s].val : s \in Slots} = {nodes[s].val : s \in Slots}
    BY <1>3
  <2> QED BY <1>3, <2>1 DEF Delete, TableInv, EveryValueHeldOnce
<1> QED BY <1>4, <1>5, <1>6 DEF TableInv

LEMMA ClearCounts ==
    ASSUME TableInv, NEW t \in Threads, ClearMap(t)
    PROVE  TableInv'
PROOF
<1>1. \A s \in Slots : nodes'[s] = EmptyNode
  BY DEF ClearMap
<1>2. SlotsInUse'
  BY <1>1 DEF SlotsInUse, Occupied, EmptyNode
<1>3. SizeCounts'
  <2>1. Entries' = {}
    BY <1>1 DEF Entries, Occupied, EmptyNode
  <2> QED BY <2>1, FS_EmptySet DEF SizeCounts, Entries, ClearMap
<1>4. EveryValueHeldOnce'
  <2>1. live' = {}
    BY DEF ClearMap, TableInv, EveryValueHeldOnce
  <2> QED BY <1>1, <2>1 DEF EveryValueHeldOnce, EmptyNode
<1> QED BY <1>2, <1>3, <1>4 DEF TableInv

-----------------------------------------------------------------------------
(* The invariant *)

LEMMA InvInit == ASSUME Init PROVE IInv
PROOF
<1>1. Types
  BY HashMapAssumption DEF Init, Types, Node, EmptyNode, Locations
<1>2. \A t \in Threads : ~Counted(t) /\ ~Reading(t) /\ pc[t] # "get_lock"
  BY DEF Init, Counted, Reading
<1>3. LockInv
  <2>1. {t \in Threads : Counted(t)} = {}
    BY <1>2
  <2> QED BY <1>2, <2>1, FS_EmptySet DEF LockInv, ReadersCanLeave, FirstReaderAlone, Init
<1>4. \A s \in Slots : nodes[s] = EmptyNode
  BY DEF Init
<1>5. TableInv
  <2>1. Entries = {}
    BY <1>4 DEF Entries, Occupied, EmptyNode
  <2>2. SizeCounts
    BY <2>1, FS_EmptySet DEF SizeCounts, Entries, Init
  <2> QED BY <1>4, <2>2
          DEF TableInv, SlotsInUse, EveryValueHeldOnce, Init, Occupied, EmptyNode
<1>6. SlotFound
  BY DEF SlotFound, Init
<1> QED BY <1>1, <1>3, <1>5, <1>6 DEF IInv

\* The actions that leave the table, and those that leave the locks, alone.
LEMMA TableKept ==
    ASSUME TableInv, UNCHANGED <<nodes, size, invalid, live>>
    PROVE  TableInv'
PROOF
  BY DEF TableInv, SlotsInUse, SizeCounts, EveryValueHeldOnce, Occupied

LEMMA TypesStep == ASSUME IInv, [Next]_vars PROVE Types' /\ SlotFound'
PROOF
<1> USE DEF IInv
<1>0. CASE UNCHANGED vars
  BY <1>0 DEF Types, SlotFound, vars, table, locks, locals
<1>1. SUFFICES ASSUME NEW t \in Threads, Read(t) \/ Write(t) \/ Return(t)
               PROVE  Types' /\ SlotFound'
  BY <1>0 DEF Next
<1>2. ASSUME NEW k \in Keys, GetAnnounce(t, k) PROVE Types' /\ SlotFound'
  BY <1>2 DEF GetAnnounce, Types, SlotFound, Locations, table
<1>3. ASSUME GetLock(t) PROVE Types' /\ SlotFound'
  BY <1>3 DEF GetLock, FieldsLockGivenBack, Types, SlotFound, Locations, table
<1>4. ASSUME GetProbe(t) PROVE Types' /\ SlotFound'
  <2>1. SlotOf(want[t]) \in Slots \cup {NoSlot}
    BY DEF SlotOf, Lookup
  <2> QED BY <1>4, <2>1 DEF GetProbe, Types, SlotFound, Locations, table, locks
<1>5. ASSUME GetRelease(t) PROVE Types' /\ SlotFound'
  <2>1. numReaders' \in Nat
    <3>1. Counted(t)
      BY <1>5 DEF GetRelease, Counted, Reading
    <3>2. numReaders # 0
      BY <3>1, FS_Subset, FS_EmptySet, HashMapAssumption
         DEF LockInv, ReadersCanLeave, HashMapAssumption
    <3> QED BY <1>5, <3>2 DEF GetRelease, Types
  <2>2. UNCHANGED <<table, fieldsLock, found, fault, live>>
    BY <1>5 DEF GetRelease
  <2>3. writeLock' \in BOOLEAN
    BY <1>5 DEF GetRelease
  <2>4. /\ pc' \in [Threads -> Locations] /\ want' \in [Threads -> Keys \cup {NoKey}]
        /\ SlotFound'
    BY <1>5 DEF GetRelease, Types, SlotFound, Locations
  <2> QED BY <2>1, <2>2, <2>3, <2>4 DEF Types, table
<1>6. ASSUME Return(t) PROVE Types' /\ SlotFound'
  BY <1>6 DEF Return, Types, SlotFound, Locations, table, locks
<1>7. ASSUME NEW k \in Keys, NEW v \in Values \ live, NEW force \in BOOLEAN,
             Put(t, k, v, force)
      PROVE  Types' /\ SlotFound'
  <2>1. nodes' \in [Slots -> Node]
    BY <1>7, ZenonT(30) DEF Put, Types, Node
  <2>2. size' \in Nat /\ live' \in SUBSET Values
    BY <1>7 DEF Put, SizeAfterPut, Types
  <2> QED BY <1>7, <2>1, <2>2 DEF Put, Types, SlotFound, locks, locals
<1>8. ASSUME NEW k \in Keys, Delete(t, k) PROVE Types' /\ SlotFound'
  <2>1. SlotOf(k) \in Slots /\ Matches(SlotOf(k), k)
    BY <1>8, SlotOfMatches DEF Delete
  <2>2. nodes' \in [Slots -> Node]
    BY <1>8 DEF Delete, Types, Node
  <2>3. size' \in Nat
    <3>1. SlotOf(k) \in Entries
      BY <2>1, HashMapAssumption DEF Entries, Matches, SameKey, Occupied, HashMapAssumption
    <3>2. Cardinality(Entries) # 0
      BY <3>1, EntriesFinite, FS_EmptySet
    <3>3. size = Cardinality(Entries)
      BY DEF TableInv, SizeCounts, Entries
    <3> QED BY <1>8, <3>2, <3>3 DEF Delete, Types
  <2> QED BY <1>8, <2>1, <2>2, <2>3 DEF Delete, Types, SlotFound, Locations, locks
<1>9. ASSUME DeleteFreed(t) PROVE Types' /\ SlotFound'
  BY <1>9 DEF DeleteFreed, Types, SlotFound, table, locks, locals
<1>10. ASSUME ClearMap(t) PROVE Types' /\ SlotFound'
  BY <1>10 DEF ClearMap, Types, SlotFound, Node, EmptyNode, locks, locals
<1>11. ASSUME InvalidateMap(t) PROVE Types' /\ SlotFound'
  BY <1>11 DEF InvalidateMap, Types, SlotFound, locks, locals
<1> QED BY <1>1, <1>2, <1>3, <1>4, <1>5, <1>6, <1>7, <1>8, <1>9, <1>10, <1>11
        DEF Read, Write

LEMMA InvStep == ASSUME IInv, [Next]_vars PROVE IInv'
PROOF
<1>0. Types' /\ SlotFound'
  BY TypesStep
<1> USE DEF IInv
<1>1. CASE UNCHANGED vars
  BY <1>0, <1>1, OthersStep, TableKept DEF vars, table, locks, locals, Counted, Reading
<1>2. SUFFICES ASSUME NEW t \in Threads, Read(t) \/ Write(t) \/ Return(t)
               PROVE  LockInv' /\ TableInv'
  BY <1>0, <1>1 DEF Next
<1>3. CASE Read(t)
  <2>1. UNCHANGED <<nodes, size, invalid, live>>
    BY <1>3 DEF Read, GetAnnounce, GetLock, GetProbe, GetRelease, table
  <2>2. TableInv'
    BY <2>1, TableKept
  <2>3. CASE GetProbe(t)
    <3>1. \A u \in Threads : Counted(u)' = Counted(u) /\ Reading(u)' = Reading(u)
      BY <2>3 DEF GetProbe, Types, Counted, Reading
    <3> QED BY <2>2, <2>3, <3>1, OthersStep DEF GetProbe
  <2> QED BY <1>3, <2>2, <2>3, ReadersStep DEF Read
<1>4. CASE Return(t)
  <2>1. UNCHANGED <<nodes, size, invalid, live, locks>>
    BY <1>4 DEF Return, table
  <2>2. \A u \in Threads : Counted(u)' = Counted(u) /\ Reading(u)' = Reading(u)
    BY <1>4 DEF Return, Types, Counted, Reading
  <2> QED BY <2>1, <2>2, OthersStep, TableKept
<1>5. CASE Write(t)
  <2>1. \A u \in Threads : Counted(u)' = Counted(u) /\ Reading(u)' = Reading(u)
    <3>1. \/ UNCHANGED pc
          \/ pc[t] = "idle" /\ pc' = [pc EXCEPT ![t] = "del_return"]
      BY <1>5 DEF Write, Put, Delete, DeleteFreed, ClearMap, InvalidateMap, locals
    <3> QED BY <3>1 DEF Types, Counted, Reading
  <2>2. LockInv'
    BY <1>5, <2>1, OthersStep DEF Write, Put, Delete, DeleteFreed, ClearMap, InvalidateMap
  <2>3. ASSUME InvalidateMap(t) PROVE TableInv'
    BY <2>3 DEF InvalidateMap, TableInv, SlotsInUse, SizeCounts, EveryValueHeldOnce, Occupied
  <2>4. ASSUME DeleteFreed(t) PROVE TableInv'
    BY <2>4, TableKept DEF DeleteFreed, table
  <2> QED BY <1>5, <2>2, <2>3, <2>4, PutCounts, DeleteCounts, ClearCounts DEF Write
<1> QED BY <1>2, <1>3, <1>4, <1>5

LEMMA Invariant == Spec => []IInv
PROOF
<1> QED BY InvInit, InvStep, PTL DEF Spec

-----------------------------------------------------------------------------
(* The results *)

\* num_readers counts the readers, they share write_lock while there are any,
\* and no reader that is inside finds fields_lock held by one that waits.
THEOREM ReadersAlwaysCanLeave == Spec => []ReadersCanLeave
PROOF
<1>1. IInv => ReadersCanLeave
  BY DEF IInv, LockInv
<1> QED BY <1>1, Invariant, PTL

\* No put, delete, clear_map or invalidate_map takes place while a reader
\* searches the table.
THEOREM WritersExcluded == Spec => ReadersExcludeWriters
PROOF
<1>1. ASSUME IInv, [Next]_vars
      PROVE  [(\E t \in Threads : Reading(t)) => UNCHANGED <<nodes, size, invalid>>]_vars
  <2>1. SUFFICES ASSUME NEW u \in Threads, Reading(u), NEW t \in Threads,
                        Read(t) \/ Write(t) \/ Return(t)
                 PROVE  UNCHANGED <<nodes, size, invalid>>
    BY <1>1 DEF Next, vars, table
  <2>2. ~WriterMayEnter
    BY <1>1, <2>1 DEF IInv, LockInv, ReadersCanLeave, WriterMayEnter
  <2>3. ~Write(t)
    BY <2>2 DEF Write, Put, Delete, DeleteFreed, ClearMap, InvalidateMap
  <2>4. CASE Read(t)
    BY <2>4 DEF Read, GetAnnounce, GetLock, GetProbe, GetRelease, table
  <2>5. CASE Return(t)
    BY <2>5 DEF Return, table
  <2> QED BY <2>1, <2>3, <2>4, <2>5
<1> QED BY <1>1, Invariant, PTL DEF Spec, ReadersExcludeWriters

\* size is the number of entries that have not been deleted, whatever order
\* put, delete and clear_map come in.
THEOREM SizeIsRight == Spec => []SizeCounts
PROOF
<1>1. IInv => SizeCounts
  BY DEF IInv, TableInv
<1> QED BY <1>1, Invariant, PTL

\* The map owns every value that was put into it and not destroyed, once.
THEOREM ValuesOwned == Spec => []EveryValueHeldOnce
PROOF
<1>1. IInv => EveryValueHeldOnce
  BY DEF IInv, TableInv
<1> QED BY <1>1, Invariant, PTL

\* size, an unsigned number, never wraps round and never exceeds the capacity.
THEOREM TypeCorrect == Spec => []TypeOK
PROOF
<1>1. ASSUME IInv PROVE TypeOK
  <2>1. size = Cardinality(Entries)
    BY <1>1 DEF IInv, TableInv, SizeCounts, Entries
  <2> QED BY <1>1, <2>1, EntriesFinite DEF IInv, Types, TypeOK, Node, Locations
<1> QED BY <1>1, Invariant, PTL

-----------------------------------------------------------------------------
(* The n-th least element of a finite set of numbers *)

Below(P, i) == {j \in P : j < i}
Nth(P, n) == CHOOSE i \in P : Cardinality(Below(P, i)) = n - 1

LEMMA RankBounds ==
    ASSUME NEW P, P \subseteq Nat, IsFiniteSet(P), NEW i \in P
    PROVE  /\ IsFiniteSet(Below(P, i)) /\ Cardinality(Below(P, i)) \in Nat
           /\ Cardinality(Below(P, i)) < Cardinality(P)
PROOF
<1>1. Below(P, i) \in SUBSET P /\ i \notin Below(P, i)
  BY DEF Below
<1>2. IsFiniteSet(Below(P, i)) /\ Cardinality(Below(P, i)) <= Cardinality(P)
  BY <1>1, FS_Subset
<1>3. Cardinality(P) # Cardinality(Below(P, i))
  BY <1>1, FS_Subset
<1> QED BY <1>2, <1>3, FS_CardinalityType

LEMMA RankGrows ==
    ASSUME NEW P, P \subseteq Nat, IsFiniteSet(P), NEW i \in P, NEW j \in P, i < j
    PROVE  Cardinality(Below(P, i)) < Cardinality(Below(P, j))
PROOF
<1>0. \A x \in P : x \in Nat
  OBVIOUS
<1>1. Below(P, i) \in SUBSET Below(P, j) /\ i \in Below(P, j) /\ i \notin Below(P, i)
  <2>1. ASSUME NEW x \in P, x < i PROVE x < j
    BY <1>0, <2>1
  <2>2. ~(i < i)
    BY <1>0
  <2> QED BY <2>1, <2>2 DEF Below
<1>2. IsFiniteSet(Below(P, j)) /\ Cardinality(Below(P, j)) \in Nat
      /\ Cardinality(Below(P, i)) \in Nat
  BY RankBounds
<1>3. Cardinality(Below(P, i)) <= Cardinality(Below(P, j))
      /\ Cardinality(Below(P, j)) # Cardinality(Below(P, i))
  BY <1>1, <1>2, FS_Subset
<1> QED BY <1>2, <1>3

LEMMA RankUnique ==
    ASSUME NEW P, P \subseteq Nat, IsFiniteSet(P), NEW i \in P, NEW j \in P,
           Cardinality(Below(P, i)) = Cardinality(Below(P, j))
    PROVE  i = j
PROOF
<1>1. i \in Nat /\ j \in Nat
  OBVIOUS
<1>2. Cardinality(Below(P, i)) \in Nat /\ Cardinality(Below(P, j)) \in Nat
  BY RankBounds
<1>3. ASSUME i < j PROVE FALSE
  <2>1. Cardinality(Below(P, i)) < Cardinality(Below(P, j))
    BY <1>3, RankGrows
  <2> QED BY <1>2, <2>1
<1>4. ASSUME j < i PROVE FALSE
  <2>1. Cardinality(Below(P, j)) < Cardinality(Below(P, i))
    BY <1>4, RankGrows
  <2> QED BY <1>2, <2>1
<1> QED BY <1>1, <1>3, <1>4

\* Every number up to the size of the set is a rank.
LEMMA NthIsElement ==
    ASSUME NEW P, P \subseteq Nat, IsFiniteSet(P), NEW n \in 1..Cardinality(P)
    PROVE  Nth(P, n) \in P /\ Cardinality(Below(P, Nth(P, n))) = n - 1
PROOF
<1> DEFINE N == Cardinality(P)
           g == [i \in P |-> Cardinality(Below(P, i)) + 1]
<1>1. N \in Nat
  BY FS_CardinalityType
<1>2. IsFiniteSet(1..N) /\ Cardinality(1..N) = N
  BY <1>1, FS_Interval
<1>3. g \in Injection(P, 1..N)
  <2>1. ASSUME NEW i \in P PROVE Cardinality(Below(P, i)) + 1 \in 1..N
    <3>1. Cardinality(Below(P, i)) \in Nat /\ Cardinality(Below(P, i)) < N
      BY RankBounds
    <3> QED BY <1>1, <3>1
  <2>2. ASSUME NEW i \in P, NEW j \in P, g[i] = g[j] PROVE i = j
    <3>1. Cardinality(Below(P, i)) \in Nat /\ Cardinality(Below(P, j)) \in Nat
      BY RankBounds
    <3>2. Cardinality(Below(P, i)) = Cardinality(Below(P, j))
      BY <2>2, <3>1
    <3> QED BY <3>2, RankUnique
  <2>3. g \in [P -> 1..N]
    BY <2>1
  <2> HIDE DEF g, N
  <2> QED BY <2>2, <2>3 DEF Injection, IsInjective
<1>4. g \in Surjection(P, 1..N)
  <2> HIDE DEF g
  <2> QED BY <1>2, <1>3, FS_Injection
<1>5. PICK i \in P : g[i] = n
  <2> HIDE DEF g
  <2> QED BY <1>4 DEF Surjection
<1>6. Cardinality(Below(P, i)) = n - 1
  <2>1. Cardinality(Below(P, i)) \in Nat
    BY RankBounds
  <2> QED BY <1>5, <2>1
<1> QED BY <1>6 DEF Nth

LEMMA NthOfRank ==
    ASSUME NEW P, P \subseteq Nat, IsFiniteSet(P), NEW i \in P
    PROVE  /\ Cardinality(Below(P, i)) + 1 \in 1..Cardinality(P)
           /\ Nth(P, Cardinality(Below(P, i)) + 1) = i
PROOF
<1> DEFINE n == Cardinality(Below(P, i)) + 1
<1>1. Cardinality(Below(P, i)) \in Nat /\ Cardinality(P) \in Nat
      /\ Cardinality(Below(P, i)) < Cardinality(P)
  BY RankBounds, FS_CardinalityType
<1>2. n \in 1..Cardinality(P) /\ n - 1 = Cardinality(Below(P, i))
  BY <1>1
<1> HIDE DEF n
<1>3. Nth(P, n) \in P /\ Cardinality(Below(P, Nth(P, n))) = Cardinality(Below(P, i))
  BY <1>2, NthIsElement
<1>4. Nth(P, n) = i
  BY <1>3, RankUnique
<1> QED BY <1>2, <1>4 DEF n

LEMMA LeastIsFirst ==
    ASSUME NEW P, P \subseteq Nat, IsFiniteSet(P), NEW i \in P, \A j \in P : i <= j
    PROVE  1 \in 1..Cardinality(P) /\ Nth(P, 1) = i
PROOF
<1>1. Below(P, i) = {}
  <2>1. \A j \in P : j \in Nat /\ i \in Nat /\ ~(j < i)
    OBVIOUS
  <2> QED BY <2>1 DEF Below
<1>2. Cardinality(Below(P, i)) + 1 = 1
  BY <1>1, FS_EmptySet
<1> QED BY <1>2, NthOfRank

\* Without the r-th element, those after it move down by one.
LEMMA NthWithout ==
    ASSUME NEW P, P \subseteq Nat, IsFiniteSet(P), NEW r \in 1..Cardinality(P)
    PROVE  /\ Cardinality(P \ {Nth(P, r)}) = Cardinality(P) - 1
           /\ \A n \in 1..Cardinality(P \ {Nth(P, r)}) :
                Nth(P \ {Nth(P, r)}, n) = Nth(P, IF n < r THEN n ELSE n + 1)
PROOF
<1>0. PICK Q : Q = P \ {Nth(P, r)}
  OBVIOUS
<1>1. Nth(P, r) \in P /\ Cardinality(Below(P, Nth(P, r))) = r - 1
  BY NthIsElement
<1>2. IsFiniteSet(Q) /\ Q \subseteq Nat /\ Cardinality(Q) = Cardinality(P) - 1
  BY <1>0, <1>1, FS_RemoveElement
<1>3. Cardinality(P) \in Nat
  BY FS_CardinalityType
<1>4. ASSUME NEW n \in 1..Cardinality(Q)
      PROVE  Nth(Q, n) = Nth(P, IF n < r THEN n ELSE n + 1)
  <2> DEFINE m == IF n < r THEN n ELSE n + 1
             i == Nth(P, m)
             a == Nth(P, r)
  <2>1. m \in 1..Cardinality(P) /\ m # r /\ n \in Nat /\ r \in Nat
    BY <1>2, <1>3
  <2>2. (m < r => m = n) /\ (~(m < r) => m = n + 1 /\ r < m)
    BY <2>1
  <2> HIDE DEF m
  <2>3. i \in P /\ Cardinality(Below(P, i)) = m - 1
    BY <2>1, NthIsElement
  <2>4. a \in P /\ Cardinality(Below(P, a)) = r - 1
    BY <1>1
  <2> HIDE DEF i, a
  <2>5. i # a /\ i \in Nat /\ a \in Nat
    BY <2>1, <2>3, <2>4
  <2>6. i \in Q
    BY <1>0, <2>3, <2>5 DEF a
  <2>7. Cardinality(Below(Q, i)) = n - 1
    <3>1. CASE m < r
      <4>1. ASSUME a < i PROVE FALSE
        <5>1. Cardinality(Below(P, a)) < Cardinality(Below(P, i))
          BY <2>3, <2>4, <4>1, RankGrows
        <5> QED BY <2>1, <2>3, <2>4, <3>1, <5>1
      <4>2. Below(Q, i) = Below(P, i)
        BY <1>0, <2>5, <4>1 DEF Below, a
      <4> QED BY <2>2, <2>3, <3>1, <4>2
    <3>2. CASE ~(m < r)
      <4>1. ASSUME i < a PROVE FALSE
        <5>1. Cardinality(Below(P, i)) < Cardinality(Below(P, a))
          BY <2>3, <2>4, <4>1, RankGrows
        <5> QED BY <2>1, <2>2, <2>3, <2>4, <3>2, <5>1
      <4>2. a \in Below(P, i) /\ Below(Q, i) = Below(P, i) \ {a}
        BY <1>0, <2>4, <2>5, <4>1 DEF Below, a
      <4>3. Cardinality(Below(Q, i)) = Cardinality(Below(P, i)) - 1
        BY <2>3, <4>2, RankBounds, FS_RemoveElement
      <4> QED BY <2>1, <2>2, <2>3, <3>2, <4>3
    <3> QED BY <3>1, <3>2
  <2>8. Nth(Q, n) = i
    <3>1. (n - 1) + 1 = n
      BY <2>1
    <3> QED BY <1>2, <2>6, <2>7, <3>1, NthOfRank
  <2> QED BY <2>8 DEF i, m
<1> QED BY <1>0, <1>2, <1>4

-----------------------------------------------------------------------------
(* Where a probe comes to *)

LEMMA ProbeOnce ==
    ASSUME NEW k \in Keys, NEW i \in Slots, NEW j \in Slots
    PROVE  Probe(k, i) \in Slots /\ (Probe(k, i) = Probe(k, j) => i = j)
PROOF
<1> DEFINE h == Hash[k]
<1>1. /\ Capacity \in Nat \ {0} /\ h \in 0..(Capacity - 1)
      /\ i \in 0..(Capacity - 1) /\ j \in 0..(Capacity - 1)
  BY HashMapAssumption DEF Slots
<1> HIDE DEF h
<1>2. ASSUME NEW n \in 0..(Capacity - 1)
      PROVE  (h + n) % Capacity = IF h + n < Capacity THEN h + n ELSE h + n - Capacity
  <2>1. CASE h + n < Capacity
    BY <1>1, <2>1
  <2>2. CASE ~(h + n < Capacity)
    <3>1. h + n - Capacity \in 0..(Capacity - 1)
      BY <1>1, <2>2
    <3> DEFINE m == h + n - Capacity
    <3>2. h + n = m + Capacity
      BY <1>1
    <3> HIDE DEF m
    <3>3. (m + Capacity) % Capacity = m
      BY <1>1, <3>1 DEF m
    <3> QED BY <2>2, <3>2, <3>3 DEF m
  <2> QED BY <2>1, <2>2
<1>3. Probe(k, i) = IF h + i < Capacity THEN h + i ELSE h + i - Capacity
  BY <1>1, <1>2 DEF Probe, h
<1>4. Probe(k, j) = IF h + j < Capacity THEN h + j ELSE h + j - Capacity
  BY <1>1, <1>2 DEF Probe, h
<1> QED BY <1>1, <1>3, <1>4 DEF Slots

\* put writes the first slot of the probe where it may stop.
LEMMA PutStops ==
    ASSUME ~IsFull, NEW k \in Keys
    PROVE  \E i \in Slots : /\ PutSlot(k) = Probe(k, i) /\ CanPut(PutSlot(k), k)
                            /\ \A j \in 0..(i - 1) : ~CanPut(Probe(k, j), k)
PROOF
<1> DEFINE stops == {i \in Slots : CanPut(Probe(k, i), k)}
           first == CHOOSE i \in stops : \A j \in stops : i <= j
<1>1. PICK s \in Slots : ~Occupied(s)
  BY DEF IsFull
<1>2. PICK i \in Slots : Probe(k, i) = s
  BY ProbeReaches
<1>3. i \in stops
  BY <1>1, <1>2 DEF CanPut
<1>4. \E n \in stops : \A j \in stops : n <= j
  BY <1>3, LeastSlot
<1>5. first \in stops /\ \A j \in stops : first <= j
  <2> HIDE DEF stops
  <2> QED BY <1>4
<1>6. PutSlot(k) = Probe(k, first)
  BY DEF PutSlot
<1> HIDE DEF first
<1>7. Capacity \in Nat \ {0} /\ first \in 0..(Capacity - 1)
  BY <1>5, HashMapAssumption DEF Slots
<1>8. ASSUME NEW j \in 0..(first - 1) PROVE ~CanPut(Probe(k, j), k)
  <2>1. j \in Slots /\ ~(first <= j)
    BY <1>7 DEF Slots
  <2> QED BY <1>5, <2>1
<1> QED BY <1>5, <1>6, <1>8

\* The slots a probe passes before it comes to its key have been written.
Reachable ==
    \A k \in Keys, i \in Slots :
        SameKey(Probe(k, i), k) => \A j \in 0..(i - 1) : Occupied(Probe(k, j))

\* What put does to the table.
LEMMA PutWrites ==
    ASSUME Types, NEW t \in Threads, NEW k \in Keys, NEW v, NEW force, Put(t, k, v, force)
    PROVE  /\ PutSlot(k) \in Slots
           /\ \A s \in Slots :
                /\ nodes'[s].key = IF s = PutSlot(k) THEN k ELSE nodes[s].key
                /\ nodes'[s].val = IF s = PutSlot(k) THEN v ELSE nodes[s].val
                /\ nodes'[s].tombstone = nodes[s].tombstone
PROOF
<1> DEFINE p == PutSlot(k)
<1>1. p \in Slots
  BY PutSlotInTable
<1> HIDE DEF p
<1>2. \A s \in Slots :
        /\ nodes'[s].key = IF s = p THEN k ELSE nodes[s].key
        /\ nodes'[s].val = IF s = p THEN v ELSE nodes[s].val
        /\ nodes'[s].tombstone = nodes[s].tombstone
  BY <1>1 DEF Put, Types, Node, p
<1> QED BY <1>1, <1>2 DEF p

\* What delete does to it.
LEMMA DeleteWrites ==
    ASSUME Types, NEW t \in Threads, NEW k \in Keys, Delete(t, k)
    PROVE  \A s \in Slots :
             /\ nodes'[s].key = nodes[s].key /\ nodes'[s].val = nodes[s].val
             /\ nodes'[s].tombstone = IF s = SlotOf(k) THEN TRUE ELSE nodes[s].tombstone
PROOF
<1> DEFINE d == SlotOf(k)
<1>1. d \in Slots
  BY SlotOfMatches DEF Delete
<1> HIDE DEF d
<1>2. \A s \in Slots :
        /\ nodes'[s].key = nodes[s].key /\ nodes'[s].val = nodes[s].val
        /\ nodes'[s].tombstone = IF s = d THEN TRUE ELSE nodes[s].tombstone
  BY <1>1 DEF Delete, Types, Node, d
<1> QED BY <1>2 DEF d

\* What clear_map does to it.
LEMMA ClearWrites ==
    ASSUME NEW t \in Threads, ClearMap(t)
    PROVE  \A s \in Slots : nodes'[s] = EmptyNode
PROOF
<1> QED BY DEF ClearMap

LEMMA EarlierSlots ==
    ASSUME NEW i \in Slots, NEW j \in 0..(i - 1)
    PROVE  j \in Slots /\ j < i /\ ~(i = j)
PROOF
<1>1. Capacity \in Nat /\ i \in 0..(Capacity - 1)
  BY HashMapAssumption DEF Slots
<1> QED BY <1>1 DEF Slots

LEMMA PutReachable ==
    ASSUME Types, Reachable, NEW t \in Threads, NEW k \in Keys, NEW v, NEW force,
           Put(t, k, v, force)
    PROVE  Reachable'
PROOF
<1> DEFINE p == PutSlot(k)
<1>1. /\ p \in Slots
      /\ \A s \in Slots : nodes'[s].key = IF s = p THEN k ELSE nodes[s].key
  BY PutWrites
<1>2. \A i \in Slots : p = Probe(k, i) => \A j \in 0..(i - 1) : Occupied(Probe(k, j))
  <2>1. CASE IsFull
    BY <2>1, ProbeOnce, EarlierSlots DEF IsFull
  <2>2. CASE ~IsFull
    <3>1. PICK i \in Slots : /\ p = Probe(k, i)
                             /\ \A j \in 0..(i - 1) : ~CanPut(Probe(k, j), k)
      BY <2>2, PutStops
    <3>2. \A n \in Slots : p = Probe(k, n) => n = i
      BY <3>1, ProbeOnce
    <3> QED BY <3>1, <3>2 DEF CanPut
  <2> QED BY <2>1, <2>2
<1> HIDE DEF p
<1>3. k # NoKey
  BY HashMapAssumption
<1>4. SUFFICES ASSUME NEW x \in Keys, NEW i \in Slots, nodes'[Probe(x, i)].key = x,
                      NEW j \in 0..(i - 1)
               PROVE  nodes'[Probe(x, j)].key # NoKey
  BY DEF Reachable, SameKey, Occupied, Probe
<1>5. Probe(x, i) \in Slots /\ Probe(x, j) \in Slots
  BY EarlierSlots, ProbeOnce
<1>6. nodes[Probe(x, j)].key # NoKey
  <2>1. CASE Probe(x, i) = p
    BY <1>1, <1>2, <1>4, <2>1 DEF Occupied
  <2>2. CASE Probe(x, i) # p
    BY <1>1, <1>4, <1>5, <2>2 DEF Reachable, SameKey, Occupied
  <2> QED BY <2>1, <2>2
<1> QED BY <1>1, <1>3, <1>5, <1>6

LEMMA ReachableStep ==
    ASSUME Types, Reachable, [Next]_vars
    PROVE  Reachable'
PROOF
<1>1. CASE UNCHANGED nodes
  BY <1>1 DEF Reachable, SameKey, Occupied, Probe
<1>2. ASSUME NEW t \in Threads, NEW k \in Keys, Delete(t, k) PROVE Reachable'
  <2>1. \A s \in Slots : nodes'[s].key = nodes[s].key
    BY <1>2, DeleteWrites
  <2>2. \A x \in Keys, i \in Slots :
            Probe(x, i) \in Slots /\ \A j \in 0..(i - 1) : Probe(x, j) \in Slots
    BY ProbeOnce, EarlierSlots
  <2>3. \A x \in Keys, i \in Slots :
            Probe(x, i)' = Probe(x, i) /\ \A j \in 0..(i - 1) : Probe(x, j)' = Probe(x, j)
    BY DEF Probe
  <2> QED BY <2>1, <2>2, <2>3 DEF Reachable, SameKey, Occupied
<1>3. ASSUME NEW t \in Threads, ClearMap(t) PROVE Reachable'
  <2>1. \A s \in Slots : nodes'[s].key = NoKey
    BY <1>3, ClearWrites DEF EmptyNode
  <2>2. \A x \in Keys, i \in Slots : Probe(x, i) \in Slots /\ x # NoKey
    BY ProbeOnce, HashMapAssumption
  <2>3. \A x \in Keys, i \in Slots : Probe(x, i)' = Probe(x, i)
    BY DEF Probe
  <2> QED BY <2>1, <2>2, <2>3 DEF Reachable, SameKey
<1>4. ASSUME NEW t \in Threads, Read(t) \/ Return(t) \/ DeleteFreed(t) \/ InvalidateMap(t)
      PROVE  UNCHANGED nodes
  BY <1>4 DEF Read, GetAnnounce, GetLock, GetProbe, GetRelease, Return, DeleteFreed,
              InvalidateMap, table
<1> QED BY <1>1, <1>2, <1>3, <1>4, PutReachable DEF Next, Write, vars, table

-----------------------------------------------------------------------------
(* The refinement mapping *)

Copies == [k \in Keys |-> IF invalid THEN <<>> ELSE CopiesOf(k)]
Tombstones == {s \in Slots : nodes[s].tombstone}
Holes == IF invalid THEN 0 ELSE Cardinality(Tombstones)

ShadowInv == IInv /\ Reachable

\* The probe of k comes to every slot that holds it.
LEMMA PositionsAre ==
    Reachable => \A k \in Keys : Positions(k) = {i \in Slots : Matches(Probe(k, i), k)}
PROOF
<1> QED BY DEF Reachable, Positions, Matches

LEMMA PositionsFinite ==
    \A k \in Keys : /\ Positions(k) \subseteq Slots /\ Positions(k) \subseteq Nat
                    /\ IsFiniteSet(Positions(k)) /\ Cardinality(Positions(k)) \in Nat
PROOF
<1> SUFFICES ASSUME NEW k \in Keys
             PROVE  /\ Positions(k) \subseteq Slots /\ Positions(k) \subseteq Nat
                    /\ IsFiniteSet(Positions(k)) /\ Cardinality(Positions(k)) \in Nat
  OBVIOUS
<1>1. Positions(k) \in SUBSET Slots
  BY DEF Positions
<1>2. Slots \subseteq Nat
  BY HashMapAssumption DEF Slots
<1> QED BY <1>1, <1>2, SlotsFinite, FS_Subset, FS_CardinalityType

LEMMA CopiesAre ==
    \A k \in Keys :
        CopiesOf(k) = [n \in 1..Cardinality(Positions(k)) |->
                          nodes[Probe(k, Nth(Positions(k), n))].val]
PROOF
<1> QED BY DEF CopiesOf, NthPosition, Nth, Below

LEMMA CopiesDomain ==
    \A k \in Keys : /\ DOMAIN CopiesOf(k) = 1..Cardinality(Positions(k))
                    /\ Len(CopiesOf(k)) = Cardinality(Positions(k))
PROOF
<1> SUFFICES ASSUME NEW k \in Keys
             PROVE  /\ DOMAIN CopiesOf(k) = 1..Cardinality(Positions(k))
                    /\ Len(CopiesOf(k)) = Cardinality(Positions(k))
  OBVIOUS
<1> DEFINE N == Cardinality(Positions(k))
<1>1. N \in Nat
  BY PositionsFinite
<1>2. DOMAIN CopiesOf(k) = 1..N
  BY CopiesAre
<1> HIDE DEF N
<1>3. Len(CopiesOf(k)) = N
  BY <1>1, <1>2
<1> QED BY <1>2, <1>3 DEF N

\* Each entry is a copy of its key, at its place among them.
LEMMA StoredAre ==
    ShadowInv /\ ~invalid =>
        Cardinality(UNION {{k} \X DOMAIN Copies[k] : k \in Keys}) = Cardinality(Entries)
PROOF
<1> SUFFICES ASSUME ShadowInv, ~invalid
             PROVE  Cardinality(UNION {{k} \X DOMAIN Copies[k] : k \in Keys})
                        = Cardinality(Entries)
  OBVIOUS
<1> DEFINE S == UNION {{k} \X DOMAIN Copies[k] : k \in Keys}
           place(e) == Nth(Positions(e[1]), e[2])
           g == [e \in S |-> Probe(e[1], place(e))]
<1>1. \A e : e \in S <=>
        \E k \in Keys : \E n \in 1..Cardinality(Positions(k)) : e = <<k, n>>
  <2>1. \A k \in Keys : DOMAIN Copies[k] = 1..Cardinality(Positions(k))
    BY CopiesDomain DEF Copies
  <2>2. \A e : e \in S <=> \E k \in Keys : e \in {k} \X DOMAIN Copies[k]
    OBVIOUS
  <2> HIDE DEF S
  <2>3. ASSUME NEW k \in Keys, NEW e
        PROVE  e \in {k} \X DOMAIN Copies[k]
                   <=> \E n \in 1..Cardinality(Positions(k)) : e = <<k, n>>
    <3>1. DOMAIN Copies[k] = 1..Cardinality(Positions(k))
      BY <2>1
    <3> DEFINE D == DOMAIN Copies[k]
    <3> HIDE DEF D
    <3>2. e \in {k} \X D <=> \E n \in D : e = <<k, n>>
      OBVIOUS
    <3> QED BY <3>1, <3>2, Zenon DEF D
  <2> QED BY <2>2, <2>3
<1>2. ASSUME NEW e \in S
      PROVE  /\ e[1] \in Keys /\ e[2] \in 1..Cardinality(Positions(e[1]))
             /\ e = <<e[1], e[2]>>
             /\ place(e) \in Positions(e[1])
             /\ Cardinality(Below(Positions(e[1]), place(e))) = e[2] - 1
  <2>1. PICK k \in Keys : \E n \in 1..Cardinality(Positions(k)) : e = <<k, n>>
    BY <1>1
  <2> PICK n \in 1..Cardinality(Positions(k)) : e = <<k, n>>
    BY <2>1
  <2>2. e[1] = k /\ e[2] = n
    OBVIOUS
  <2>3. Nth(Positions(k), n) \in Positions(k)
        /\ Cardinality(Below(Positions(k), Nth(Positions(k), n))) = n - 1
    BY PositionsFinite, NthIsElement
  <2> QED BY <2>1, <2>2, <2>3
<1> HIDE DEF S
<1>3. ASSUME NEW e \in S
      PROVE  /\ Probe(e[1], place(e)) \in Entries
             /\ nodes[Probe(e[1], place(e))].key = e[1] /\ place(e) \in Slots
  <2>1. e[1] \in Keys /\ place(e) \in Slots /\ Matches(Probe(e[1], place(e)), e[1])
    BY <1>2 DEF Positions
  <2>2. Probe(e[1], place(e)) \in Slots /\ e[1] # NoKey
    BY <2>1, ProbeOnce, HashMapAssumption
  <2> QED BY <2>1, <2>2 DEF Entries, Occupied, Matches, SameKey
<1>4. g \in [S -> Entries]
  BY <1>3
<1>5. ASSUME NEW d \in S, NEW e \in S, g[d] = g[e] PROVE d = e
  <2>1. Probe(d[1], place(d)) = Probe(e[1], place(e))
    BY <1>5
  <2>2. d[1] = e[1]
    BY <1>3, <2>1
  <2>3. place(d) = place(e)
    BY <1>2, <1>3, <2>1, <2>2, ProbeOnce
  <2>4. d[2] - 1 = e[2] - 1
    BY <1>2, <2>2, <2>3
  <2>5. d[2] \in Nat /\ e[2] \in Nat
    BY <1>2
  <2>6. d[2] = e[2]
    BY <2>4, <2>5
  <2> QED BY <1>2, <2>2, <2>6
<1>6. ASSUME NEW s \in Entries PROVE \E e \in S : g[e] = s
  <2> DEFINE k == nodes[s].key
  <2>1. s \in Slots /\ k \in Keys /\ Matches(s, k)
    BY DEF Entries, Occupied, ShadowInv, IInv, Types, Node, Matches, SameKey
  <2> HIDE DEF k
  <2>2. PICK i \in Slots : Probe(k, i) = s
    BY <2>1, ProbeReaches
  <2>3. i \in Positions(k)
    BY <2>1, <2>2, PositionsAre DEF ShadowInv
  <2> DEFINE n == Cardinality(Below(Positions(k), i)) + 1
  <2>4. n \in 1..Cardinality(Positions(k)) /\ Nth(Positions(k), n) = i
    BY <2>1, <2>3, PositionsFinite, NthOfRank
  <2> HIDE DEF n
  <2>5. <<k, n>> \in S
    BY <1>1, <2>1, <2>4
  <2>6. g[<<k, n>>] = s
    BY <2>2, <2>4, <2>5
  <2> QED BY <2>5, <2>6
<1>7. g \in Injection(S, Entries) /\ g \in Surjection(S, Entries)
  <2> HIDE DEF g
  <2> QED BY <1>4, <1>5, <1>6 DEF Injection, IsInjective, Surjection
<1>8. Cardinality(S) = Cardinality(Entries)
  <2> HIDE DEF g
  <2> QED BY <1>7, EntriesFinite, FS_Injection
<1> QED BY <1>8 DEF S

\* There is no room for another entry when every slot is written.
LEMMA FullIs ==
    ShadowInv /\ ~invalid =>
        (Cardinality(UNION {{k} \X DOMAIN Copies[k] : k \in Keys}) + Holes = Capacity
             <=> IsFull)
PROOF
<1> SUFFICES ASSUME ShadowInv, ~invalid
             PROVE  Cardinality(Entries) + Cardinality(Tombstones) = Capacity <=> IsFull
  BY StoredAre DEF Holes
<1> DEFINE O == {s \in Slots : Occupied(s)}
<1>1. Entries \cup Tombstones = O /\ Entries \cap Tombstones = {}
  BY DEF ShadowInv, IInv, TableInv, SlotsInUse, Entries, Tombstones
<1>2. IsFiniteSet(Entries) /\ IsFiniteSet(Tombstones)
  <2>1. Tombstones \in SUBSET Slots
    BY DEF Tombstones
  <2> QED BY <2>1, EntriesFinite, SlotsFinite, FS_Subset
<1>3. Cardinality(O) = Cardinality(Entries) + Cardinality(Tombstones)
  <2> HIDE DEF O
  <2>1. Cardinality(O) = Cardinality(Entries) + Cardinality(Tombstones) - 0
    BY <1>1, <1>2, FS_Union, FS_EmptySet
  <2> QED BY <1>2, <2>1, FS_CardinalityType
<1>4. O \in SUBSET Slots /\ (IsFull <=> O = Slots)
  BY DEF IsFull
<1> HIDE DEF O
<1>5. Cardinality(O) = Capacity <=> O = Slots
  BY <1>4, SlotsFinite, FS_Subset
<1> QED BY <1>3, <1>4, <1>5

LEMMA PromisedFull == ShadowInv /\ ~invalid => (Promise!Full <=> IsFull)
PROOF
<1>1. \A S : Promise!Cardinality(S) = Cardinality(S)
  BY DEF Promise!Cardinality, Cardinality
<1> QED BY <1>1, FullIs DEF Promise!Full, Promise!Stored, Copies, Holes, Tombstones

-----------------------------------------------------------------------------
(* The refinement, action by action *)

LEMMA SameSequence ==
    ASSUME NEW T, NEW q \in Seq(T), NEW r \in Seq(T), Len(q) = Len(r),
           \A n \in 1..Len(q) : q[n] = r[n]
    PROVE  q = r
OBVIOUS

\* Writing a sequence from its first element, and leaving one out.
LEMMA FirstReplaced ==
    ASSUME NEW T, NEW s \in Seq(T), NEW v \in T, NEW q \in Seq(T),
           Len(q) = Len(s), Len(s) # 0, q[1] = v,
           \A n \in 1..Len(s) : n # 1 => q[n] = s[n]
    PROVE  s # <<>> /\ q = <<v>> \o Tail(s)
PROOF
<1>1. Tail(s) \in Seq(T) /\ Len(Tail(s)) = Len(s) - 1 /\ s # <<>>
      /\ \A n \in 1..(Len(s) - 1) : Tail(s)[n] = s[n + 1]
  BY HeadTailProperties, EmptySeq
<1> DEFINE r == <<v>> \o Tail(s)
<1>2. r \in Seq(T) /\ Len(r) = Len(s) /\ r[1] = v
      /\ \A n \in 1..Len(s) : n # 1 => r[n] = Tail(s)[n - 1]
  BY <1>1
<1> HIDE DEF r
<1>3. \A n \in 1..Len(s) : n # 1 => n - 1 \in 1..(Len(s) - 1) /\ (n - 1) + 1 = n
  OBVIOUS
<1>4. \A n \in 1..Len(q) : q[n] = r[n]
  BY <1>1, <1>2, <1>3
<1>5. q = r
  BY <1>2, <1>4, SameSequence
<1> QED BY <1>1, <1>5 DEF r

LEMMA FirstAdded ==
    ASSUME NEW T, NEW s \in Seq(T), NEW v \in T, NEW q \in Seq(T),
           Len(q) = Len(s) + 1, q[1] = v,
           \A n \in 1..Len(s) : q[n + 1] = s[n]
    PROVE  q = <<v>> \o s
PROOF
<1> DEFINE r == <<v>> \o s
<1>1. r \in Seq(T) /\ Len(r) = Len(s) + 1 /\ r[1] = v
      /\ \A n \in 1..Len(s) : r[n + 1] = s[n]
  OBVIOUS
<1> HIDE DEF r
<1>2. \A n \in 1..Len(q) : n = 1 \/ (n - 1 \in 1..Len(s) /\ (n - 1) + 1 = n)
  OBVIOUS
<1>3. \A n \in 1..Len(q) : q[n] = r[n]
  BY <1>1, <1>2
<1>4. q = r
  BY <1>1, <1>3, SameSequence
<1> QED BY <1>4 DEF r

LEMMA OneLeftOut ==
    ASSUME NEW T, NEW s \in Seq(T), NEW r \in 1..Len(s), NEW q \in Seq(T),
           Len(q) = Len(s) - 1,
           \A n \in 1..Len(q) : q[n] = s[IF n < r THEN n ELSE n + 1]
    PROVE  /\ q = Promise!RemoveAt(s, r)
           /\ r = 1 => q = Tail(s)
PROOF
<1> DEFINE a == SubSeq(s, 1, r - 1)
           b == SubSeq(s, r + 1, Len(s))
<1>1. /\ a \in Seq(T) /\ Len(a) = r - 1
      /\ \A n \in 1..(r - 1) : a[n] = s[n]
  OBVIOUS
<1>2. /\ b \in Seq(T) /\ Len(b) = Len(s) - r
      /\ \A n \in 1..(Len(s) - r) : b[n] = s[n + r]
  OBVIOUS
<1> HIDE DEF a, b
<1> DEFINE c == a \o b
<1>3. c \in Seq(T) /\ Len(c) = Len(s) - 1
      /\ \A n \in 1..(Len(s) - 1) : c[n] = IF n < r THEN a[n] ELSE b[n - (r - 1)]
  <2>1. /\ c \in Seq(T) /\ Len(c) = Len(a) + Len(b)
        /\ \A n \in 1..(Len(a) + Len(b)) : c[n] = IF n <= Len(a) THEN a[n] ELSE b[n - Len(a)]
    BY <1>1, <1>2, ConcatProperties
  <2>2. Len(s) \in Nat /\ r \in Nat /\ (r - 1) + (Len(s) - r) = Len(s) - 1
    OBVIOUS
  <2>3. Len(a) + Len(b) = Len(s) - 1
    BY <1>1, <1>2, <2>2
  <2>4. \A n \in 1..(Len(s) - 1) : n <= r - 1 <=> n < r
    BY <2>2
  <2> HIDE DEF c
  <2> QED BY <1>1, <2>1, <2>3, <2>4
<1> HIDE DEF c
<1>4. ASSUME NEW n \in 1..Len(q) PROVE q[n] = c[n]
  <2>1. CASE n < r
    <3>1. n \in 1..(r - 1) /\ n \in 1..(Len(s) - 1)
      BY <2>1
    <3>2. c[n] = a[n] /\ a[n] = s[n]
      BY <1>1, <1>3, <2>1, <3>1
    <3> QED BY <2>1, <3>2
  <2>2. CASE ~(n < r)
    <3>1. n - (r - 1) \in 1..(Len(s) - r) /\ (n - (r - 1)) + r = n + 1
      BY <2>2
    <3>2. c[n] = b[n - (r - 1)] /\ b[n - (r - 1)] = s[n + 1]
      BY <1>2, <1>3, <2>2, <3>1
    <3> QED BY <2>2, <3>2
  <2> QED BY <2>1, <2>2
<1>5. q = c
  BY <1>3, <1>4, SameSequence
<1>6. c = Promise!RemoveAt(s, r)
  BY DEF Promise!RemoveAt, a, b, c
<1>7. ASSUME r = 1 PROVE q = Tail(s)
  <2>1. s # <<>>
    OBVIOUS
  <2>2. Tail(s) \in Seq(T) /\ Len(Tail(s)) = Len(s) - 1
        /\ \A n \in 1..(Len(s) - 1) : Tail(s)[n] = s[n + 1]
    BY <2>1, HeadTailProperties
  <2>3. \A n \in 1..Len(q) : q[n] = Tail(s)[n]
    BY <1>7, <2>2
  <2> QED BY <2>2, <2>3, SameSequence
<1> QED BY <1>5, <1>6, <1>7

\* The values a table has at the positions P of a probe, in their order.
CopiesIn(T, P, k) == [n \in 1..Cardinality(P) |-> T[Probe(k, Nth(P, n))].val]

LEMMA CopiesThen ==
    ASSUME NEW k \in Keys
    PROVE  /\ CopiesOf(k) = CopiesIn(nodes, Positions(k), k)
           /\ CopiesOf(k)' = CopiesIn(nodes', Positions(k)', k)
PROOF
<1> QED BY DEF CopiesOf, CopiesIn, NthPosition, Nth, Below, Probe

LEMMA CopiesInTyped ==
    ASSUME NEW T \in [Slots -> Node], NEW k \in Keys, NEW P \in SUBSET Slots
    PROVE  /\ P \subseteq Nat /\ IsFiniteSet(P) /\ Cardinality(P) \in Nat
           /\ CopiesIn(T, P, k) \in Seq(Values \cup {NoVal})
           /\ Len(CopiesIn(T, P, k)) = Cardinality(P)
           /\ \A n \in 1..Cardinality(P) :
                /\ Nth(P, n) \in P
                /\ CopiesIn(T, P, k)[n] = T[Probe(k, Nth(P, n))].val
PROOF
<1> DEFINE N == Cardinality(P)
<1>1. P \subseteq Nat /\ IsFiniteSet(P) /\ N \in Nat
  <2>1. Slots \subseteq Nat
    BY HashMapAssumption DEF Slots
  <2> QED BY <2>1, SlotsFinite, FS_Subset, FS_CardinalityType
<1>2. \A n \in 1..N : Nth(P, n) \in P
  BY <1>1, NthIsElement
<1>3. \A n \in 1..N : T[Probe(k, Nth(P, n))].val \in Values \cup {NoVal}
  <2>1. ASSUME NEW s \in Slots PROVE T[s].val \in Values \cup {NoVal}
    BY DEF Node
  <2> QED BY <1>2, <2>1, ProbeOnce
<1> HIDE DEF N
<1> DEFINE c == [n \in 1..N |-> T[Probe(k, Nth(P, n))].val]
<1>4. c \in Seq(Values \cup {NoVal}) /\ Len(c) = N
  <2>1. c \in [1..N -> Values \cup {NoVal}]
    BY <1>3
  <2> HIDE DEF c
  <2> QED BY <1>1, <2>1
<1> QED BY <1>1, <1>2, <1>4 DEF CopiesIn, N

LEMMA FirstCopyReplaced ==
    ASSUME NEW T \in [Slots -> Node], NEW U \in [Slots -> Node], NEW k \in Keys,
           NEW P \in SUBSET Slots, NEW a \in P, \A i \in P : a <= i,
           \A i \in P : i # a => U[Probe(k, i)].val = T[Probe(k, i)].val
    PROVE  /\ CopiesIn(T, P, k) # <<>>
           /\ CopiesIn(U, P, k) = <<U[Probe(k, a)].val>> \o Tail(CopiesIn(T, P, k))
PROOF
<1> DEFINE s == CopiesIn(T, P, k)
           q == CopiesIn(U, P, k)
           v == U[Probe(k, a)].val
           N == Cardinality(P)
<1>1. /\ P \subseteq Nat /\ IsFiniteSet(P) /\ N \in Nat
      /\ s \in Seq(Values \cup {NoVal}) /\ Len(s) = N
      /\ \A n \in 1..N : Nth(P, n) \in P /\ s[n] = T[Probe(k, Nth(P, n))].val
  BY CopiesInTyped
<1>2. /\ q \in Seq(Values \cup {NoVal}) /\ Len(q) = N
      /\ \A n \in 1..N : q[n] = U[Probe(k, Nth(P, n))].val
  BY CopiesInTyped
<1>3. 1 \in 1..N /\ Nth(P, 1) = a
  BY <1>1, LeastIsFirst
<1>4. v \in Values \cup {NoVal}
  BY ProbeOnce DEF Node
<1>5. ASSUME NEW n \in 1..N, n # 1 PROVE q[n] = s[n]
  <2>1. Nth(P, n) # a
    <3>1. Cardinality(Below(P, Nth(P, n))) = n - 1 /\ Cardinality(Below(P, Nth(P, 1))) = 1 - 1
      BY <1>1, <1>3, NthIsElement
    <3>2. n - 1 # 1 - 1
      BY <1>5
    <3> QED BY <1>3, <3>1, <3>2
  <2> QED BY <1>1, <1>2, <2>1
<1> HIDE DEF s, q, v, N
<1>6. q[1] = v /\ N # 0
  BY <1>1, <1>2, <1>3 DEF v
<1>7. s # <<>> /\ q = <<v>> \o Tail(s)
  BY <1>1, <1>2, <1>4, <1>5, <1>6, FirstReplaced
<1> QED BY <1>7 DEF s, q, v

LEMMA CopyLeftOut ==
    ASSUME NEW T \in [Slots -> Node], NEW U \in [Slots -> Node], NEW k \in Keys,
           NEW P \in SUBSET Slots, NEW b \in P,
           \A i \in P : i # b => U[Probe(k, i)].val = T[Probe(k, i)].val
    PROVE  \E r \in 1..Len(CopiesIn(T, P, k)) :
             /\ CopiesIn(U, P \ {b}, k) = Promise!RemoveAt(CopiesIn(T, P, k), r)
             /\ (\A i \in P : b <= i) =>
                    /\ CopiesIn(T, P, k) # <<>>
                    /\ CopiesIn(U, P \ {b}, k) = Tail(CopiesIn(T, P, k))
PROOF
<1>0. PICK Q : Q = P \ {b}
  OBVIOUS
<1> DEFINE s == CopiesIn(T, P, k)
           q == CopiesIn(U, Q, k)
           N == Cardinality(P)
           M == Cardinality(Q)
           r == Cardinality(Below(P, b)) + 1
<1>1. /\ P \subseteq Nat /\ IsFiniteSet(P) /\ N \in Nat
      /\ s \in Seq(Values \cup {NoVal}) /\ Len(s) = N
      /\ \A n \in 1..N : s[n] = T[Probe(k, Nth(P, n))].val
  BY CopiesInTyped
<1>2. /\ q \in Seq(Values \cup {NoVal}) /\ Len(q) = M
      /\ \A n \in 1..M : Nth(Q, n) \in Q /\ q[n] = U[Probe(k, Nth(Q, n))].val
  <2>1. Q \in SUBSET Slots
    BY <1>0
  <2> QED BY <2>1, CopiesInTyped
<1>3. r \in 1..N /\ Nth(P, r) = b
  BY <1>1, NthOfRank
<1> HIDE DEF s, q, r
<1>4. M = N - 1 /\ \A n \in 1..M : Nth(Q, n) = Nth(P, IF n < r THEN n ELSE n + 1)
  <2>1. P \subseteq Nat /\ IsFiniteSet(P) /\ r \in 1..Cardinality(P) /\ Q = P \ {Nth(P, r)}
    BY <1>0, <1>1, <1>3
  <2>2. /\ Cardinality(P \ {Nth(P, r)}) = Cardinality(P) - 1
        /\ \A n \in 1..Cardinality(P \ {Nth(P, r)}) :
             Nth(P \ {Nth(P, r)}, n) = Nth(P, IF n < r THEN n ELSE n + 1)
    BY <2>1, NthWithout, Zenon
  <2> QED BY <2>1, <2>2
<1> HIDE DEF N, M
<1>5. ASSUME NEW n \in 1..M PROVE q[n] = s[IF n < r THEN n ELSE n + 1]
  <2> DEFINE m == IF n < r THEN n ELSE n + 1
  <2>1. m \in 1..N
    BY <1>1, <1>3, <1>4
  <2> HIDE DEF m
  <2>2. Nth(Q, n) = Nth(P, m) /\ Nth(Q, n) \in Q
    BY <1>2, <1>4 DEF m
  <2>3. q[n] = T[Probe(k, Nth(Q, n))].val
    BY <1>0, <1>2, <2>2
  <2>4. q[n] = s[m]
    BY <1>1, <2>1, <2>2, <2>3
  <2> QED BY <2>4 DEF m
<1>6. q = Promise!RemoveAt(s, r) /\ (r = 1 => q = Tail(s))
  <2> DEFINE V == Values \cup {NoVal}
  <2>1. s \in Seq(V) /\ q \in Seq(V) /\ r \in 1..Len(s) /\ Len(q) = Len(s) - 1
    BY <1>1, <1>2, <1>3, <1>4
  <2>2. \A n \in 1..Len(q) : q[n] = s[IF n < r THEN n ELSE n + 1]
    BY <1>2, <1>5
  <2> HIDE DEF V
  <2> QED BY <2>1, <2>2, OneLeftOut, ZenonT(60)
<1>7. ASSUME \A i \in P : b <= i PROVE r = 1
  <2>1. Nth(P, 1) = b /\ 1 \in 1..N
    BY <1>1, <1>7, LeastIsFirst DEF N
  <2>2. Cardinality(Below(P, b)) = 1 - 1
    BY <1>1, <2>1, NthIsElement DEF N
  <2> QED BY <2>2 DEF r
<1>8. s # <<>>
  BY <1>1, <1>3
<1>9. /\ r \in 1..Len(s) /\ q = Promise!RemoveAt(s, r)
      /\ (\A i \in P : b <= i) => s # <<>> /\ q = Tail(s)
  BY <1>1, <1>3, <1>6, <1>7, <1>8
<1> QED BY <1>0, <1>9 DEF s, q

LEMMA CopyAdded ==
    ASSUME NEW T \in [Slots -> Node], NEW U \in [Slots -> Node], NEW k \in Keys,
           NEW Q \in SUBSET Slots, NEW a \in Q, \A i \in Q : a <= i,
           \A i \in Q : i # a => U[Probe(k, i)].val = T[Probe(k, i)].val
    PROVE  CopiesIn(U, Q, k) = <<U[Probe(k, a)].val>> \o CopiesIn(T, Q \ {a}, k)
PROOF
<1>0. PICK P : P = Q \ {a}
  OBVIOUS
<1> DEFINE s == CopiesIn(T, P, k)
           q == CopiesIn(U, Q, k)
           v == U[Probe(k, a)].val
           N == Cardinality(P)
           M == Cardinality(Q)
<1>1. /\ N \in Nat
      /\ s \in Seq(Values \cup {NoVal}) /\ Len(s) = N
      /\ \A n \in 1..N : Nth(P, n) \in P /\ s[n] = T[Probe(k, Nth(P, n))].val
  <2>1. P \in SUBSET Slots
    BY <1>0
  <2> QED BY <2>1, CopiesInTyped
<1>2. /\ Q \subseteq Nat /\ IsFiniteSet(Q) /\ M \in Nat
      /\ q \in Seq(Values \cup {NoVal}) /\ Len(q) = M
      /\ \A n \in 1..M : q[n] = U[Probe(k, Nth(Q, n))].val
  BY CopiesInTyped
<1>3. 1 \in 1..M /\ Nth(Q, 1) = a
  BY <1>2, LeastIsFirst
<1>4. v \in Values \cup {NoVal}
  BY ProbeOnce DEF Node
<1>5. N = M - 1 /\ \A n \in 1..N : Nth(P, n) = Nth(Q, IF n < 1 THEN n ELSE n + 1)
  <2> DEFINE r == 1
  <2>1. Q \subseteq Nat /\ IsFiniteSet(Q) /\ r \in 1..Cardinality(Q) /\ P = Q \ {Nth(Q, r)}
    BY <1>0, <1>2, <1>3
  <2> HIDE DEF r
  <2>2. /\ Cardinality(Q \ {Nth(Q, r)}) = Cardinality(Q) - 1
        /\ \A n \in 1..Cardinality(Q \ {Nth(Q, r)}) :
             Nth(Q \ {Nth(Q, r)}, n) = Nth(Q, IF n < r THEN n ELSE n + 1)
    BY <2>1, NthWithout, Zenon
  <2> QED BY <2>1, <2>2 DEF r
<1>6. ASSUME NEW n \in 1..N PROVE q[n + 1] = s[n]
  <2>1. n + 1 \in 1..M /\ ~(n < 1)
    BY <1>1, <1>2, <1>5
  <2>2. Nth(P, n) = Nth(Q, n + 1)
    BY <1>5, <2>1
  <2>3. Nth(P, n) \in P /\ s[n] = T[Probe(k, Nth(P, n))].val
    BY <1>1
  <2> QED BY <1>0, <1>2, <2>1, <2>2, <2>3
<1> HIDE DEF s, q, v, N, M
<1>7. q[1] = v /\ M = N + 1
  <2>1. q[1] = v
    BY <1>2, <1>3 DEF v
  <2>2. N \in Nat /\ M \in Nat /\ N = M - 1
    BY <1>1, <1>2, <1>5
  <2> QED BY <2>1, <2>2
<1>8. q = <<v>> \o s
  BY <1>1, <1>2, <1>4, <1>6, <1>7, FirstAdded
<1> QED BY <1>0, <1>8 DEF s, q, v

\* Keys whose entries keep their places and values keep their copies.
LEMMA CopiesKept ==
    ASSUME NEW k \in Keys, Positions(k)' = Positions(k),
           \A i \in Positions(k) : nodes'[Probe(k, i)].val = nodes[Probe(k, i)].val
    PROVE  CopiesOf(k)' = CopiesOf(k)
PROOF
<1> DEFINE P == Positions(k)
<1>1. \A n \in 1..Cardinality(P) : Nth(P, n) \in P
  BY PositionsFinite, NthIsElement
<1>2. CopiesIn(nodes', P, k) = CopiesIn(nodes, P, k)
  <2> HIDE DEF P
  <2> QED BY <1>1 DEF CopiesIn, P
<1> QED BY <1>2, CopiesThen

\* What a step that writes one slot does to the positions of each key.
LEMMA PositionsThen ==
    ASSUME Reachable', NEW k \in Keys
    PROVE  /\ Positions(k)' \in SUBSET Slots
           /\ \A i \in Slots : i \in Positions(k)' <=> /\ nodes'[Probe(k, i)].key = k
                                                      /\ ~nodes'[Probe(k, i)].tombstone
PROOF
<1> QED BY DEF Reachable, Positions, Matches, SameKey, Occupied, Probe

LEMMA PositionsNow ==
    ASSUME Reachable, NEW k \in Keys
    PROVE  /\ Positions(k) \in SUBSET Slots
           /\ \A i \in Slots : i \in Positions(k) <=> /\ nodes[Probe(k, i)].key = k
                                                     /\ ~nodes[Probe(k, i)].tombstone
PROOF
<1> QED BY DEF Reachable, Positions, Matches, SameKey, Occupied, Probe

\* No entry of its key is before the slot that put writes.
LEMMA PutIsFirst ==
    ASSUME NEW k \in Keys
    PROVE  \E a \in Slots : /\ Probe(k, a) = PutSlot(k)
                            /\ \A i \in Slots : i < a => ~SameKey(Probe(k, i), k)
                            /\ IsFull \/ CanPut(PutSlot(k), k)
PROOF
<1>1. /\ Capacity \in Nat \ {0} /\ Hash[k] \in 0..(Capacity - 1)
      /\ \A i \in Slots : i \in Nat /\ 0 \in Slots
  BY HashMapAssumption DEF Slots
<1>2. CASE IsFull
  <2>1. Probe(k, 0) = Hash[k]
    BY <1>1 DEF Probe
  <2>2. \A i \in Slots : ~(i < 0)
    BY <1>1
  <2>3. PutSlot(k) = Hash[k] /\ 0 \in Slots
    BY <1>1, <1>2 DEF PutSlot, Slots
  <2> QED BY <1>2, <2>1, <2>2, <2>3
<1>3. CASE ~IsFull
  <2>1. PICK a \in Slots : /\ PutSlot(k) = Probe(k, a) /\ CanPut(PutSlot(k), k)
                           /\ \A j \in 0..(a - 1) : ~CanPut(Probe(k, j), k)
    BY <1>3, PutStops
  <2>2. \A i \in Slots : i < a => i \in 0..(a - 1)
    BY <1>1
  <2> QED BY <1>3, <2>1, <2>2 DEF CanPut, SameKey
<1> QED BY <1>2, <1>3

LEMMA SameSlots ==
    ASSUME NEW P \in SUBSET Slots, NEW Q \in SUBSET Slots,
           \A i \in Slots : i \in P <=> i \in Q
    PROVE  P = Q
OBVIOUS

LEMMA PutRefines ==
    ASSUME ShadowInv, ShadowInv', NEW t \in Threads, NEW k \in Keys,
           NEW v \in Values \ live, NEW force \in BOOLEAN, Put(t, k, v, force)
    PROVE  \/ Promise!Store(k, v) \/ Promise!Lose
           \/ \E j \in Keys : \E n \in 1..Len(Copies[j]) : Promise!Displace(k, v, j, n)
PROOF
<1> DEFINE p == PutSlot(k)
<1>1. /\ p \in Slots
      /\ \A s \in Slots : /\ nodes'[s].key = IF s = p THEN k ELSE nodes[s].key
                          /\ nodes'[s].val = IF s = p THEN v ELSE nodes[s].val
                          /\ nodes'[s].tombstone = nodes[s].tombstone
  BY PutWrites DEF ShadowInv, IInv
<1>2. ~invalid /\ invalid' = invalid /\ k # NoKey
  BY HashMapAssumption DEF Put
<1>3. PICK a \in Slots : /\ Probe(k, a) = p
                         /\ \A i \in Slots : i < a => nodes[Probe(k, i)].key # k
                         /\ IsFull \/ CanPut(p, k)
  BY PutIsFirst DEF SameKey
<1>4. nodes \in [Slots -> Node] /\ nodes' \in [Slots -> Node]
  BY DEF ShadowInv, IInv, Types
<1> HIDE DEF p
<1>5. \A x \in Keys : /\ Positions(x) \in SUBSET Slots
                      /\ \A i \in Slots : i \in Positions(x) <=>
                            nodes[Probe(x, i)].key = x /\ ~nodes[Probe(x, i)].tombstone
  BY PositionsNow DEF ShadowInv
<1>6. \A x \in Keys : /\ Positions(x)' \in SUBSET Slots
                      /\ \A i \in Slots : i \in Positions(x)' <=>
                            nodes'[Probe(x, i)].key = x /\ ~nodes'[Probe(x, i)].tombstone
  BY PositionsThen DEF ShadowInv
<1>7. \A x \in Keys, i \in Slots :
        /\ Probe(x, i) \in Slots
        /\ i \in Positions(x)' <=> IF Probe(x, i) = p THEN x = k /\ ~nodes[p].tombstone
                                                     ELSE i \in Positions(x)
  <2>1. SUFFICES ASSUME NEW x \in Keys, NEW i \in Slots
        PROVE  /\ Probe(x, i) \in Slots
               /\ i \in Positions(x)' <=> IF Probe(x, i) = p
                                           THEN x = k /\ ~nodes[p].tombstone
                                           ELSE i \in Positions(x)
    OBVIOUS
  <2>2. Probe(x, i) \in Slots
    BY ProbeOnce
  <2> QED BY <1>1, <1>5, <1>6, <2>2
<1>8. Tombstones' = Tombstones /\ Holes' = Holes
  BY <1>1, <1>2 DEF Tombstones, Holes
<1>9. ASSUME NEW x \in Keys, x # k, nodes[p].key # x \/ nodes[p].tombstone
      PROVE  Copies'[x] = Copies[x]
  <2>1. \A i \in Slots : i \in Positions(x)' <=> i \in Positions(x)
    BY <1>5, <1>7, <1>9
  <2>2. Positions(x)' = Positions(x)
    BY <1>5, <1>6, <2>1, SameSlots
  <2>3. \A i \in Positions(x) : nodes'[Probe(x, i)].val = nodes[Probe(x, i)].val
    BY <1>1, <1>5, <1>7, <1>9
  <2> QED BY <1>2, <2>2, <2>3, CopiesKept DEF Copies
<1>10. /\ \A x \in Keys : Copies[x] = CopiesOf(x) /\ Copies'[x] = CopiesOf(x)'
       /\ Copies = [x \in Keys |-> Copies[x]] /\ Copies' = [x \in Keys |-> Copies'[x]]
  BY <1>2 DEF Copies
<1>11. CASE nodes[p].tombstone
  <2>1. Positions(k)' = Positions(k)
    <3>1. \A i \in Slots : i \in Positions(k)' <=> i \in Positions(k)
      BY <1>5, <1>7, <1>11
    <3> QED BY <1>5, <1>6, <3>1, SameSlots
  <2>2. \A i \in Positions(k) : nodes'[Probe(k, i)].val = nodes[Probe(k, i)].val
    BY <1>1, <1>5, <1>7, <1>11
  <2>3. Copies'[k] = Copies[k]
    BY <1>10, <2>1, <2>2, CopiesKept
  <2>4. Copies' = Copies
    BY <1>9, <1>10, <1>11, <2>3
  <2>5. Holes \in Nat /\ Holes # 0
    <3>1. p \in Tombstones /\ Tombstones \in SUBSET Slots
      BY <1>1, <1>11 DEF Tombstones
    <3>2. IsFiniteSet(Tombstones) /\ Tombstones # {}
      BY <3>1, SlotsFinite, FS_Subset
    <3> QED BY <1>2, <3>2, FS_EmptySet, FS_CardinalityType DEF Holes
  <2>6. Promise!Lose
    <3>1. Holes > 0
      BY <2>5
    <3> QED BY <1>2, <1>8, <2>4, <3>1 DEF Promise!Lose, Promise!vars, Copies, Holes, Tombstones
  <2> QED BY <2>6
<1>12. CASE ~nodes[p].tombstone /\ nodes[p].key = k
  <2>1. Positions(k)' = Positions(k)
    <3>1. \A i \in Slots : i \in Positions(k)' <=> i \in Positions(k)
      BY <1>5, <1>7, <1>12
    <3> QED BY <1>5, <1>6, <3>1, SameSlots
  <2>2. a \in Positions(k)
    BY <1>3, <1>5, <1>12
  <2>3. \A i \in Positions(k) : a <= i
    <3>1. \A i \in Slots : i \in Nat
      BY HashMapAssumption DEF Slots
    <3> QED BY <1>3, <1>5, <3>1
  <2>4. \A i \in Positions(k) : i # a => nodes'[Probe(k, i)].val = nodes[Probe(k, i)].val
    BY <1>1, <1>3, <1>5, <1>7, ProbeOnce
  <2>5. Positions(k) \in SUBSET Slots /\ nodes'[Probe(k, a)].val = v
    BY <1>1, <1>3, <1>5
  <2>6. /\ CopiesIn(nodes, Positions(k), k) # <<>>
        /\ CopiesIn(nodes', Positions(k), k)
               = <<v>> \o Tail(CopiesIn(nodes, Positions(k), k))
    BY <1>4, <2>2, <2>3, <2>4, <2>5, FirstCopyReplaced
  <2>7. Copies[k] # <<>> /\ Copies'[k] = <<v>> \o Tail(Copies[k])
    BY <1>10, <2>1, <2>6, CopiesThen
  <2>8. Copies' = [Copies EXCEPT ![k] = <<v>> \o (IF @ = <<>> THEN <<>> ELSE Tail(@))]
    BY <1>9, <1>10, <1>12, <2>7
  <2>9. Promise!Store(k, v)
    BY <1>2, <1>8, <2>7, <2>8 DEF Promise!Store, Copies, Holes, Tombstones
  <2> QED BY <2>9
<1>13. CASE ~nodes[p].tombstone /\ nodes[p].key # k
  <2>1. a \in Positions(k)' /\ Positions(k) = Positions(k)' \ {a}
    <3>1. \A i \in Slots : Probe(k, i) = p <=> i = a
      BY <1>3, ProbeOnce
    <3>2. a \in Positions(k)' /\ a \notin Positions(k)
      BY <1>3, <1>5, <1>7, <1>13
    <3>3. \A i \in Slots : i \in Positions(k) <=> i \in Positions(k)' \ {a}
      BY <1>7, <3>1, <3>2
    <3> QED BY <1>5, <1>6, <3>2, <3>3, SameSlots
  <2>2. \A i \in Positions(k)' : a <= i
    <3>1. \A i \in Slots : i \in Nat
      BY HashMapAssumption DEF Slots
    <3>2. \A i \in Positions(k) : a <= i
      BY <1>3, <1>5, <3>1
    <3> QED BY <2>1, <3>1, <3>2
  <2>3. \A i \in Positions(k) : nodes'[Probe(k, i)].val = nodes[Probe(k, i)].val
    BY <1>1, <1>5, <1>7, <1>13
  <2>4. Positions(k)' \in SUBSET Slots /\ nodes'[Probe(k, a)].val = v
    BY <1>1, <1>3, <1>6
  <2>5. CopiesIn(nodes', Positions(k)', k) = <<v>> \o CopiesIn(nodes, Positions(k), k)
    <3>1. \A i \in Positions(k)' :
            i # a => nodes'[Probe(k, i)].val = nodes[Probe(k, i)].val
      BY <2>1, <2>3
    <3>2. CopiesIn(nodes', Positions(k)', k)
              = <<nodes'[Probe(k, a)].val>> \o CopiesIn(nodes, Positions(k)' \ {a}, k)
      <4>1. PICK Q \in SUBSET Slots : Q = Positions(k)'
        BY <2>4
      <4>2. PICK U \in [Slots -> Node] : U = nodes'
        BY <1>4
      <4>3. PICK T \in [Slots -> Node] : T = nodes
        BY <1>4
      <4>4. a \in Q /\ \A i \in Q : a <= i
        BY <2>1, <2>2, <4>1
      <4>5. \A i \in Q : i # a => U[Probe(k, i)].val = T[Probe(k, i)].val
        BY <3>1, <4>1, <4>2, <4>3
      <4>6. CopiesIn(U, Q, k) = <<U[Probe(k, a)].val>> \o CopiesIn(T, Q \ {a}, k)
        BY <4>4, <4>5, CopyAdded
      <4> QED BY <4>1, <4>2, <4>3, <4>6
    <3> QED BY <2>1, <2>4, <3>2
  <2>6. Copies'[k] = <<v>> \o Copies[k]
    BY <1>10, <2>5, CopiesThen
  <2>7. CASE ~Occupied(p)
    <3>1. Positions(k) = {}
      <4>1. \A i \in Slots : i \in Nat
        BY HashMapAssumption DEF Slots
      <4>2. ASSUME NEW i \in Positions(k) PROVE FALSE
        <5>1. i \in Slots /\ nodes[Probe(k, i)].key = k
          BY <1>5
        <5>2. i # a
          BY <1>3, <1>13, <5>1
        <5>3. a < i
          BY <1>3, <4>1, <5>1, <5>2
        <5>4. a \in 0..(i - 1)
          BY <4>1, <5>1, <5>3
        <5> QED BY <1>3, <2>7, <5>4 DEF Positions
      <4> QED BY <4>2
    <3>2. Copies[k] = <<>>
      <4>1. Len(Copies[k]) = 0 /\ Copies[k] \in Seq(Values \cup {NoVal})
        <5>1. /\ CopiesIn(nodes, Positions(k), k) \in Seq(Values \cup {NoVal})
              /\ Len(CopiesIn(nodes, Positions(k), k)) = Cardinality(Positions(k))
          BY <1>4, <1>5, CopiesInTyped
        <5>2. Copies[k] = CopiesIn(nodes, Positions(k), k)
          BY <1>10, CopiesThen
        <5> QED BY <3>1, <5>1, <5>2, FS_EmptySet
      <4> QED BY <4>1
    <3>3. ~Promise!Full
      BY <1>1, <1>2, <2>7, PromisedFull DEF IsFull
    <3>4. Copies'[k] = <<v>> \o (IF Copies[k] = <<>> THEN <<>> ELSE Tail(Copies[k]))
      BY <2>6, <3>2
    <3>5. \A x \in Keys : x # k => Copies'[x] = Copies[x]
      <4>1. \A x \in Keys : nodes[p].key # x
        BY <2>7, HashMapAssumption DEF Occupied
      <4> QED BY <1>9, <4>1
    <3>6. Copies' = [Copies EXCEPT ![k] = <<v>> \o (IF @ = <<>> THEN <<>> ELSE Tail(@))]
      BY <1>10, <3>4, <3>5
    <3>7. Promise!Store(k, v)
      BY <1>2, <1>8, <3>3, <3>6 DEF Promise!Store, Copies, Holes, Tombstones
    <3> QED BY <3>7
  <2>8. CASE Occupied(p)
    <3>1. PICK j \in Keys : j = nodes[p].key /\ j # k
      BY <1>1, <1>4, <1>13, <2>8 DEF Node, Occupied
    <3>2. PICK b \in Slots : Probe(j, b) = p
      BY <1>1, <3>1, ProbeReaches
    <3>3. b \in Positions(j) /\ Positions(j)' = Positions(j) \ {b}
      <4>1. \A i \in Slots : Probe(j, i) = p <=> i = b
        BY <3>1, <3>2, ProbeOnce
      <4>2. b \in Positions(j) /\ b \notin Positions(j)'
        BY <1>5, <1>7, <1>13, <3>1, <3>2
      <4>3. \A i \in Slots : i \in Positions(j)' <=> i \in Positions(j) \ {b}
        BY <1>7, <4>1, <4>2
      <4> QED BY <1>5, <1>6, <3>1, <4>2, <4>3, SameSlots
    <3>4. \A i \in Positions(j)' : nodes'[Probe(j, i)].val = nodes[Probe(j, i)].val
      BY <1>1, <1>6, <1>7, <3>1
    <3>5. Positions(j) \in SUBSET Slots
      BY <1>5, <3>1
    <3>6. PICK n \in 1..Len(CopiesIn(nodes, Positions(j), j)) :
            CopiesIn(nodes', Positions(j)', j)
                = Promise!RemoveAt(CopiesIn(nodes, Positions(j), j), n)
      <4>1. \A i \in Positions(j) :
              i # b => nodes'[Probe(j, i)].val = nodes[Probe(j, i)].val
        BY <3>3, <3>4
      <4>2. \E n \in 1..Len(CopiesIn(nodes, Positions(j), j)) :
              CopiesIn(nodes', Positions(j) \ {b}, j)
                  = Promise!RemoveAt(CopiesIn(nodes, Positions(j), j), n)
        <5>1. b \in Positions(j)
          BY <3>3
        <5> QED BY <1>4, <3>5, <4>1, <5>1, CopyLeftOut
      <4> QED BY <3>3, <4>2
    <3>7. n \in 1..Len(Copies[j]) /\ Copies'[j] = Promise!RemoveAt(Copies[j], n)
      BY <1>10, <3>1, <3>6, CopiesThen
    <3>8. Promise!Full
      <4>1. ~CanPut(p, k)
        BY <1>13, <2>8 DEF CanPut
      <4> QED BY <1>2, <1>3, <4>1, PromisedFull
    <3>9. \A x \in Keys : x # k /\ x # j => Copies'[x] = Copies[x]
      BY <1>9, <3>1
    <3>10. Copies' = [Copies EXCEPT ![j] = Promise!RemoveAt(@, n), ![k] = <<v>> \o @]
      BY <1>10, <2>6, <3>1, <3>7, <3>9
    <3>11. Promise!Displace(k, v, j, n)
      BY <1>2, <1>8, <3>1, <3>8, <3>10 DEF Promise!Displace, Copies, Holes, Tombstones
    <3> QED BY <3>1, <3>7, <3>11
  <2> QED BY <2>7, <2>8
<1> QED BY <1>11, <1>12, <1>13

\* delete and get come to the first entry of their key.
LEMMA LookupIsFirst ==
    ASSUME NEW k \in Keys, SlotOf(k) # NoSlot
    PROVE  \E a \in Slots : /\ Probe(k, a) = SlotOf(k) /\ Matches(SlotOf(k), k)
                            /\ \A i \in Slots : i < a => ~Matches(Probe(k, i), k)
PROOF
<1>1. SlotOf(k) \in Lookup(k)
  BY DEF SlotOf
<1>2. PICK a \in Slots :
        /\ SlotOf(k) = Probe(k, a) /\ Matches(SlotOf(k), k)
        /\ \A j \in 0..(a - 1) : ~Matches(Probe(k, j), k)
  BY <1>1 DEF Lookup
<1>3. ASSUME NEW i \in Slots, i < a PROVE i \in 0..(a - 1)
  <2>1. i \in Nat /\ a \in Nat
    BY HashMapAssumption DEF Slots
  <2> QED BY <1>3, <2>1
<1> QED BY <1>2, <1>3

LEMMA DeleteRefines ==
    ASSUME ShadowInv, ShadowInv', NEW t \in Threads, NEW k \in Keys, Delete(t, k)
    PROVE  Promise!Unlist(k)
PROOF
<1> DEFINE d == SlotOf(k)
<1>1. PICK a \in Slots : /\ Probe(k, a) = d /\ Matches(d, k)
                         /\ \A i \in Slots : i < a => ~Matches(Probe(k, i), k)
  BY LookupIsFirst DEF Delete
<1>2. d \in Slots /\ nodes[d].key = k /\ ~nodes[d].tombstone
  BY <1>1, ProbeOnce DEF Matches, SameKey
<1>3. \A s \in Slots : /\ nodes'[s].key = nodes[s].key /\ nodes'[s].val = nodes[s].val
                       /\ nodes'[s].tombstone = IF s = d THEN TRUE ELSE nodes[s].tombstone
  BY DeleteWrites DEF ShadowInv, IInv
<1>4. ~invalid /\ invalid' = invalid
  BY DEF Delete
<1>5. nodes \in [Slots -> Node] /\ nodes' \in [Slots -> Node]
  BY DEF ShadowInv, IInv, Types
<1> HIDE DEF d
<1>6. \A x \in Keys : /\ Positions(x) \in SUBSET Slots
                      /\ \A i \in Slots : i \in Positions(x) <=>
                            nodes[Probe(x, i)].key = x /\ ~nodes[Probe(x, i)].tombstone
  BY PositionsNow DEF ShadowInv
<1>7. \A x \in Keys : /\ Positions(x)' \in SUBSET Slots
                      /\ \A i \in Slots : i \in Positions(x)' <=>
                            nodes'[Probe(x, i)].key = x /\ ~nodes'[Probe(x, i)].tombstone
  BY PositionsThen DEF ShadowInv
<1>8. \A x \in Keys, i \in Slots :
        /\ Probe(x, i) \in Slots
        /\ i \in Positions(x)' <=> i \in Positions(x) /\ Probe(x, i) # d
  <2>1. SUFFICES ASSUME NEW x \in Keys, NEW i \in Slots
        PROVE  /\ Probe(x, i) \in Slots
               /\ i \in Positions(x)' <=> i \in Positions(x) /\ Probe(x, i) # d
    OBVIOUS
  <2>2. Probe(x, i) \in Slots
    BY ProbeOnce
  <2>3. /\ nodes'[Probe(x, i)].key = nodes[Probe(x, i)].key
        /\ Probe(x, i) = d => nodes'[Probe(x, i)].tombstone = TRUE
        /\ Probe(x, i) # d => nodes'[Probe(x, i)].tombstone = nodes[Probe(x, i)].tombstone
    BY <1>3, <2>2
  <2>4. i \in Positions(x) <=> nodes[Probe(x, i)].key = x /\ ~nodes[Probe(x, i)].tombstone
    BY <1>6
  <2>5. i \in Positions(x)' <=> nodes'[Probe(x, i)].key = x /\ ~nodes'[Probe(x, i)].tombstone
    BY <1>7
  <2>6. CASE Probe(x, i) = d
    BY <2>2, <2>3, <2>5, <2>6
  <2>7. CASE Probe(x, i) # d
    BY <2>2, <2>3, <2>4, <2>5, <2>7
  <2> QED BY <2>6, <2>7
<1>9. /\ \A x \in Keys : Copies[x] = CopiesOf(x) /\ Copies'[x] = CopiesOf(x)'
      /\ Copies = [x \in Keys |-> Copies[x]] /\ Copies' = [x \in Keys |-> Copies'[x]]
  BY <1>4 DEF Copies
<1>10. ASSUME NEW x \in Keys, x # k PROVE Copies'[x] = Copies[x]
  <2>1. \A i \in Slots : i \in Positions(x)' <=> i \in Positions(x)
    BY <1>2, <1>6, <1>8, <1>10
  <2>2. Positions(x)' = Positions(x)
    BY <1>6, <1>7, <2>1, SameSlots
  <2>3. \A i \in Positions(x) : nodes'[Probe(x, i)].val = nodes[Probe(x, i)].val
    BY <1>3, <1>6, <1>8
  <2> QED BY <1>9, <2>2, <2>3, CopiesKept
<1>11. a \in Positions(k) /\ Positions(k)' = Positions(k) \ {a}
  <2>1. \A i \in Slots : Probe(k, i) = d <=> i = a
    BY <1>1, ProbeOnce
  <2>2. a \in Positions(k)
    BY <1>1, <1>2, <1>6
  <2>3. \A i \in Slots : i \in Positions(k)' <=> i \in Positions(k) \ {a}
    BY <1>8, <2>1
  <2> QED BY <1>6, <1>7, <2>2, <2>3, SameSlots
<1>12. \A i \in Positions(k) : a <= i
  <2>1. \A i \in Slots : i \in Nat
    BY HashMapAssumption DEF Slots
  <2>2. \A i \in Positions(k) : i \in Slots /\ Matches(Probe(k, i), k)
    BY <1>6 DEF Matches, SameKey
  <2> QED BY <1>1, <2>1, <2>2
<1>13. Copies[k] # <<>> /\ Copies'[k] = Tail(Copies[k])
  <2>1. PICK P \in SUBSET Slots : P = Positions(k)
    BY <1>6
  <2>2. PICK U \in [Slots -> Node] : U = nodes'
    BY <1>5
  <2>3. PICK T \in [Slots -> Node] : T = nodes
    BY <1>5
  <2>4. a \in P /\ \A i \in P : a <= i
    BY <1>11, <1>12, <2>1
  <2>5. \A i \in P : i # a => U[Probe(k, i)].val = T[Probe(k, i)].val
    BY <1>3, <1>8, <2>1, <2>2, <2>3
  <2>6. CopiesIn(T, P, k) # <<>> /\ CopiesIn(U, P \ {a}, k) = Tail(CopiesIn(T, P, k))
    BY <2>4, <2>5, CopyLeftOut
  <2> QED BY <1>9, <1>11, <2>1, <2>2, <2>3, <2>6, CopiesThen
<1>14. Copies' = [Copies EXCEPT ![k] = Tail(@)]
  BY <1>9, <1>10, <1>13
<1>15. Holes' = Holes + 1
  <2>1. Tombstones' = Tombstones \cup {d} /\ d \notin Tombstones /\ Tombstones \in SUBSET Slots
    BY <1>2, <1>3 DEF Tombstones
  <2>2. Cardinality(Tombstones') = Cardinality(Tombstones) + 1
    BY <2>1, SlotsFinite, FS_Subset, FS_AddElement
  <2> QED BY <1>4, <2>2 DEF Holes
<1> QED BY <1>4, <1>13, <1>14, <1>15 DEF Promise!Unlist, Copies, Holes, Tombstones

\* A table without entries holds no copies.
LEMMA NoEntriesNoCopies ==
    /\ (\A s \in Slots : nodes[s] = EmptyNode) /\ ~invalid
           => Copies = [k \in Keys |-> <<>>] /\ Holes = 0
    /\ invalid => Copies = [k \in Keys |-> <<>>] /\ Holes = 0
PROOF
<1>1. ASSUME \A s \in Slots : nodes[s] = EmptyNode, ~invalid
      PROVE  Copies = [k \in Keys |-> <<>>] /\ Holes = 0
  <2>1. ASSUME NEW k \in Keys PROVE CopiesOf(k) = <<>>
    <3>1. \A i \in Slots : ~Matches(Probe(k, i), k)
      BY <1>1, ProbeOnce, HashMapAssumption DEF Matches, SameKey, EmptyNode
    <3>2. Positions(k) = {}
      BY <3>1 DEF Positions
    <3>3. CopiesOf(k) = [n \in 1..0 |-> nodes[Probe(k, Nth(Positions(k), n))].val]
      BY <3>2, CopiesAre, FS_EmptySet
    <3> QED BY <3>3
  <2>2. Tombstones = {}
    BY <1>1 DEF Tombstones, EmptyNode
  <2> QED BY <1>1, <2>1, <2>2, FS_EmptySet DEF Copies, Holes
<1> QED BY <1>1 DEF Copies, Holes

LEMMA ShadowInit == Init => Promise!Init
PROOF
<1> SUFFICES ASSUME Init PROVE Promise!Init
  OBVIOUS
<1>1. (\A s \in Slots : nodes[s] = EmptyNode) /\ ~invalid
  BY DEF Init
<1>2. Copies = [k \in Keys |-> <<>>] /\ Holes = 0
  BY <1>1, NoEntriesNoCopies
<1> QED BY <1>1, <1>2 DEF Promise!Init, Copies, Holes, Tombstones

LEMMA ShadowStep ==
    ASSUME ShadowInv, ShadowInv', [Next]_vars
    PROVE  [Promise!Next]_Promise!vars
PROOF
<1>1. ASSUME UNCHANGED <<nodes, invalid>> PROVE UNCHANGED Promise!vars
  <2>1. ASSUME NEW k \in Keys PROVE CopiesOf(k)' = CopiesOf(k)
    <3>1. Positions(k)' = Positions(k)
      BY <1>1 DEF Positions, Matches, SameKey, Occupied, Probe
    <3> QED BY <1>1, <3>1, CopiesThen
  <2>2. Copies' = Copies
    BY <1>1, <2>1 DEF Copies
  <2>3. Holes' = Holes
    BY <1>1 DEF Holes, Tombstones
  <2> QED BY <1>1, <2>2, <2>3 DEF Promise!vars, Copies, Holes, Tombstones
<1>2. ASSUME NEW t \in Threads, NEW k \in Keys, NEW v \in Values \ live,
             NEW force \in BOOLEAN, Put(t, k, v, force)
      PROVE  Promise!Next
  BY <1>2, PutRefines DEF Promise!Next, Copies
<1>3. ASSUME NEW t \in Threads, NEW k \in Keys, Delete(t, k) PROVE Promise!Next
  BY <1>3, DeleteRefines DEF Promise!Next
<1>4. ASSUME NEW t \in Threads, ClearMap(t) PROVE Promise!Next
  <2>1. (\A s \in Slots : nodes'[s] = EmptyNode) /\ ~invalid' /\ ~invalid
    BY <1>4 DEF ClearMap
  <2>2. Copies' = [k \in Keys |-> <<>>] /\ Holes' = 0
    <3>1. ((\A s \in Slots : nodes[s] = EmptyNode) /\ ~invalid
              => Copies = [k \in Keys |-> <<>>] /\ Holes = 0)'
      BY NoEntriesNoCopies, PTL
    <3> QED BY <2>1, <3>1 DEF EmptyNode
  <2>3. Promise!Clear
    BY <2>1, <2>2 DEF Promise!Clear, Copies, Holes, Tombstones
  <2> QED BY <2>3 DEF Promise!Next
<1>5. ASSUME NEW t \in Threads, InvalidateMap(t) PROVE Promise!Next
  <2>1. invalid' /\ ~invalid
    BY <1>5 DEF InvalidateMap
  <2>2. Copies' = [k \in Keys |-> <<>>] /\ Holes' = 0
    BY <2>1 DEF Copies, Holes
  <2>3. Promise!Close
    BY <2>1, <2>2 DEF Promise!Close, Copies, Holes, Tombstones
  <2> QED BY <2>3 DEF Promise!Next
<1>6. ASSUME NEW t \in Threads, Read(t) \/ Return(t) \/ DeleteFreed(t)
      PROVE  UNCHANGED Promise!vars
  <2>1. UNCHANGED <<nodes, invalid>>
    BY <1>6 DEF Read, GetAnnounce, GetLock, GetProbe, GetRelease, Return, DeleteFreed, table
  <2> QED BY <1>1, <2>1
<1>7. CASE UNCHANGED vars
  BY <1>1, <1>7 DEF vars, table
<1>8. CASE Next
  <2>1. PICK t \in Threads : Read(t) \/ Write(t) \/ Return(t)
    BY <1>8 DEF Next
  <2> QED BY <1>2, <1>3, <1>4, <1>5, <1>6, <2>1 DEF Write
<1> QED BY <1>7, <1>8

LEMMA ShadowInvariant == Spec => []ShadowInv
PROOF
<1>1. Init => Reachable
  <2>1. Init => \A s \in Slots : nodes[s].key = NoKey
    BY DEF Init, EmptyNode
  <2>2. \A k \in Keys, i \in Slots : Probe(k, i) \in Slots /\ k # NoKey
    BY ProbeOnce, HashMapAssumption
  <2> QED BY <2>1, <2>2 DEF Reachable, SameKey
<1>2. Init => ShadowInv
  BY <1>1, InvInit DEF ShadowInv
<1>3. ShadowInv /\ [Next]_vars => ShadowInv'
  BY InvStep, ReachableStep DEF ShadowInv, IInv
<1> QED BY <1>2, <1>3, PTL DEF Spec

\* The table, whatever its size and its hash function, is a bounded map whose
\* keys may have shadowed copies: get finds the first, delete uncovers the
\* next, and a put that comes to a deleted entry is lost in it.
THEOREM TableIsShadowMap == Spec => RefinesShadowMap
PROOF
<1>1. Init => Promise!Init
  BY ShadowInit
<1>2. ShadowInv /\ ShadowInv' /\ [Next]_vars => [Promise!Next]_Promise!vars
  BY ShadowStep
<1> QED BY <1>1, <1>2, ShadowInvariant, PTL DEF Spec, RefinesShadowMap, Promise!Spec

=============================================================================
