----------------------------- MODULE ShadowMap -----------------------------
(***************************************************************************)
(* What a hashmap_t promises its callers: a bounded map whose keys may have *)
(* SHADOWED copies behind the one that get finds, and which loses entries  *)
(* that are put into the hole a deleted one left.                          *)
(***************************************************************************)
EXTENDS Naturals, FiniteSets, SequencesExt

CONSTANTS Keys, Values, Capacity

VARIABLES
    copies,   \* the values stored under each key; get finds the first
    holes,    \* how many deleted entries still take up room
    open      \* FALSE once the map has been invalidated

vars == <<copies, holes, open>>

Init == copies = [k \in Keys |-> <<>>] /\ holes = 0 /\ open = TRUE

Stored == Cardinality(UNION {{k} \X DOMAIN copies[k] : k \in Keys})
Full == Stored + holes = Capacity

\* A new entry, or the visible copy is overwritten.
Store(k, v) ==
    /\ open
    /\ copies[k] = <<>> => ~Full
    /\ copies' = [copies EXCEPT ![k] = <<v>> \o (IF @ = <<>> THEN <<>> ELSE Tail(@))]
    /\ UNCHANGED <<holes, open>>

\* The entry goes into a hole, where nobody finds it.
Lose ==
    /\ open /\ holes > 0
    /\ UNCHANGED vars

\* A forced put into a full map takes the place of any entry of another key;
\* copies of k that are elsewhere stay, shadowed.
Displace(k, v, j, n) ==
    /\ open /\ Full /\ j # k
    /\ copies' = [copies EXCEPT ![j] = RemoveAt(@, n), ![k] = <<v>> \o @]
    /\ UNCHANGED <<holes, open>>

\* Only the visible copy is removed: a shadowed one becomes visible.
Unlist(k) ==
    /\ open /\ copies[k] # <<>>
    /\ copies' = [copies EXCEPT ![k] = Tail(@)]
    /\ holes' = holes + 1
    /\ UNCHANGED open

Clear ==
    /\ open
    /\ copies' = [k \in Keys |-> <<>>] /\ holes' = 0
    /\ UNCHANGED open

Close ==
    /\ open
    /\ open' = FALSE
    /\ copies' = [k \in Keys |-> <<>>] /\ holes' = 0

Next ==
    \/ \E k \in Keys, v \in Values :
          \/ Store(k, v)
          \/ \E j \in Keys : \E n \in 1..Len(copies[j]) : Displace(k, v, j, n)
    \/ Lose \/ Clear \/ Close
    \/ \E k \in Keys : Unlist(k)

Spec == Init /\ [][Next]_vars

=============================================================================
