----------------------------- MODULE Induction -----------------------------
(***************************************************************************)
(* Induction over the natural numbers, and functions defined by it, stated *)
(* with sets and functions instead of operators.                           *)
(***************************************************************************)
EXTENDS FiniteSetTheorems, TLAPS

\* A descending sequence of numbers would be one of intervals, which are
\* finite sets.
LEMMA NatWellFounded ==
    ASSUME NEW f \in [Nat -> Nat]
    PROVE  \E n \in Nat : ~(f[n + 1] < f[n])
<1> SUFFICES ASSUME \A n \in Nat : f[n + 1] < f[n] PROVE FALSE
  OBVIOUS
<1> DEFINE g == [n \in Nat |-> 1..f[n]]
<1>1. g \in [Nat -> FiniteSubsetsOf(Nat)]
  <2> SUFFICES ASSUME NEW n \in Nat PROVE 1..f[n] \in FiniteSubsetsOf(Nat)
    OBVIOUS
  <2>1. IsFiniteSet(1..f[n])
    BY FS_Interval
  <2> QED
    BY <2>1 DEF FiniteSubsetsOf
<1>2. ASSUME NEW n \in Nat PROVE <<g[n + 1], g[n]>> \in StrictSubsetOrdering(Nat)
  <2>1. f[n + 1] \in Nat /\ f[n] \in Nat /\ f[n + 1] < f[n]
    OBVIOUS
  <2>2. 1..f[n + 1] \subseteq 1..f[n] /\ f[n] \in 1..f[n] /\ f[n] \notin 1..f[n + 1]
    BY <2>1
  <2>3. g[n + 1] = 1..f[n + 1] /\ g[n] = 1..f[n]
    BY <2>1
  <2>4. 1..f[n + 1] \in SUBSET Nat /\ 1..f[n] \in SUBSET Nat
    BY <2>1
  <2> HIDE DEF g
  <2> QED
    BY <2>2, <2>3, <2>4 DEF StrictSubsetOrdering
<1> HIDE DEF g
<1> QED
  BY <1>1, <1>2, FS_StrictSubsetOrderingWellFounded DEF IsWellFoundedOn

\* A set of natural numbers that is not empty has a least element.
LEMMA LeastNumber ==
    ASSUME NEW T, T \subseteq Nat, T # {}
    PROVE  \E x \in T : \A y \in T : x <= y
<1> DEFINE R == {r \in Nat \X Nat : r[1] < r[2]}
<1>1. IsWellFoundedOn(R, Nat)
  <2>1. ASSUME NEW f \in [Nat -> Nat], \A n \in Nat : <<f[n + 1], f[n]>> \in R
        PROVE  FALSE
    <3>1. \A n \in Nat : f[n + 1] < f[n]
      BY <2>1
    <3> QED
      BY <3>1, NatWellFounded
  <2> QED
    BY <2>1 DEF IsWellFoundedOn
<1>2. PICK x \in T : \A y \in T : ~(<<y, x>> \in R)
  <2> HIDE DEF R
  <2> QED
    BY <1>1, WFMin
<1>3. \A y \in T : ~(y < x)
  BY <1>2
<1> QED
  BY <1>3

\* Induction up to a bound.
LEMMA NatSetInduction ==
    ASSUME NEW T, NEW a \in Nat, NEW b \in Nat,
           a \in T, \A n \in a..(b - 1) : n \in T => n + 1 \in T
    PROVE  a..b \subseteq T
<1> SUFFICES ASSUME a..b \ T # {} PROVE FALSE
  OBVIOUS
<1>1. PICK x \in a..b \ T : \A y \in a..b \ T : x <= y
  <2>1. a..b \ T \subseteq Nat
    OBVIOUS
  <2> QED
    BY <2>1, LeastNumber
<1>2. x # a /\ x - 1 \in a..(b - 1) /\ x - 1 \in a..b
  BY <1>1
<1>3. x - 1 \in T
  BY <1>1, <1>2
<1>4. (x - 1) + 1 = x
  BY <1>1
<1> QED
  BY <1>1, <1>2, <1>3, <1>4

\* A function is defined by its first value and by a step that yields each
\* value from the one before it.
LEMMA FunctionBySteps ==
    ASSUME NEW S, NEW c \in S, NEW N \in Nat, NEW step \in [1..N -> [S -> S]]
    PROVE  \E f \in [0..N -> S] :
              f[0] = c /\ \A n \in 1..N : f[n] = step[n][f[n - 1]]
<1> DEFINE Fits(f, m) == f[0] = c /\ \A n \in 1..m : f[n] = step[n][f[n - 1]]
           T == {m \in 0..N : \E f \in [0..m -> S] : Fits(f, m)}
<1>1. 0 \in T
  <2> DEFINE g == [n \in 0..0 |-> c]
  <2>1. g \in [0..0 -> S] /\ g[0] = c
    OBVIOUS
  <2> HIDE DEF g
  <2>2. Fits(g, 0)
    BY <2>1
  <2> QED
    BY <2>1, <2>2
<1>2. ASSUME NEW m \in 0..(N - 1), m \in T PROVE m + 1 \in T
  <2>1. PICK f \in [0..m -> S] : Fits(f, m)
    BY <1>2
  <2> DEFINE g == [n \in 0..(m + 1) |-> IF n = m + 1 THEN step[m + 1][f[m]] ELSE f[n]]
  <2>2. step[m + 1][f[m]] \in S /\ m + 1 \in 0..N /\ m \in 0..m
    OBVIOUS
  <2>3. g \in [0..(m + 1) -> S]
    BY <2>2
  <2>4. \A n \in 0..m : g[n] = f[n]
    OBVIOUS
  <2>5. g[m + 1] = step[m + 1][f[m]]
    OBVIOUS
  <2> HIDE DEF g
  <2>6. Fits(g, m + 1)
    <3>1. g[0] = c
      BY <2>1, <2>4
    <3>2. ASSUME NEW n \in 1..(m + 1) PROVE g[n] = step[n][g[n - 1]]
      <4>1. CASE n = m + 1
        BY <2>4, <2>5, <4>1
      <4>2. CASE n # m + 1
        <5>1. n \in 1..m /\ n - 1 \in 0..m
          BY <4>2
        <5> QED
          BY <2>1, <2>4, <5>1
      <4> QED
        BY <4>1, <4>2
    <3> QED
      BY <3>1, <3>2
  <2> QED
    BY <2>2, <2>3, <2>6
<1>3. N \in T
  <2> HIDE DEF T
  <2>1. 0..N \subseteq T
    BY <1>1, <1>2, NatSetInduction
  <2> QED
    BY <2>1
<1>4. PICK f \in [0..N -> S] : Fits(f, N)
  BY <1>3
<1> QED
  BY <1>4

\* f starts at c and goes on by next.
Iterates(f, S, c, N, next) ==
    f \in [0..N -> S] /\ f[0] = c /\ \A n \in 1..N : f[n] = next[f[n - 1]]

LEMMA Orbit ==
    ASSUME NEW S, NEW c \in S, NEW N \in Nat, NEW next \in [S -> S]
    PROVE  \E f : Iterates(f, S, c, N, next)
<1> DEFINE step == [n \in 1..N |-> next]
<1>1. step \in [1..N -> [S -> S]] /\ \A n \in 1..N : step[n] = next
  OBVIOUS
<1> HIDE DEF step
<1>2. PICK f \in [0..N -> S] : f[0] = c /\ \A n \in 1..N : f[n] = step[n][f[n - 1]]
  BY <1>1, FunctionBySteps
<1>3. \A n \in 1..N : f[n] = next[f[n - 1]]
  BY <1>1, <1>2
<1> QED
  BY <1>2, <1>3 DEF Iterates

=============================================================================
