---------------------------- MODULE CiphersProofs ----------------------------
(***************************************************************************)
(* Theorems about the cipher program, for any alphabets, keys, sides and   *)
(* texts: the types, that the filled table is the alphabet in another      *)
(* order, that Polybius coordinates lead back to their character, and that *)
(* a text that is encoded and decoded again comes back: from coordinates   *)
(* all of it, from Morse code but for what the last letters leave over.    *)
(***************************************************************************)
EXTENDS CiphersProperties, Induction, SequenceTheorems, FiniteSetTheorems, TLAPS

-----------------------------------------------------------------------------
(* Sequences without repetition *)

LEMMA DistinctSize ==
    ASSUME NEW S, NEW s \in Seq(S), IsInjective(s)
    PROVE  IsFiniteSet(ToSet(s)) /\ Cardinality(ToSet(s)) = Len(s)
<1>1. /\ Len(s) \in Nat /\ DOMAIN s = 1..Len(s)
      /\ s \in [1..Len(s) -> ToSet(s)]
  BY DEF ToSet
<1>2. s \in Bijection(1..Len(s), ToSet(s))
  BY <1>1 DEF Bijection, Injection, Surjection, ToSet, IsInjective
<1>3. ExistsBijection(1..Len(s), ToSet(s))
  BY <1>2 DEF ExistsBijection
<1>4. IsFiniteSet(1..Len(s)) /\ Cardinality(1..Len(s)) = Len(s)
  BY <1>1, FS_Interval
<1> QED
  BY <1>3, <1>4, FS_Bijection, Zenon

\* One that has as many elements as another, and only elements of it, has all.
LEMMA DistinctFills ==
    ASSUME NEW S, NEW s \in Seq(S), NEW t \in Seq(S), IsInjective(s), IsInjective(t),
           Len(s) = Len(t), \A i \in DOMAIN s : Contains(t, s[i])
    PROVE  ToSet(s) = ToSet(t)
<1>1. ToSet(s) \in SUBSET ToSet(t)
  BY DEF ToSet, Contains
<1>2. /\ IsFiniteSet(ToSet(t)) /\ Cardinality(ToSet(t)) = Len(t)
      /\ Cardinality(ToSet(s)) = Len(s)
  BY DistinctSize
<1> QED
  BY <1>1, <1>2, FS_Subset

LEMMA InToSet ==
    ASSUME NEW S, NEW s \in Seq(S), NEW e
    PROVE  e \in ToSet(s) <=> Contains(s, e)
BY DEF ToSet, Contains

LEMMA LettersDistinct ==
    ASSUME NEW cipher
    PROVE  /\ Alphabet(cipher) \in Seq(Char)
           /\ Len(Alphabet(cipher)) \in Nat
           /\ IsInjective(Alphabet(cipher))
BY AlphabetAssumption DEF Alphabet

-----------------------------------------------------------------------------
(* The inductive invariant *)

\* The prover has to be told that the letter RunBack puts in is a string.
Flag == STRING \cup {"d"}

ArgsGiven(a) ==
    /\ a \in [flags : Seq(Flag), values : Seq(Seq(Char))]
    /\ Len(a.values) >= Len(a.flags) - 3
    /\ \A i \in DOMAIN a.values :
          Len(a.values[i]) <= Len(PolybiusAlphabet) /\ Len(a.values[i]) <= Len(FmAlphabet)

KeyFits(j) ==
    /\ Len(j.key) <= Len(Alphabet(j.cipher))
    /\ \A i \in DOMAIN j.key : Contains(Alphabet(j.cipher), j.key[i])

\* The table is the key and behind it the characters that were gone through and
\* are not in the key.
TableGrows ==
    /\ k <= Len(Letters)
    /\ Len(job.key) <= Len(table) /\ Len(table) <= Len(Letters)
    /\ \A i \in 1..Len(job.key) : table[i] = job.key[i]
    /\ \A i \in 1..Len(table) : Contains(Letters, table[i])

AllInTable ==
    /\ IsInjective(table)
    /\ \A i \in 1..Len(table) : i <= Len(job.key) \/ \E j \in 1..k : table[i] = Letters[j]
    /\ \A j \in 1..k : Contains(table, Letters[j])

\* Only the decoder of Morse code reads anything but symbols, and only when there
\* is something behind those of a letter.
Plain ==
    /\ tail # <<>> => job.decode /\ pc \in Working \ {"table"}
    /\ tail = <<>> => symbols \in Seq(0..X) /\ buffer \in Seq(0..X)

IInv ==
    /\ TypeOK
    /\ Plain
    /\ ArgsGiven(args)
    /\ pc \in Working =>
          /\ KeyFits(job) /\ TableGrows
          /\ KeyDistinct => AllInTable
          /\ pc # "table" /\ RoomForKey => k = Len(Letters)

-----------------------------------------------------------------------------
(* What validargs returns and main makes of it *)

Accepted(a) == ~Crashes(a) /\ ValidArgs(a) \notin {HelpBit, 0}

LEMMA AcceptedArgs ==
    ASSUME NEW a, ArgsGiven(a), Accepted(a)
    PROVE  /\ a.flags[1] \in {"f", "p"}
           /\ ~BadFlags(a) /\ ~BadSides(a)
           /\ KeyAllowed(Key(a), Alphabet(a.flags[1]))
           /\ ValidArgs(a) = (IF a.flags[1] = "f" THEN FmBit ELSE 0)
                             + (IF a.flags[2] = "d" THEN DecodeBit ELSE 0)
                             + 16 * Rows(a) + Columns(a)
           /\ Key(a) \in Seq(Char)
           /\ Len(Key(a)) <= Len(Alphabet(a.flags[1]))
<1>1. /\ a.flags[1] # "h"
      /\ ~(\/ a.flags[1] \notin {"f", "p"}
           \/ BadFlags(a) \/ BadSides(a) \/ TooSmall(a)
           \/ ~KeyAllowed(Key(a), Alphabet(a.flags[1])))
  BY DEF Accepted, ValidArgs
<1>2. \/ Len(a.flags) \notin 3..5
      \/ Len(a.flags) - 2 <= Len(a.values) \/ a.flags[Len(a.flags)] = NoLetter
  <2>1. \/ Len(a.flags) \notin 3..5 \/ ~(Len(a.values) < Len(a.flags) - 2)
        \/ Last(a.flags) = NoLetter
    BY <1>1 DEF Accepted, Crashes
  <2>2. Len(a.flags) \in Nat /\ Len(a.values) \in Nat
    BY DEF ArgsGiven
  <2>3. Last(a.flags) = a.flags[Len(a.flags)]
    BY DEF Last
  <2> DEFINE n == Len(a.flags)
             m == Len(a.values)
  <2>4. n \in Nat /\ m \in Nat /\ (n \notin 3..5 \/ ~(m < n - 2) \/ Last(a.flags) = NoLetter)
    BY <2>1, <2>2
  <2> HIDE DEF n, m
  <2>5. n \notin 3..5 \/ n - 2 <= m \/ Last(a.flags) = NoLetter
    BY <2>4
  <2> QED
    BY <2>3, <2>5 DEF n, m
<1>3. ASSUME Given(a, "k")
      PROVE  \E i \in DOMAIN a.values : Key(a) = a.values[i]
  <2> DEFINE i == CHOOSE i \in Options(a) : a.flags[i] = "k"
  <2>1. i \in 3..5 /\ i <= Len(a.flags) /\ a.flags[i] # NoLetter
    <3>1. i \in Options(a) /\ a.flags[i] = "k"
      BY <1>3 DEF Given
    <3>2. NoLetter # "k"
      BY Zenon DEF NoLetter
    <3> QED
      BY <3>1, <3>2 DEF Options
  <2>2. i - 2 \in DOMAIN a.values
    <3> DEFINE n == Len(a.flags)
               m == Len(a.values)
    <3>1. /\ n \in Nat /\ m \in Nat /\ m >= n - 3 /\ DOMAIN a.values = 1..m
      BY DEF ArgsGiven
    <3>2. n \notin 3..5 \/ n - 2 <= m \/ i # n
      BY <1>2, <2>1
    <3> HIDE DEF i, n, m
    <3>3. i \in 3..5 /\ i <= n
      BY <2>1 DEF n
    <3> QED
      BY <3>1, <3>2, <3>3
  <2>3. Key(a) = a.values[i - 2]
    BY <1>3 DEF Key, ValueOf
  <2> QED
    BY <2>2, <2>3
<1>4. Key(a) \in Seq(Char) /\ Len(Key(a)) <= Len(Alphabet(a.flags[1]))
  <2>1. CASE Given(a, "k")
    BY <2>1, <1>3, <1>1 DEF ArgsGiven, Alphabet
  <2>2. CASE ~Given(a, "k")
    BY <2>2, LettersDistinct DEF Key
  <2> QED
    BY <2>1, <2>2
<1> QED
  BY <1>1, <1>4 DEF ValidArgs

LEMMA JobRead ==
    ASSUME NEW a, ArgsGiven(a), Accepted(a)
    PROVE  /\ JobOf(ValidArgs(a), Key(a)) \in Jobs
           /\ KeyFits(JobOf(ValidArgs(a), Key(a)))
           /\ JobOf(ValidArgs(a), Key(a)).cipher = a.flags[1]
           /\ JobOf(ValidArgs(a), Key(a)).rows = Rows(a)
           /\ JobOf(ValidArgs(a), Key(a)).columns = Columns(a)
           /\ JobOf(ValidArgs(a), Key(a)).decode <=> a.flags[2] = "d"
<1> DEFINE m == ValidArgs(a)
           f == IF a.flags[1] = "f" THEN FmBit ELSE 0
           d == IF a.flags[2] = "d" THEN DecodeBit ELSE 0
           r == Rows(a)
           c == Columns(a)
<1>1. r \in MinSide..MaxSide /\ c \in MinSide..MaxSide
  BY AcceptedArgs DEF BadSides
<1>2. f \in {0, FmBit} /\ d \in {0, DecodeBit} /\ m = f + d + 16 * r + c
  BY AcceptedArgs
<1> HIDE DEF m, f, d, r, c
<1>3. /\ (m \div 16) % 16 = r
      /\ m % 16 = c
      /\ ((m \div FmBit) % 2 = 1) <=> (f = FmBit)
      /\ ((m \div DecodeBit) % 2 = 1) <=> (d = DecodeBit)
  <2>1. CASE f = 0 /\ d = 0
    BY <2>1, <1>1, <1>2, SMTT(30) DEF FmBit, DecodeBit, MinSide, MaxSide
  <2>2. CASE f = 0 /\ d = DecodeBit
    BY <2>2, <1>1, <1>2, SMTT(30) DEF FmBit, DecodeBit, MinSide, MaxSide
  <2>3. CASE f = FmBit /\ d = 0
    BY <2>3, <1>1, <1>2, SMTT(30) DEF FmBit, DecodeBit, MinSide, MaxSide
  <2>4. CASE f = FmBit /\ d = DecodeBit
    BY <2>4, <1>1, <1>2, SMTT(30) DEF FmBit, DecodeBit, MinSide, MaxSide
  <2> QED
    BY <2>1, <2>2, <2>3, <2>4, <1>2
<1>4. JobOf(m, Key(a)).cipher = a.flags[1]
  BY <1>3, AcceptedArgs DEF JobOf, f, FmBit
<1>5. JobOf(m, Key(a)) \in Jobs
  BY <1>1, <1>3, AcceptedArgs DEF JobOf, Jobs
<1>6. JobOf(m, Key(a)).key = Key(a)
  BY DEF JobOf
<1>7. JobOf(m, Key(a)).rows = r /\ JobOf(m, Key(a)).columns = c
  BY <1>3 DEF JobOf
<1>8. JobOf(m, Key(a)).decode <=> a.flags[2] = "d"
  <2>1. JobOf(m, Key(a)).decode <=> d = DecodeBit
    BY <1>3 DEF JobOf
  <2>2. d = DecodeBit <=> a.flags[2] = "d"
    BY DEF d, DecodeBit
  <2> QED
    BY <2>1, <2>2
<1> QED
  BY <1>4, <1>5, <1>6, <1>7, <1>8, AcceptedArgs DEF KeyFits, KeyAllowed, m, r, c

-----------------------------------------------------------------------------
(* Each action keeps the invariant *)

LEMMA Nothing == /\ <<>> \in Seq(Char) /\ <<>> \in Seq(0..127) /\ <<>> \in Seq(0..X)
                 /\ <<>> \in Seq(0..Other)
                 /\ <<>> \in Seq(Flag) /\ <<>> \in Seq(Seq(Char))
                 /\ Len(<<>>) = 0 /\ 0 \in 0..127
BY EmptySeq DEF X

\* A symbol is a byte.
LEMMA InLargerSet ==
    ASSUME NEW S, NEW T, \A e \in S : e \in T, NEW s \in Seq(S)
    PROVE  s \in Seq(T)
<1>1. s \in [1..Len(s) -> S] /\ Len(s) \in Nat
  OBVIOUS
<1>2. s \in [1..Len(s) -> T]
  BY <1>1
<1> QED
  BY <1>1, <1>2, SeqDef

LEMMA SymbolsAreBytes ==
    ASSUME NEW s \in Seq(0..X)
    PROVE  s \in Seq(0..Other)
<1>1. \A n \in 0..X : n \in 0..Other
  BY DEF X, Other
<1> QED
  BY <1>1, InLargerSet, Zenon

LEMMA Initially == Init => IInv
<1> SUFFICES ASSUME Init
             PROVE  IInv
  OBVIOUS
<1>1. TypeOK
  BY Nothing DEF Init, TypeOK, Working, NUL
<1>2. ArgsGiven(args) /\ Plain
  BY Nothing DEF Init, ArgsGiven, Plain
<1> QED
  BY <1>1, <1>2 DEF Init, IInv, Working

\* The key is distinct from itself and alone in the table.
LEMMA Starts ==
    ASSUME NEW a, NEW in, ArgsGiven(a), in \in Seq(0..127), Execute(a, in),
           text' \in Seq(Char)
    PROVE  IInv'
<1>0. Plain'
  BY Nothing DEF Execute, Plain
<1>3. /\ input' \in Seq(0..127) /\ output' \in Seq(0..127)
      /\ half' \in 0..127 /\ prevSpace' \in BOOLEAN /\ dirty' \in BOOLEAN
      /\ symbols' \in Seq(0..Other) /\ buffer' \in Seq(0..Other) /\ triple' \in Seq(0..X)
      /\ tail' \in Seq(0..Other) /\ text' \in Seq(Char) /\ k' \in Nat
  BY Nothing DEF Execute, NUL
<1>1. CASE ~Accepted(a)
  <2>1. pc' \in {"help", "usage", "crashed"} /\ table' = <<>> /\ k' = 0
    BY <1>1 DEF Execute, Accepted
  <2>2. TypeOK'
    BY <2>1, <1>3, Nothing DEF TypeOK, Working
  <2> QED
    BY <2>1, <2>2, <1>0 DEF Execute, IInv, Working
<1>2. CASE Accepted(a)
  <2>1. pc' = "table" /\ job' = JobOf(ValidArgs(a), Key(a)) /\ table' = Key(a) /\ k' = 0
    BY <1>2 DEF Execute, Accepted
  <2>2. job' \in Jobs /\ KeyFits(job') /\ job'.key = Key(a)
    BY <2>1, <1>2, JobRead DEF JobOf
  <2>3. TypeOK'
    BY <2>1, <2>2, <1>3, AcceptedArgs, <1>2 DEF TypeOK, Working
  <2>4. TableGrows'
    BY <2>1, <2>2, LettersDistinct DEF TableGrows, KeyFits, Letters, Jobs
  <2>5. KeyDistinct' => AllInTable'
    BY <2>1, <2>2 DEF KeyDistinct, AllInTable, Jobs
  <2> QED
    BY <2>1, <2>2, <2>3, <2>4, <2>5, <1>0 DEF Execute, IInv, Working
<1> QED
  BY <1>1, <1>2

LEMMA RunStarts == IInv /\ Run => IInv'
<1> SUFFICES ASSUME IInv, Run
             PROVE  IInv'
  OBVIOUS
<1>1. PICK a \in Invocations : Execute(a, <<>>)
  BY DEF Run
<1>2. ArgsGiven(a)
  <2>1. a.flags \in Seq(Flag)
    BY CiphersAssumption DEF Flag
  <2> QED
    BY <2>1, CiphersAssumption DEF ArgsGiven
<1>3. text' \in Seq(Char)
  BY DEF Run, IInv, TypeOK
<1> QED
  BY <1>1, <1>2, <1>3, Nothing, Starts

LEMMA DsAreFlags == "d" \in Flag
BY DEF Flag

LEMMA ChangedOnce ==
    ASSUME NEW S, NEW T, NEW f \in [S -> T], NEW x, NEW v \in T
    PROVE  [f EXCEPT ![x] = v] \in [S -> T]
OBVIOUS

\* RunBack changes no argument but the second.
LEMMA AskedToDecode ==
    ASSUME ArgsGiven(args)
    PROVE  LET a == [args EXCEPT !.flags[2] = "d"]
           IN  /\ ArgsGiven(a) /\ a.values = args.values
               /\ Len(a.flags) = Len(args.flags)
               /\ \A i \in 1..Len(args.flags) : i # 2 => a.flags[i] = args.flags[i]
<1> DEFINE a == [args EXCEPT !.flags[2] = "d"]
           flags == [args.flags EXCEPT ![2] = "d"]
<1>1. args \in [flags : Seq(Flag), values : Seq(Seq(Char))]
  BY DEF ArgsGiven
<1>2. a = [args EXCEPT !.flags = flags]
  OBVIOUS
<1>3. Len(args.flags) \in Nat /\ args.flags \in [1..Len(args.flags) -> Flag]
  BY <1>1
<1>4. flags \in [1..Len(args.flags) -> Flag]
  BY <1>3, ChangedOnce, DsAreFlags, Zenon
<1>5. \A i \in 1..Len(args.flags) : i # 2 => flags[i] = args.flags[i]
  BY <1>3
<1> HIDE DEF flags
<1>6. flags \in Seq(Flag) /\ Len(flags) = Len(args.flags)
  BY <1>3, <1>4
<1>7. /\ a \in [flags : Seq(Flag), values : Seq(Seq(Char))]
      /\ a.values = args.values /\ a.flags = flags /\ Len(a.flags) = Len(args.flags)
  BY <1>1, <1>2, <1>6
<1> HIDE DEF a, flags
<1>8. ArgsGiven(a)
  BY <1>7 DEF ArgsGiven
<1> QED
  BY <1>5, <1>6, <1>7, <1>8 DEF a

LEMMA RunBackStarts == IInv /\ RunBack => IInv'
<1> SUFFICES ASSUME IInv, RunBack
             PROVE  IInv'
  OBVIOUS
<1> DEFINE a == [args EXCEPT !.flags[2] = "d"]
<1>1. ArgsGiven(a)
  BY AskedToDecode DEF IInv
<1>2. Execute(a, output) /\ output \in Seq(0..127) /\ text' \in Seq(Char)
  BY DEF RunBack, IInv, TypeOK
<1> QED
  BY <1>1, <1>2, Starts

LEMMA PlaceLetterKeeps == IInv /\ PlaceLetter => IInv'
<1> SUFFICES ASSUME IInv, PlaceLetter
             PROVE  IInv'
  OBVIOUS
<1> DEFINE c == Letters[k + 1]
<1>1. /\ pc = "table" /\ pc' = "table" /\ job' = job /\ k' = k + 1 /\ k \in Nat
      /\ table \in Seq(Char) /\ job \in Jobs /\ KeyFits(job) /\ TableGrows
      /\ KeyDistinct => AllInTable
  BY DEF IInv, PlaceLetter, TypeOK, Working
<1>2. Letters \in Seq(Char) /\ Len(Letters) \in Nat /\ IsInjective(Letters)
  BY LettersDistinct DEF Letters
<1>3. k < Len(Letters)
  <2>1. Size \in Int /\ Len(job.key) \in Nat
    BY <1>1 DEF Size, Jobs, MinSide, MaxSide
  <2> QED
    BY <1>1, <1>2, <2>1 DEF PlaceLetter, Turns
<1>4. k + 1 \in 1..Len(Letters) /\ c \in Char
  BY <1>1, <1>2, <1>3
<1>5. job.key \in Seq(Char) /\ Len(job.key) \in Nat /\ Len(table) \in Nat
  BY <1>1 DEF Jobs
<1> HIDE DEF c
<1>6. ASSUME table' = table, KeyDistinct => Contains(table, c)
      PROVE  TableGrows' /\ (KeyDistinct' => AllInTable')
  <2>1. TableGrows'
    BY <1>1, <1>3, <1>2, <1>6 DEF TableGrows, Letters
  <2>2. ASSUME KeyDistinct PROVE AllInTable'
    <3>1. \A j \in 1..(k + 1) : j = k + 1 \/ j \in 1..k
      BY <1>1
    <3> QED
      BY <2>2, <3>1, <1>1, <1>6 DEF AllInTable, Letters, c
  <2> QED
    BY <2>1, <2>2, <1>1 DEF KeyDistinct
<1>7. ASSUME table' = Append(table, c), ~InKey(c), Len(table) < Len(Letters)
      PROVE  TableGrows' /\ (KeyDistinct' => AllInTable')
  <2>1. /\ Len(table') = Len(table) + 1 /\ table'[Len(table) + 1] = c
        /\ \A i \in 1..Len(table) : table'[i] = table[i]
        /\ table' \in Seq(Char)
    BY <1>7, <1>4, <1>1, AppendProperties
  <2>2. TableGrows'
    <3>1. \A i \in 1..Len(table') : Contains(Letters, table'[i])
      BY <2>1, <1>4, <1>1, <1>5 DEF TableGrows, Contains, c
    <3>2. \A i \in 1..Len(job.key) : table'[i] = job.key[i]
      BY <2>1, <1>1, <1>5 DEF TableGrows
    <3> QED
      BY <3>1, <3>2, <2>1, <1>1, <1>3, <1>7, <1>2, <1>5, SMTT(30) DEF TableGrows, Letters
  <2>3. ASSUME KeyDistinct PROVE AllInTable'
    <3>1. AllInTable
      BY <2>3, <1>1
    <3>2. ASSUME NEW i \in 1..Len(table) PROVE table[i] # c
      <4>1. CASE i <= Len(job.key)
        BY <4>1, <1>7, <1>1, <1>5 DEF InKey, Contains, TableGrows
      <4>2. CASE \E j \in 1..k : table[i] = Letters[j]
        BY <4>2, <1>1, <1>2, <1>3, <1>4 DEF IsInjective, c
      <4> QED
        BY <4>1, <4>2, <3>1 DEF AllInTable
    <3>3. IsInjective(table')
      BY <3>1, <3>2, <2>1, <1>5 DEF AllInTable, IsInjective
    <3>4. \A i \in 1..Len(table') :
             i <= Len(job.key) \/ \E j \in 1..(k + 1) : table'[i] = Letters[j]
      <4>1. \A j \in 1..k : j \in 1..(k + 1)
        BY <1>1
      <4>2. k + 1 \in 1..(k + 1)
        BY <1>1
      <4> QED
        BY <3>1, <4>1, <4>2, <2>1, <1>5 DEF AllInTable, c
    <3>5. \A j \in 1..(k + 1) : Contains(table', Letters[j])
      <4>1. \A j \in 1..(k + 1) : j = k + 1 \/ j \in 1..k
        BY <1>1
      <4>2. Contains(table', c)
        BY <2>1, <1>5 DEF Contains
      <4>3. \A j \in 1..k : Contains(table', Letters[j])
        BY <3>1, <2>1, <1>5 DEF AllInTable, Contains
      <4> QED
        BY <4>1, <4>2, <4>3 DEF c
    <3> QED
      BY <3>3, <3>4, <3>5, <1>1 DEF AllInTable, Letters
  <2> QED
    BY <2>2, <2>3, <1>1 DEF KeyDistinct
<1>8. CASE InKey(c)
  <2>1. Contains(table, c)
    BY <1>8, <1>1, <1>5 DEF InKey, Contains, TableGrows
  <2>2. table' = table
    BY <1>8 DEF PlaceLetter, c
  <2> QED
    BY <2>1, <2>2, <1>6, <1>1 DEF IInv, PlaceLetter, TypeOK, Plain, KeyFits, Working, reader, garbage
<1>9. CASE ~InKey(c) /\ Len(table) >= Len(Letters)
  <2>1. ASSUME KeyDistinct PROVE Contains(table, c)
    <3>1. Len(table) = Len(Letters) /\ IsInjective(table)
      BY <1>9, <1>1, <1>2, <1>5, <2>1 DEF TableGrows, AllInTable
    <3>2. ToSet(table) = ToSet(Letters)
      BY <3>1, <1>1, <1>2, DistinctFills DEF TableGrows
    <3> QED
      BY <3>2, <1>4, <1>1, <1>2, InToSet DEF Contains, c
  <2>2. table' = table
    BY <1>9 DEF PlaceLetter, c
  <2> QED
    BY <2>1, <2>2, <1>6, <1>1 DEF IInv, PlaceLetter, TypeOK, Plain, KeyFits, Working, reader, garbage
<1>10. CASE ~InKey(c) /\ Len(table) < Len(Letters)
  <2>1. table' = Append(table, c) /\ table' \in Seq(Char)
    BY <1>10, <1>1, <1>2, <1>4, <1>5 DEF PlaceLetter, c
  <2> QED
    BY <2>1, <1>7, <1>10, <1>1 DEF IInv, PlaceLetter, TypeOK, Plain, KeyFits, Working, reader, garbage
<1> QED
  BY <1>8, <1>9, <1>10, <1>2, <1>5

\* What is left to show of an action that leaves the table alone.
LEMMA TableStays ==
    ASSUME IInv, pc \in {"text", "done", "astray"}, pc' \in {"text", "done", "astray"},
           UNCHANGED <<args, job, table, k>>, TypeOK', Plain'
    PROVE  IInv'
BY DEF IInv, ArgsGiven, Working, KeyFits, TableGrows, KeyDistinct, AllInTable,
       RoomForKey, Size, Letters

LEMMA TableDoneKeeps == IInv /\ TableDone => IInv'
<1> SUFFICES ASSUME IInv, TableDone
             PROVE  IInv'
  OBVIOUS
<1>1. /\ pc = "table" /\ pc' = "text" /\ k >= Turns /\ UNCHANGED <<args, job, table, k>>
      /\ k \in Nat /\ job \in Jobs /\ TableGrows /\ ArgsGiven(args)
      /\ KeyFits(job) /\ (KeyDistinct => AllInTable)
  BY DEF IInv, TableDone, TypeOK, Working
<1>2. RoomForKey => k = Len(Letters)
  <2>1. Size \in Int /\ Len(job.key) \in Nat /\ Len(Letters) \in Nat
    BY <1>1, LettersDistinct DEF Size, Jobs, MinSide, MaxSide, Letters
  <2> QED
    BY <1>1, <2>1 DEF RoomForKey, Turns, TableGrows
<1>3. input' \in Seq(0..127) /\ text' \in Seq(Char)
  <2>1. CASE job.decode
    BY <2>1 DEF TableDone, IInv, TypeOK
  <2>2. CASE ~job.decode
    <3>1. input' \in Texts[job.cipher] /\ text' = input' /\ job.cipher \in {"p", "f"}
      BY <2>2, <1>1 DEF TableDone, Jobs
    <3>2. input' \in Seq(Char)
      BY <3>1, CiphersAssumption
    <3> QED
      BY <3>1, <3>2 DEF Char
  <2> QED
    BY <2>1, <2>2
<1>4. TypeOK'
  <2>1. tail' \in Seq(0..Other) /\ dirty' \in BOOLEAN
    BY CiphersAssumption DEF TableDone, Uninitialized, garbage, IInv, TypeOK
  <2> QED
    BY <2>1, <1>1, <1>3 DEF IInv, TypeOK, TableDone, Working
<1>5. Plain'
  BY <1>1 DEF IInv, Plain, TableDone, Uninitialized, garbage, Working
<1> QED
  BY <1>1, <1>2, <1>4, <1>5 DEF IInv, Working, ArgsGiven, KeyFits, TableGrows,
                                KeyDistinct, AllInTable, RoomForKey, Size, Letters

LEMMA EndOfInputKeeps == IInv /\ EndOfInput => IInv'
<1> SUFFICES ASSUME IInv, EndOfInput
             PROVE  IInv'
  OBVIOUS
<1>1. TypeOK' /\ Plain'
  BY DEF IInv, TypeOK, Plain, EndOfInput, reader, garbage, Working
<1> QED
  BY <1>1, TableStays DEF EndOfInput

\* findCol and findRow stop at the first cell with what they look for.
LEMMA PositionFound ==
    ASSUME NEW c, table \in Seq(Char), Contains(table, c)
    PROVE  /\ Position(c) \in 0..(Len(table) - 1)
           /\ table[Position(c) + 1] = c
           /\ \A j \in 0..(Position(c) - 1) : table[j + 1] # c
<1> DEFINE T == {i \in Nat : i < Len(table) /\ table[i + 1] = c}
<1>1. PICK n \in 1..Len(table) : table[n] = c
  BY DEF Contains
<1>2. n - 1 \in T
  BY <1>1
<1>3. PICK i \in T : \A j \in T : i <= j
  BY <1>2, LeastNumber
<1>4. \E m \in 0..(Len(table) - 1) : /\ table[m + 1] = c
                                     /\ \A j \in 0..(m - 1) : table[j + 1] # c
  <2>1. i \in 0..(Len(table) - 1) /\ table[i + 1] = c
    BY <1>3
  <2>2. ASSUME NEW j \in 0..(i - 1), table[j + 1] = c PROVE FALSE
    <3>1. j \in Nat /\ j < i /\ i < Len(table) /\ Len(table) \in Nat
      BY <1>3
    <3>2. j \in T
      BY <3>1, <2>2
    <3> QED
      BY <3>1, <3>2, <1>3
  <2> QED
    BY <2>1, <2>2
<1> QED
  BY <1>4 DEF Position

-----------------------------------------------------------------------------
(* What the loops over the input write *)

LEMMA Coordinates ==
    ASSUME NEW i \in Nat, i <= 225, job \in Jobs
    PROVE  FindCol(i) \in 0..127 /\ FindRow(i) \in 0..127
<1> DEFINE n == job.columns
<1>1. n \in Nat /\ 9 <= n /\ n <= 15
  BY DEF Jobs, MinSide, MaxSide
<1> HIDE DEF n
<1>2. i % n \in Nat /\ i % n < n
  BY <1>1
<1>3. i \div n \in Nat /\ i \div n <= 25
  BY <1>1, SMTT(30)
<1> QED
  BY <1>1, <1>2, <1>3 DEF FindCol, FindRow, n

LEMMA TableSizes ==
    IInv /\ pc \in Working =>
        /\ job \in Jobs /\ table \in Seq(Char) /\ Len(table) \in Nat
        /\ Len(table) <= 225 /\ (job.cipher = "f" => Len(table) <= 26)
<1> SUFFICES ASSUME IInv, pc \in Working
             PROVE  /\ job \in Jobs /\ table \in Seq(Char) /\ Len(table) \in Nat
                    /\ Len(table) <= 225 /\ (job.cipher = "f" => Len(table) <= 26)
  OBVIOUS
<1>1. job \in Jobs /\ table \in Seq(Char) /\ Len(table) <= Len(Letters)
  BY DEF IInv, TypeOK, TableGrows
<1>2. Len(Letters) <= 225 /\ (job.cipher = "f" => Len(Letters) <= 26) /\ Len(Letters) \in Nat
  <2>1. /\ Len(PolybiusAlphabet) \in Nat /\ Len(PolybiusAlphabet) <= 225
        /\ Len(FmAlphabet) = 26
    BY AlphabetAssumption
  <2>2. CASE job.cipher = "p"
    <3>1. Letters = PolybiusAlphabet /\ job.cipher # "f"
      BY <2>2 DEF Letters, Alphabet
    <3> QED
      BY <2>1, <3>1
  <2>3. CASE job.cipher # "p"
    <3>1. Letters = FmAlphabet
      BY <2>3 DEF Letters, Alphabet
    <3>2. Len(FmAlphabet) \in Nat /\ Len(FmAlphabet) <= 225 /\ Len(FmAlphabet) <= 26
      BY <2>1
    <3> QED
      BY <3>1, <3>2
  <2> QED
    BY <2>2, <2>3
<1>3. Len(table) \in Nat
  BY <1>1
<1> QED
  <2>1. PICK m, n : m = Len(Letters) /\ n = Len(table)
    OBVIOUS
  <2> QED
    BY <1>1, <1>2, <1>3, <2>1

\* What reading a character tells of the step.
LEMMA Read ==
    ASSUME NEW cipher, NEW decode, IInv, Reading(cipher, decode)
    PROVE  /\ pc = "text" /\ pc \in Working /\ job.cipher = cipher /\ job.decode = decode
           /\ symbols = <<>>
           /\ Head(input) \in 0..127 /\ input' \in Seq(0..127)
<1>1. input \in Seq(0..127) /\ input # <<>>
  BY DEF IInv, TypeOK, Reading
<1> QED
  BY <1>1, HeadTailProperties DEF Reading, Working

LEMMA EncodePolybiusKeeps == IInv /\ EncodePolybius => IInv'
<1> SUFFICES ASSUME IInv, EncodePolybius
             PROVE  IInv'
  OBVIOUS
<1> DEFINE c == Head(input)
           i == Position(c)
<1>1. /\ pc = "text" /\ pc \in Working /\ c \in 0..127 /\ input' \in Seq(0..127)
      /\ output \in Seq(0..127)
  BY Read DEF EncodePolybius, IInv, TypeOK
<1>2. CASE c \in Blanks
  <2>1. output' = Append(output, c) /\ UNCHANGED <<pc, reader>>
    BY <1>2 DEF EncodePolybius
  <2>2. output' \in Seq(0..127)
    BY <2>1, <1>1, AppendProperties
  <2> QED
    BY <2>1, <2>2, <1>1, TableStays DEF EncodePolybius, IInv, TypeOK, Plain, reader, garbage
<1>3. CASE c \notin Blanks /\ Contains(table, c)
  <2>1. i \in Nat /\ i <= 225
    BY <1>1, <1>3, TableSizes, PositionFound
  <2>2. <<FindRow(i), FindCol(i)>> \in Seq(0..127)
    <3> HIDE DEF i
    <3> QED
      BY <2>1, <1>1, TableSizes, Coordinates
  <2>3. output' \in Seq(0..127) /\ UNCHANGED <<pc, reader>>
    <3>1. output' = output \o <<FindRow(i), FindCol(i)>> /\ UNCHANGED <<pc, reader>>
      BY <1>3 DEF EncodePolybius
    <3> QED
      BY <3>1, <2>2, <1>1, ConcatProperties
  <2> QED
    BY <2>3, <1>1, TableStays DEF EncodePolybius, IInv, TypeOK, Plain, reader, garbage
<1>4. CASE c \notin Blanks /\ ~Contains(table, c)
  <2>1. pc' = "astray" /\ UNCHANGED <<output, reader>>
    BY <1>4 DEF EncodePolybius, Astray
  <2> QED
    BY <2>1, <1>1, TableStays DEF EncodePolybius, IInv, TypeOK, Plain, reader, garbage, Working
<1> QED
  BY <1>2, <1>3, <1>4

LEMMA DecodePolybiusKeeps == IInv /\ DecodePolybius => IInv'
<1> SUFFICES ASSUME IInv, DecodePolybius
             PROVE  IInv'
  OBVIOUS
<1> DEFINE c == Head(input)
<1>1. /\ pc = "text" /\ pc \in Working /\ c \in 0..127 /\ input' \in Seq(0..127)
      /\ output \in Seq(0..127) /\ table \in Seq(Char) /\ half \in 0..127
  BY Read DEF DecodePolybius, IInv, TypeOK
<1>2. CoordToSym(half, c) \in 0..127
  BY <1>1 DEF CoordToSym, Char, NUL
<1>3. Append(output, c) \in Seq(0..127) /\ Append(output, CoordToSym(half, c)) \in Seq(0..127)
  BY <1>1, <1>2, AppendProperties
<1>4. output' \in Seq(0..127) /\ half' \in 0..127
  <2>1. \/ half' = NUL /\ output' = Append(output, c)
        \/ half' = c /\ output' = output
        \/ half' = NUL /\ output' = Append(output, CoordToSym(half, c))
    BY DEF DecodePolybius
  <2>2. NUL \in 0..127
    BY DEF NUL
  <2> HIDE DEF c
  <2> QED
    BY <2>1, <2>2, <1>1, <1>3, Zenon
<1> QED
  BY <1>1, <1>4, TableStays DEF DecodePolybius, IInv, TypeOK, Plain, garbage, Working

LEMMA Single ==
    ASSUME NEW S, NEW e \in S
    PROVE  <<e>> \in Seq(S)
OBVIOUS

\* Three symbols make a letter, or none.
LEMMA PushTypes ==
    ASSUME IInv, pc \in Working, ~job.decode, NEW s \in 0..X, Push(s)
    PROVE  output' \in Seq(0..127) /\ buffer' \in Seq(0..X)
<1>1. /\ output \in Seq(0..127) /\ buffer \in Seq(0..X) /\ table \in Seq(Char)
  BY DEF IInv, TypeOK, Plain
<1>2. Append(buffer, s) \in Seq(0..X)
  BY <1>1, AppendProperties
<1>3. CASE Len(buffer) < 2
  BY <1>1, <1>2, <1>3 DEF Push
<1>4. CASE ~(Len(buffer) < 2)
  <2> DEFINE b == Append(buffer, s)
  <2>1. b[1] \in 0..2 /\ b[2] \in 0..2 /\ b[3] \in 0..2
    BY <1>1, <1>4, AppendProperties DEF X
  <2> DEFINE n == 9 * b[1] + 3 * b[2] + b[3]
  <2>2. n \in Nat
    <3> HIDE DEF b
    <3> QED
      BY <2>1
  <2>3. KeyLetter(b) \in Seq(0..127)
    <3>1. KeyLetter(b) = IF n = 26 THEN <<>> ELSE IF n < Len(table) THEN <<table[n + 1]>> ELSE <<NUL>>
      BY DEF KeyLetter
    <3> HIDE DEF n, b
    <3>2. CASE n < Len(table)
      <4>1. table[n + 1] \in 0..127
        <5>1. n + 1 \in DOMAIN table
          BY <2>2, <3>2, <1>1
        <5>2. table[n + 1] \in Char
          BY <5>1, <1>1
        <5> QED
          BY <5>2 DEF Char
      <4> QED
        BY <4>1, <3>1, <3>2, Nothing, Single
    <3>3. CASE ~(n < Len(table))
      BY <3>1, <3>3, Nothing, Single DEF NUL
    <3> QED
      BY <3>2, <3>3
  <2>4. output' = output \o KeyLetter(b) /\ buffer' = <<>>
    BY <1>4 DEF Push
  <2> HIDE DEF b
  <2> QED
    BY <2>3, <2>4, <1>1, Nothing, ConcatProperties
<1> QED
  BY <1>3, <1>4

LEMMA EncodeFmKeeps == IInv /\ EncodeFm => IInv'
<1> SUFFICES ASSUME IInv, EncodeFm
             PROVE  IInv'
  OBVIOUS
<1> DEFINE c == Head(input)
<1>1. /\ pc = "text" /\ pc \in Working /\ c \in 0..127 /\ input' \in Seq(0..127)
      /\ output \in Seq(0..127) /\ buffer \in Seq(0..X) /\ symbols \in Seq(0..X)
      /\ symbols = <<>> /\ prevSpace \in BOOLEAN /\ ~job.decode
  BY Read, Nothing DEF EncodeFm, Reading, IInv, TypeOK, Plain
<1>2. X \in 0..X
  BY DEF X
<1>3. /\ output' \in Seq(0..127) /\ buffer' \in Seq(0..X) /\ symbols' \in Seq(0..X)
      /\ prevSpace' \in BOOLEAN /\ pc' \in {"text", "astray"}
  <2>1. CASE c = Newline
    <3>1. CASE Len(buffer) < 2
      <4>1. /\ buffer' = <<>> /\ output' = output
            /\ UNCHANGED <<pc, symbols, prevSpace>>
        BY <2>1, <3>1 DEF EncodeFm, Newline, Space
      <4> QED
        BY <4>1, <1>1, Nothing
    <3>2. CASE ~(Len(buffer) < 2)
      <4>1. Push(X) \/ (buffer' = <<>> /\ output' = output \o KeyLetter(Append(buffer, X)))
        BY <2>1, <3>2 DEF EncodeFm, Newline, Space
      <4>2. Push(X)
        BY <4>1, <3>2 DEF Push
      <4>3. output' \in Seq(0..127) /\ buffer' \in Seq(0..X)
        BY <4>2, <1>1, <1>2, PushTypes
      <4> QED
        BY <4>3, <2>1, <1>1 DEF EncodeFm, Newline, Space
    <3> QED
      BY <3>1, <3>2
  <2>2. CASE c = Space
    <3>1. Push(X) \/ UNCHANGED <<output, buffer>>
      BY <2>2 DEF EncodeFm, Newline, Space
    <3>2. output' \in Seq(0..127) /\ buffer' \in Seq(0..X)
      BY <3>1, <1>1, <1>2, PushTypes
    <3> QED
      BY <3>2, <2>2, <1>1, ZenonT(60) DEF EncodeFm, Newline, Space
  <2>3. CASE c \notin {Newline, Space} /\ c \in DOMAIN MorseTable
    <3>1. MorseTable[c] \in Seq({0, 1})
      BY <2>3, CiphersAssumption
    <3>2. MorseTable[c] \in Seq(0..X)
      BY <3>1 DEF X
    <3>3. Append(MorseTable[c], X) \in Seq(0..X)
      BY <3>2, <1>2, AppendProperties
    <3> QED
      BY <3>3, <2>3, <1>1 DEF EncodeFm
  <2>4. CASE c \notin {Newline, Space} /\ c \notin DOMAIN MorseTable
    BY <2>4, <1>1 DEF EncodeFm
  <2> QED
    BY <2>1, <2>2, <2>3, <2>4
<1>4. TypeOK' /\ Plain'
  BY <1>1, <1>3, SymbolsAreBytes DEF EncodeFm, IInv, TypeOK, Plain, garbage, Working
<1> QED
  BY <1>1, <1>4, TableStays DEF EncodeFm

\* What taking a symbol tells of the step.
LEMMA Taken ==
    ASSUME NEW decode, IInv, NextSymbol(decode)
    PROVE  /\ pc = "text" /\ pc \in Working
           /\ Head(symbols) \in 0..Other /\ symbols' \in Seq(0..Other)
           /\ tail = <<>> => Head(symbols) \in 0..X /\ symbols' \in Seq(0..X)
           /\ ~decode => tail = <<>>
<1>1. symbols \in Seq(0..Other) /\ symbols # <<>>
  BY DEF IInv, TypeOK, NextSymbol
<1>2. tail = <<>> => symbols \in Seq(0..X)
  BY DEF IInv, Plain
<1> QED
  BY <1>1, <1>2, HeadTailProperties DEF NextSymbol, Working, IInv, Plain

LEMMA EncodeSymbolKeeps == IInv /\ EncodeSymbol => IInv'
<1> SUFFICES ASSUME IInv, EncodeSymbol
             PROVE  IInv'
  OBVIOUS
<1>1. /\ pc = "text" /\ pc \in Working /\ Head(symbols) \in 0..X /\ symbols' \in Seq(0..X)
      /\ ~job.decode
  BY Taken DEF EncodeSymbol, NextSymbol
<1>2. output' \in Seq(0..127) /\ buffer' \in Seq(0..X)
  BY <1>1, PushTypes DEF EncodeSymbol
<1>3. TypeOK' /\ Plain'
  BY <1>1, <1>2, SymbolsAreBytes DEF EncodeSymbol, IInv, TypeOK, Plain, garbage
<1> QED
  BY <1>1, <1>3, TableStays DEF EncodeSymbol

LEMMA DecodeFmKeeps == IInv /\ DecodeFm => IInv'
<1> SUFFICES ASSUME IInv, DecodeFm
             PROVE  IInv'
  OBVIOUS
<1> DEFINE c == Head(input)
           n == Position(c)
<1>1. /\ pc = "text" /\ pc \in Working /\ job.cipher = "f" /\ c \in 0..127
      /\ input' \in Seq(0..127) /\ symbols = <<>> /\ triple \in Seq(0..X)
      /\ tail \in Seq(0..Other) /\ job.decode
  BY Read DEF DecodeFm, Reading, IInv, TypeOK
<1>2. ASSUME Contains(table, c)
      PROVE  Triple(n) \in Seq(0..X)
  <2>1. n \in Nat /\ n < 26
    BY <1>1, <1>2, TableSizes, PositionFound
  <2> HIDE DEF n
  <2>2. n \div 9 \in 0..2 /\ (n \div 3) % 3 \in 0..2 /\ n % 3 \in 0..2
    BY <2>1
  <2> QED
    BY <2>2 DEF Triple, X
<1>3. /\ triple' \in Seq(0..X) /\ pc' \in {"text", "done", "astray"}
      /\ symbols' = symbols \/ symbols' = triple' \o tail
  <2>1. CASE Contains(table, c)
    BY <2>1, <1>1, <1>2 DEF DecodeFm
  <2>2. CASE ~Contains(table, c)
    BY <2>2, <1>1 DEF DecodeFm
  <2> QED
    BY <2>1, <2>2
<1>4. /\ symbols' \in Seq(0..Other)
      /\ tail = <<>> => symbols' \in Seq(0..X)
  <2>1. triple' \o tail \in Seq(0..Other)
    BY <1>1, <1>3, SymbolsAreBytes, ConcatProperties
  <2>2. tail = <<>> => triple' \o tail \in Seq(0..X)
    BY <1>3, Nothing, ConcatProperties
  <2> QED
    BY <2>1, <2>2, <1>1, <1>3, Nothing
<1>5. TypeOK' /\ Plain'
  BY <1>1, <1>3, <1>4 DEF DecodeFm, IInv, TypeOK, Plain, garbage, Working
<1> QED
  BY <1>1, <1>5, TableStays DEF DecodeFm

LEMMA DecodeSymbolKeeps == IInv /\ DecodeSymbol => IInv'
<1> SUFFICES ASSUME IInv, DecodeSymbol
             PROVE  IInv'
  OBVIOUS
<1> DEFINE s == Head(symbols)
<1>1. /\ pc = "text" /\ pc \in Working /\ s \in 0..Other /\ symbols' \in Seq(0..Other)
      /\ tail = <<>> => s \in 0..X /\ symbols' \in Seq(0..X)
      /\ output \in Seq(0..127) /\ buffer \in Seq(0..Other) /\ job.decode
      /\ tail = <<>> => buffer \in Seq(0..X)
  BY Taken DEF DecodeSymbol, NextSymbol, IInv, TypeOK, Plain
<1>2. FindMorse(buffer) \in 0..127
  <2>1. FindMorse(buffer) \in DOMAIN MorseTable \/ FindMorse(buffer) = Space
    <3>1. CASE \E e \in DOMAIN MorseTable : MorseTable[e] = buffer
      BY <3>1 DEF FindMorse
    <3>2. CASE ~\E e \in DOMAIN MorseTable : MorseTable[e] = buffer
      BY <3>2 DEF FindMorse
    <3> QED
      BY <3>1, <3>2
  <2> QED
    BY <2>1, CiphersAssumption DEF Char, Space
<1>3. /\ Append(output, Space) \in Seq(0..127) /\ Append(output, FindMorse(buffer)) \in Seq(0..127)
      /\ Append(buffer, s) \in Seq(0..Other)
      /\ tail = <<>> => Append(buffer, s) \in Seq(0..X)
  <2>1. Space \in 0..127
    BY DEF Space
  <2> QED
    BY <2>1, <1>1, <1>2, AppendProperties
<1>4. /\ <<s>> \in Seq(0..Other) /\ <<X>> \in Seq(0..X) /\ <<X>> \in Seq(0..Other)
      /\ tail = <<>> => <<s>> \in Seq(0..X)
  BY <1>1, Single DEF X, Other
<1>5. /\ output' \in {output, Append(output, Space), Append(output, FindMorse(buffer))}
      /\ buffer' \in {<<>>, <<X>>, <<s>>, Append(buffer, s)}
      /\ pc' \in {"text", "astray"} /\ dirty' \in BOOLEAN
      /\ UNCHANGED <<args, job, table, k, input, half, prevSpace, triple, tail, text>>
  BY <1>1 DEF DecodeSymbol, IInv, TypeOK
<1>6. /\ output' \in Seq(0..127) /\ buffer' \in Seq(0..Other)
      /\ tail = <<>> => buffer' \in Seq(0..X)
  BY <1>1, <1>3, <1>4, <1>5, Nothing
<1>7. TypeOK' /\ Plain'
  BY <1>1, <1>5, <1>6 DEF IInv, TypeOK, Plain, Working
<1> QED
  BY <1>1, <1>5, <1>7, TableStays DEF Working

-----------------------------------------------------------------------------
(* Theorems *)

LEMMA Inductive == Spec => []IInv
<1>1. IInv /\ [Next]_vars => IInv'
  <2> SUFFICES ASSUME IInv, [Next]_vars
               PROVE  IInv'
    OBVIOUS
  <2>1. CASE UNCHANGED vars
    BY <2>1 DEF IInv, Plain, vars, reader, garbage, TypeOK, ArgsGiven, Working, KeyFits, TableGrows,
                KeyDistinct, AllInTable, RoomForKey, Size, Letters
  <2> QED
    BY <2>1, RunStarts, RunBackStarts, PlaceLetterKeeps, TableDoneKeeps,
       EncodePolybiusKeeps, DecodePolybiusKeeps, EncodeFmKeeps, DecodeFmKeeps,
       EncodeSymbolKeeps, DecodeSymbolKeeps, EndOfInputKeeps DEF Next
<1> QED
  BY <1>1, Initially, PTL DEF Spec

\* Whatever the arguments and the texts are, the types hold: an argument list
\* that validargs lets through gives main a cipher, a mode and sides in their
\* bounds, and every byte that is written is a character.
THEOREM TypeCorrect == Spec => []TypeOK
<1>1. IInv => TypeOK
  BY DEF IInv
<1> QED
  BY <1>1, Inductive, PTL

\* For every alphabet and every key that repeats nothing and leaves room, the
\* loops that fill the tables end with the alphabet in another order.
THEOREM TableComplete == Spec => []TableIsAlphabet
<1>1. IInv => TableIsAlphabet
  <2> SUFFICES ASSUME IInv, pc \in Working \ {"table"}, KeyDistinct, RoomForKey
               PROVE  /\ Len(table) = Len(Letters) /\ IsInjective(table)
                      /\ ToSet(table) = ToSet(Letters)
    BY DEF TableIsAlphabet
  <2>1. /\ pc \in Working /\ table \in Seq(Char) /\ TableGrows /\ AllInTable /\ k = Len(Letters)
    BY DEF IInv, TypeOK
  <2>2. /\ Letters \in Seq(Char) /\ Len(Letters) \in Nat /\ IsInjective(Letters)
    BY LettersDistinct DEF Letters
  <2>3. ToSet(table) = ToSet(Letters)
    <3>1. ASSUME NEW e PROVE Contains(table, e) <=> Contains(Letters, e)
      BY <2>1, <2>2, ZenonT(30) DEF TableGrows, AllInTable, Contains
    <3> QED
      BY <3>1, <2>1, <2>2, InToSet
  <2>4. Len(table) = Len(Letters)
    BY <2>1, <2>2, <2>3, DistinctSize DEF AllInTable
  <2> QED
    BY <2>1, <2>3, <2>4 DEF AllInTable
<1> QED
  BY <1>1, Inductive, PTL

LEMMA Division ==
    ASSUME NEW i \in Nat, NEW n \in Nat, 9 <= n, n <= 15
    PROVE  (i \div n) * n + (i % n) = i
<1>1. CASE n = 9
  BY <1>1, SMTT(30)
<1>2. CASE n = 10
  BY <1>2, SMTT(30)
<1>3. CASE n = 11
  BY <1>3, SMTT(30)
<1>4. CASE n = 12
  BY <1>4, SMTT(30)
<1>5. CASE n = 13
  BY <1>5, SMTT(30)
<1>6. CASE n = 14
  BY <1>6, SMTT(30)
<1>7. CASE n = 15
  BY <1>7, SMTT(30)
<1> QED
  BY <1>1, <1>2, <1>3, <1>4, <1>5, <1>6, <1>7

\* A pair of coordinates leads back to the cell it was made for when the cell's
\* column is one of the first ten, however many rows the table has.
THEOREM CoordinatesComeBack ==
    ASSUME job \in Jobs, table \in Seq(Char),
           NEW i \in Nat, i < Len(table), i % job.columns <= 9
    PROVE  CoordToSym(FindRow(i), FindCol(i)) = table[i + 1]
<1> DEFINE n == job.columns
           row == i \div n
<1>1. n \in Nat /\ 9 <= n /\ n <= 15 /\ job.rows \in Nat /\ job.rows <= 15
  BY DEF Jobs, MinSide, MaxSide
<1>2. Number(FindCol(i)) = i % n
  <2>1. PICK col : col = i % n
    OBVIOUS
  <2>2. col \in 0..9
    <3>1. col <= 9
      BY <2>1
    <3> HIDE DEF n
    <3>2. col \in Nat
      BY <1>1, <2>1
    <3> QED
      BY <3>1, <3>2
  <2>3. FindCol(i) = col + 48
    BY <2>1, <2>2 DEF FindCol
  <2> QED
    BY <2>1, <2>2, <2>3 DEF Number
<1>3. row \in Nat
  BY <1>1, SMTT(30)
<1>4. Number(FindRow(i)) = row
  BY <1>3 DEF FindRow, Number
<1>5. row * n + (i % n) = i
  <2> HIDE DEF n
  <2> QED
    BY <1>1, Division, Zenon DEF row
<1>6. Number(FindRow(i)) * n + Number(FindCol(i)) = i
  <2> HIDE DEF n, row
  <2> QED
    BY <1>2, <1>4, <1>5
<1>7. i + 1 \in DOMAIN table
  OBVIOUS
<1> QED
  BY <1>6, <1>7 DEF CoordToSym

-----------------------------------------------------------------------------
(* The search *)

SearchEnds ==
    KeyDistinct /\ RoomForKey /\ job.cipher = "p" /\ OfAlphabet(text) => pc # "astray"

InputOfAlphabet ==
    pc = "text" /\ ~job.decode /\ job.cipher = "p" /\ OfAlphabet(text) => OfAlphabet(input)

\* What is read next is a blank, or is in the table.
LEMMA EncodePolybiusFinds ==
    IInv /\ SearchEnds /\ InputOfAlphabet /\ EncodePolybius => SearchEnds' /\ InputOfAlphabet'
<1> SUFFICES ASSUME IInv, SearchEnds, InputOfAlphabet, EncodePolybius
             PROVE  SearchEnds' /\ InputOfAlphabet'
  OBVIOUS
<1>1. /\ pc = "text" /\ ~job.decode /\ job.cipher = "p" /\ input \in Seq(0..127)
      /\ input # <<>> /\ input' = Tail(input) /\ UNCHANGED <<args, job, table, k, text>>
  BY DEF EncodePolybius, Reading, IInv, TypeOK
<1>2. ASSUME OfAlphabet(input) PROVE OfAlphabet(input')
  BY <1>1, <1>2, HeadTailProperties DEF OfAlphabet
<1>3. InputOfAlphabet'
  BY <1>1, <1>2 DEF InputOfAlphabet, OfAlphabet
<1>4. ASSUME KeyDistinct, RoomForKey, OfAlphabet(text) PROVE pc' # "astray"
  <2>1. Head(input) \in Blanks \/ Contains(PolybiusAlphabet, Head(input))
    BY <1>1, <1>4 DEF InputOfAlphabet, OfAlphabet
  <2>2. Contains(PolybiusAlphabet, Head(input)) => Contains(table, Head(input))
    BY <1>1, <1>4 DEF IInv, Working, AllInTable, Contains, Letters, Alphabet
  <2>3. pc' = pc
    BY <2>1, <2>2 DEF EncodePolybius, reader
  <2> QED
    BY <2>3, <1>1
<1> QED
  BY <1>1, <1>3, <1>4 DEF SearchEnds, KeyDistinct, RoomForKey, Size, Letters, OfAlphabet

LEMMA SearchInductive ==
    IInv /\ SearchEnds /\ InputOfAlphabet /\ [Next]_vars => SearchEnds' /\ InputOfAlphabet'
<1> SUFFICES ASSUME IInv, SearchEnds, InputOfAlphabet, [Next]_vars
             PROVE  SearchEnds' /\ InputOfAlphabet'
  OBVIOUS
<1>1. CASE Run \/ RunBack
  <2>1. pc' \in {"crashed", "help", "usage", "table"}
    BY <1>1 DEF Run, RunBack, Execute
  <2> QED
    BY <2>1 DEF SearchEnds, InputOfAlphabet
<1>2. CASE PlaceLetter
  BY <1>2 DEF PlaceLetter, SearchEnds, InputOfAlphabet
<1>3. CASE TableDone
  BY <1>3 DEF TableDone, SearchEnds, InputOfAlphabet
<1>4. CASE EncodePolybius
  BY <1>4, EncodePolybiusFinds
<1>5. CASE DecodePolybius
  BY <1>5 DEF DecodePolybius, Reading, SearchEnds, InputOfAlphabet, KeyDistinct, RoomForKey,
              Size, Letters, OfAlphabet
<1>6. CASE EncodeFm \/ DecodeFm
  BY <1>6 DEF EncodeFm, DecodeFm, Reading, SearchEnds, InputOfAlphabet, OfAlphabet
<1>7. CASE EncodeSymbol \/ DecodeSymbol
  BY <1>7 DEF EncodeSymbol, DecodeSymbol, NextSymbol, SearchEnds, InputOfAlphabet, OfAlphabet
<1>8. CASE EndOfInput
  BY <1>8 DEF EndOfInput, SearchEnds, InputOfAlphabet
<1>9. CASE UNCHANGED vars
  BY <1>9 DEF vars, SearchEnds, InputOfAlphabet, KeyDistinct, RoomForKey, Size, Letters, OfAlphabet
<1> QED
  BY <1>1, <1>2, <1>3, <1>4, <1>5, <1>6, <1>7, <1>8, <1>9 DEF Next

\* While the text is of the alphabet, findCol and findRow find every character:
\* they do not run off the table, which they would not notice.
THEOREM SearchStays == Spec => []SearchEnds
<1>1. Init => SearchEnds /\ InputOfAlphabet
  BY DEF Init, SearchEnds, InputOfAlphabet
<1> QED
  BY <1>1, SearchInductive, Inductive, PTL DEF Spec

-----------------------------------------------------------------------------
(* Polybius, there and back *)

\* One turn of the loop over the alphabet, as it changes a table.
Placed(j, t, n) ==
    LET letters == Alphabet(j.cipher)
    IN  IF Contains(j.key, letters[n]) \/ Len(t) >= Len(letters) THEN t
        ELSE Append(t, letters[n])

\* The tables f there are after each turn up to the n-th.
Fills(f, j, n) == f[0] = j.key /\ \A m \in 1..n : f[m] = Placed(j, f[m - 1], m)

\* There is one table for a key: the second run fills the same one as the first.
LEMMA FillsAlike ==
    ASSUME NEW j, NEW n \in Nat, NEW f, NEW g, Fills(f, j, n), Fills(g, j, n)
    PROVE  f[n] = g[n]
<1> DEFINE T == {m \in 0..n : f[m] = g[m]}
<1>1. 0 \in T
  BY DEF Fills
<1>2. ASSUME NEW m \in 0..(n - 1), m \in T PROVE m + 1 \in T
  <2>1. m + 1 \in 1..n /\ (m + 1) - 1 = m /\ m + 1 \in 0..n /\ f[m] = g[m]
    BY <1>2
  <2>2. f[m + 1] = Placed(j, f[m], m + 1) /\ g[m + 1] = Placed(j, g[m], m + 1)
    BY <2>1 DEF Fills
  <2> QED
    BY <2>1, <2>2
<1>3. 0..n \subseteq T
  <2> HIDE DEF T
  <2>1. \A m \in 0..(n - 1) : m \in T => m + 1 \in T
    BY <1>2
  <2> QED
    BY <1>1, <2>1, NatSetInduction
<1> QED
  BY <1>3

\* The coordinates of the cell i of a table with n columns, as findRow and
\* findCol write them.
RowSign(i, n) == (i \div n) + (IF i \div n > 9 THEN 55 ELSE 48)
ColSign(i, n) == (i % n) + (IF i % n > 9 THEN 101 ELSE 48)

\* c is first in the cell i.
FirstAt(t, c, i) ==
    /\ i \in 0..(Len(t) - 1) /\ t[i + 1] = c
    /\ \A j \in 0..(i - 1) : t[j + 1] # c

\* What is written for c are the characters of the code behind the a-th up to the b-th.
CharCoded(c, a, b, t, n, code) ==
    \/ c \in Blanks /\ b = a + 1 /\ code[b] = c
    \/ /\ c \notin Blanks /\ b = a + 2
       /\ \E i : FirstAt(t, c, i) /\ code[a + 1] = RowSign(i, n) /\ code[b] = ColSign(i, n)

\* The code is that of the first m characters of s; o tells where each one ends.
Coded(o, s, m, t, n, code) ==
    /\ o \in [0..m -> Nat] /\ o[0] = 0 /\ o[m] = Len(code)
    /\ \A i, j \in 0..m : i < j => o[i] < o[j]
    /\ \A i \in 1..m : CharCoded(s[i], o[i - 1], o[i], t, n, code)

\* s is what is left of the sequence t.
IsRest(s, t) ==
    Len(s) <= Len(t) /\ \A i \in 1..Len(s) : s[i] = t[Len(t) - Len(s) + i]

\* What main works on is what it was run with, and nothing is read or written
\* before the table is filled.
RunInv ==
    pc \in Working =>
        /\ Accepted(args) /\ job = JobOf(ValidArgs(args), Key(args))
        /\ pc = "table" => output = <<>> /\ half = NUL
        /\ \E f : Fills(f, job, k) /\ table = f[k]

\* The first run has written the code of what it has read.
EncodeInv ==
    pc \in {"text", "done"} /\ ~job.decode /\ job.cipher = "p" =>
        /\ IsRest(input, text)
        /\ \E o : Coded(o, text, Len(text) - Len(input), table, job.columns, output)
        /\ pc = "done" => input = <<>>

\* The second run begins with the code of the text, made with the table it will fill.
BackInv ==
    pc = "table" /\ job.decode /\ job.cipher = "p" /\ RoomForKey =>
        \E t, f, o : /\ Coded(o, text, Len(text), t, job.columns, input)
                     /\ Fills(f, job, Len(Letters)) /\ t = f[Len(Letters)]

CameBack(i) ==
    text[i] \in Blanks \/ Position(text[i]) % job.columns <= 9 => output[i] = text[i]

\* The second run has written the first m characters of the text, and half says
\* whether it has read one more sign of the code than those have.
Reads(code, o, m) ==
    /\ code \in Seq(0..127) /\ Coded(o, text, Len(text), table, job.columns, code)
    /\ m \in 0..Len(text) /\ Len(output) = m /\ \A i \in 1..m : CameBack(i)
    /\ IsRest(input, code)
    /\ \/ half = NUL /\ Len(code) - Len(input) = o[m]
       \/ /\ half # NUL /\ m < Len(text) /\ text[m + 1] \notin Blanks
          /\ Len(code) - Len(input) = o[m] + 1 /\ half = code[o[m] + 1]

DecodeInv ==
    pc \in {"text", "done"} /\ job.decode /\ job.cipher = "p" /\ RoomForKey =>
        /\ \E code, o, m : Reads(code, o, m)
        /\ pc = "done" => input = <<>>

ThereAndBack == RunInv /\ EncodeInv /\ BackInv /\ DecodeInv

-----------------------------------------------------------------------------

\* A step of the reading loops leaves what was read from the arguments.
LEMMA StillRun ==
    ASSUME RunInv, pc \in Working, pc' # "table", UNCHANGED <<args, job, table, k>>
    PROVE  RunInv' /\ BackInv'
BY DEF RunInv, BackInv

\* A step of the other cipher.
LEMMA OtherCipher ==
    ASSUME ThereAndBack, pc \in Working, pc' # "table", job.cipher # "p",
           UNCHANGED <<args, job, table, k>>
    PROVE  ThereAndBack'
BY StillRun DEF ThereAndBack, EncodeInv, DecodeInv

\* validargs reads -d and -e only to tell them apart.
LEMMA SameButDecode ==
    ASSUME NEW a, ArgsGiven(a), Accepted(a),
           NEW b, ArgsGiven(b), Accepted(b),
           b.values = a.values, Len(b.flags) = Len(a.flags), b.flags[1] = a.flags[1],
           \A i \in 3..Len(a.flags) : b.flags[i] = a.flags[i]
    PROVE  /\ Key(b) = Key(a)
           /\ JobOf(ValidArgs(b), Key(b)).cipher = JobOf(ValidArgs(a), Key(a)).cipher
           /\ JobOf(ValidArgs(b), Key(b)).key = JobOf(ValidArgs(a), Key(a)).key
           /\ JobOf(ValidArgs(b), Key(b)).rows = JobOf(ValidArgs(a), Key(a)).rows
           /\ JobOf(ValidArgs(b), Key(b)).columns = JobOf(ValidArgs(a), Key(a)).columns
<1>1. Options(b) = Options(a) /\ \A i \in Options(a) : b.flags[i] = a.flags[i]
  BY DEF Options
<1>2. ASSUME NEW letter
      PROVE  /\ Given(b, letter) <=> Given(a, letter)
             /\ ValueOf(b, letter) = ValueOf(a, letter)
  BY <1>1 DEF Given, ValueOf
<1>3. Rows(b) = Rows(a) /\ Columns(b) = Columns(a) /\ Key(b) = Key(a)
  BY <1>2 DEF Rows, Columns, Side, Key
<1>4. /\ JobOf(ValidArgs(a), Key(a)).cipher = a.flags[1]
      /\ JobOf(ValidArgs(a), Key(a)).rows = Rows(a)
      /\ JobOf(ValidArgs(a), Key(a)).columns = Columns(a)
  BY JobRead
<1>5. /\ JobOf(ValidArgs(b), Key(b)).cipher = b.flags[1]
      /\ JobOf(ValidArgs(b), Key(b)).rows = Rows(b)
      /\ JobOf(ValidArgs(b), Key(b)).columns = Columns(b)
  BY JobRead
<1> QED
  BY <1>3, <1>4, <1>5 DEF JobOf

\* The user encodes first.
LEMMA FirstRun ==
    ASSUME Run, pc' = "table"
    PROVE  /\ ~job'.decode /\ output' = <<>>
           /\ symbols' = <<>> /\ buffer' = <<>> /\ prevSpace' /\ triple' = <<>>
<1>1. PICK a \in Invocations : Execute(a, <<>>)
  BY DEF Run
<1>2. Accepted(a) /\ job' = JobOf(ValidArgs(a), Key(a))
  BY <1>1 DEF Execute, Accepted
<1>3. ArgsGiven(a)
  <2>1. a.flags \in Seq(Flag)
    BY CiphersAssumption DEF Flag
  <2> QED
    BY <2>1, CiphersAssumption DEF ArgsGiven
<1>4. a.flags[2] # "d"
  <2>1. a.flags[1] \in {"f", "p"} /\ a.flags \in Seq(Flag)
    BY <1>2, <1>3, AcceptedArgs DEF ArgsGiven
  <2>2. a.flags # <<>> /\ Len(a.flags) # 1
    BY <1>2, <2>1 DEF Accepted, Crashes
  <2>3. Len(a.flags) >= 2
    <3> DEFINE n == Len(a.flags)
    <3>1. n \in Nat \ {0}
      BY <2>1, <2>2, EmptySeq
    <3>2. n # 1
      BY <2>2
    <3> HIDE DEF n
    <3>3. n >= 2
      BY <3>1, <3>2
    <3> QED
      BY <3>3 DEF n
  <2> QED
    BY <2>3, CiphersAssumption
<1>5. ~job'.decode
  BY <1>2, <1>3, <1>4, JobRead
<1> QED
  BY <1>1, <1>5 DEF Execute

\* The second run works with the cipher, the key and the sides of the first.
LEMMA SecondRun ==
    ASSUME IInv, RunInv, RunBack, pc' = "table"
    PROVE  /\ job'.cipher = job.cipher /\ job'.key = job.key
           /\ job'.rows = job.rows /\ job'.columns = job.columns
<1> DEFINE a == [args EXCEPT !.flags[2] = "d"]
<1>1. Execute(a, output) /\ pc = "done" /\ pc \in Working
  BY DEF RunBack, Working
<1>2. /\ ArgsGiven(args) /\ ArgsGiven(a) /\ a.values = args.values
      /\ Len(a.flags) = Len(args.flags)
      /\ \A i \in 1..Len(args.flags) : i # 2 => a.flags[i] = args.flags[i]
  BY AskedToDecode DEF IInv
<1> HIDE DEF a
<1>3. Accepted(a) /\ job' = JobOf(ValidArgs(a), Key(a))
  BY <1>1 DEF Execute, Accepted
<1>4. Accepted(args) /\ job = JobOf(ValidArgs(args), Key(args))
  BY <1>1 DEF RunInv
<1>5. a.flags[1] = args.flags[1] /\ \A i \in 3..Len(args.flags) : a.flags[i] = args.flags[i]
  <2>1. Len(args.flags) \in Nat /\ args.flags # <<>>
    <3>1. args.flags # <<>>
      BY <1>4, Zenon DEF Accepted, Crashes
    <3> QED
      BY <1>2, <3>1 DEF ArgsGiven
  <2>2. Len(args.flags) # 0
    BY <1>2, <2>1, EmptySeq DEF ArgsGiven
  <2> QED
    BY <1>2, <2>1, <2>2
<1> QED
  BY <1>2, <1>3, <1>4, <1>5, SameButDecode

LEMMA RunComes == IInv /\ ThereAndBack /\ Run => ThereAndBack'
<1> SUFFICES ASSUME IInv, ThereAndBack, Run
             PROVE  ThereAndBack'
  OBVIOUS
<1>1. PICK a \in Invocations : Execute(a, <<>>)
  BY DEF Run
<1>2. CASE ~Accepted(a)
  BY <1>1, <1>2 DEF Execute, Accepted, ThereAndBack, RunInv, EncodeInv, BackInv, DecodeInv, Working
<1>3. CASE Accepted(a)
  <2>1. /\ pc' = "table" /\ args' = a /\ job' = JobOf(ValidArgs(a), Key(a)) /\ table' = Key(a)
        /\ k' = 0 /\ output' = <<>> /\ half' = NUL
    BY <1>1, <1>3 DEF Execute, Accepted
  <2>4. ~job'.decode
    BY <2>1, FirstRun
  <2>5. RunInv'
    <3> DEFINE f == [m \in 0..0 |-> Key(a)]
    <3>1. f[0] = Key(a) /\ job'.key = Key(a)
      BY <2>1 DEF JobOf
    <3> HIDE DEF f
    <3>2. Fills(f, job', 0)
      BY <3>1 DEF Fills
    <3> QED
      BY <1>3, <2>1, <3>1, <3>2 DEF RunInv
  <2> QED
    BY <2>1, <2>4, <2>5 DEF ThereAndBack, EncodeInv, BackInv, DecodeInv
<1> QED
  BY <1>2, <1>3

LEMMA RunBackComes == IInv /\ ThereAndBack /\ RunBack => ThereAndBack'
<1> SUFFICES ASSUME IInv, ThereAndBack, RunBack
             PROVE  ThereAndBack'
  OBVIOUS
<1> DEFINE a == [args EXCEPT !.flags[2] = "d"]
<1>1. Execute(a, output) /\ pc = "done" /\ pc \in Working /\ ~job.decode /\ text' = text
  BY DEF RunBack, Working
<1> HIDE DEF a
<1>3. CASE ~Accepted(a)
  BY <1>1, <1>3 DEF Execute, Accepted, ThereAndBack, RunInv, EncodeInv, BackInv, DecodeInv, Working
<1>4. CASE Accepted(a)
  <2>1. /\ pc' = "table" /\ args' = a /\ job' = JobOf(ValidArgs(a), Key(a)) /\ table' = Key(a)
        /\ k' = 0 /\ output' = <<>> /\ half' = NUL /\ input' = output
    BY <1>1, <1>4 DEF Execute, Accepted
  <2>2. RunInv'
    <3> DEFINE f == [m \in 0..0 |-> Key(a)]
    <3>1. f[0] = Key(a) /\ job'.key = Key(a)
      BY <2>1 DEF JobOf
    <3> HIDE DEF f
    <3>2. Fills(f, job', 0)
      BY <3>1 DEF Fills
    <3> QED
      BY <1>4, <2>1, <3>1, <3>2 DEF RunInv
  <2>4. /\ job'.cipher = job.cipher /\ job'.key = job.key
        /\ job'.rows = job.rows /\ job'.columns = job.columns
    BY <2>1, SecondRun DEF ThereAndBack
  <2>5. ASSUME job'.cipher = "p", RoomForKey' PROVE BackInv'
    <3>1. RoomForKey /\ Letters' = Letters
      BY <2>4, <2>5 DEF RoomForKey, Size, Letters
    <3>2. k = Len(Letters)
      BY <1>1, <3>1 DEF IInv
    <3>3. PICK f : Fills(f, job, k) /\ table = f[k]
      BY <1>1 DEF ThereAndBack, RunInv
    <3>4. Fills(f, job', Len(Letters'))
      BY <2>4, <3>1, <3>2, <3>3 DEF Fills, Placed
    <3>5. input = <<>> /\ \E o : Coded(o, text, Len(text) - Len(input), table, job.columns, output)
      BY <1>1, <2>4, <2>5 DEF ThereAndBack, EncodeInv
    <3>6. PICK o : Coded(o, text, Len(text) - 0, table, job.columns, output)
      BY <3>5, Nothing
    <3>7. Len(text) - 0 = Len(text)
      <4>1. Len(text) \in Nat
        BY DEF IInv, TypeOK
      <4> QED
        BY <4>1
    <3>8. Coded(o, text', Len(text'), table, job'.columns, input')
      BY <1>1, <2>1, <2>4, <3>6, <3>7
    <3> QED
      BY <3>1, <3>2, <3>3, <3>4, <3>8 DEF BackInv
  <2> QED
    BY <2>1, <2>2, <2>5 DEF ThereAndBack, EncodeInv, BackInv, DecodeInv
<1> QED
  BY <1>3, <1>4

LEMMA PlaceLetterComes == IInv /\ ThereAndBack /\ PlaceLetter => ThereAndBack'
<1> SUFFICES ASSUME IInv, ThereAndBack, PlaceLetter
             PROVE  ThereAndBack'
  OBVIOUS
<1>1. /\ pc = "table" /\ pc' = "table" /\ pc \in Working /\ k' = k + 1 /\ k \in Nat
      /\ UNCHANGED <<args, job, input, output, half, text>>
  BY DEF PlaceLetter, reader, Working, IInv, TypeOK
<1>2. table' = Placed(job, table, k + 1)
  BY DEF PlaceLetter, Placed, InKey, Letters
<1>3. PICK f : Fills(f, job, k) /\ table = f[k]
  BY <1>1 DEF ThereAndBack, RunInv
<1> DEFINE g == [m \in 0..(k + 1) |-> IF m = k + 1 THEN table' ELSE f[m]]
<1>4. g[k + 1] = table' /\ \A m \in 0..k : g[m] = f[m]
  BY <1>1
<1> HIDE DEF g
<1>5. Fills(g, job, k + 1)
  <2>1. g[0] = job.key
    BY <1>1, <1>3, <1>4 DEF Fills
  <2>2. ASSUME NEW m \in 1..(k + 1) PROVE g[m] = Placed(job, g[m - 1], m)
    <3>1. CASE m = k + 1
      <4>1. m - 1 = k /\ k \in 0..k
        BY <1>1, <3>1
      <4> QED
        BY <1>2, <1>3, <1>4, <3>1, <4>1
    <3>2. CASE m # k + 1
      <4>1. m \in 1..k /\ m \in 0..k /\ m - 1 \in 0..k
        BY <1>1, <3>2
      <4> QED
        BY <1>3, <1>4, <4>1 DEF Fills
    <3> QED
      BY <3>1, <3>2
  <2> QED
    BY <2>1, <2>2 DEF Fills
<1>6. RunInv'
  BY <1>1, <1>4, <1>5 DEF ThereAndBack, RunInv
<1>7. BackInv'
  BY <1>1 DEF ThereAndBack, BackInv, RoomForKey, Size, Letters
<1> QED
  BY <1>1, <1>6, <1>7 DEF ThereAndBack, EncodeInv, DecodeInv

LEMMA TableDoneComes == IInv /\ ThereAndBack /\ TableDone => ThereAndBack'
<1> SUFFICES ASSUME IInv, ThereAndBack, TableDone
             PROVE  ThereAndBack'
  OBVIOUS
<1>1. /\ pc = "table" /\ pc' = "text" /\ pc \in Working /\ UNCHANGED <<args, job, table, k, output, half>>
      /\ output = <<>> /\ half = NUL
  BY DEF TableDone, reader, Working, ThereAndBack, RunInv
<1>2. IInv' /\ text' \in Seq(Char) /\ input \in Seq(0..127) /\ Len(text') \in Nat /\ Len(<<>>) = 0
  BY TableDoneKeeps, Nothing DEF IInv, TypeOK
<1>3. RunInv' /\ BackInv'
  BY <1>1, StillRun DEF ThereAndBack
<1>4. EncodeInv'
  <2>1. SUFFICES ASSUME ~job.decode
                 PROVE  /\ IsRest(input', text')
                        /\ \E o : Coded(o, text', Len(text') - Len(input'), table, job.columns, <<>>)
    BY <1>1 DEF EncodeInv
  <2>2. input' = text'
    BY <2>1 DEF TableDone
  <2>3. IsRest(text', text') /\ Len(text') - Len(text') = 0
    BY <1>2 DEF IsRest
  <2> DEFINE o == [m \in 0..0 |-> 0]
  <2>4. o \in [0..0 -> Nat] /\ o[0] = 0
    OBVIOUS
  <2> HIDE DEF o
  <2>5. Coded(o, text', 0, table, job.columns, <<>>)
    BY <1>2, <2>4 DEF Coded
  <2> QED
    BY <2>2, <2>3, <2>5
<1>5. DecodeInv'
  <2>1. SUFFICES ASSUME job.decode, job.cipher = "p", RoomForKey
                 PROVE  \E code, o, m : Reads(code, o, m)'
    BY <1>1 DEF DecodeInv, RoomForKey, Size, Letters
  <2>2. text' = text /\ input' = input
    BY <2>1 DEF TableDone
  <2>3. PICK t, f, o : /\ Coded(o, text, Len(text), t, job.columns, input)
                       /\ Fills(f, job, Len(Letters)) /\ t = f[Len(Letters)]
    BY <1>1, <2>1 DEF ThereAndBack, BackInv
  <2>4. PICK g : Fills(g, job, k) /\ table = g[k]
    BY <1>1 DEF ThereAndBack, RunInv
  <2>5. k = Len(Letters) /\ k \in Nat
    <3>1. pc' \in Working /\ pc' # "table" /\ RoomForKey'
      BY <1>1, <2>1 DEF Working, RoomForKey, Size, Letters
    <3>2. k' = Len(Letters)' /\ k' \in Nat
      BY <1>2, <3>1 DEF IInv, TypeOK
    <3> QED
      BY <1>1, <3>2 DEF Letters
  <2>6. t = table
    BY <2>3, <2>4, <2>5, FillsAlike
  <2>7. IsRest(input, input) /\ Len(input) - Len(input) = 0
    BY <1>2 DEF IsRest
  <2>8. o[0] = 0
    BY <2>3 DEF Coded
  <2>9. Reads(input, o, 0)'
    BY <1>1, <1>2, <2>2, <2>3, <2>6, <2>7, <2>8 DEF Reads
  <2> QED
    BY <2>9
<1> QED
  BY <1>3, <1>4, <1>5 DEF ThereAndBack

\* What is left after the first element of a rest.
LEMMA RestOfRest ==
    ASSUME NEW S, NEW s \in Seq(S), NEW T, NEW t \in Seq(T), IsRest(s, t), s # <<>>
    PROVE  /\ IsRest(Tail(s), t) /\ Len(Tail(s)) = Len(s) - 1 /\ Len(s) \in Nat \ {0}
           /\ Len(t) \in Nat /\ Len(s) <= Len(t)
           /\ Head(s) = t[Len(t) - Len(s) + 1]
<1>1. Len(s) \in Nat \ {0} /\ Len(t) \in Nat /\ Head(s) = s[1]
  BY EmptySeq
<1>2. Len(Tail(s)) = Len(s) - 1 /\ \A i \in 1..(Len(s) - 1) : Tail(s)[i] = s[i + 1]
  BY HeadTailProperties
<1>3. ASSUME NEW i \in 1..(Len(s) - 1)
      PROVE  i + 1 \in 1..Len(s) /\ Len(t) - Len(s) + (i + 1) = Len(t) - (Len(s) - 1) + i
  BY <1>1
<1>4. \A i \in 1..(Len(s) - 1) : Tail(s)[i] = t[Len(t) - (Len(s) - 1) + i]
  BY <1>2, <1>3 DEF IsRest
<1>5. 1 \in 1..Len(s) /\ Len(s) - 1 <= Len(t) /\ Len(s) <= Len(t)
  BY <1>1 DEF IsRest
<1> QED
  BY <1>1, <1>2, <1>4, <1>5 DEF IsRest

\* A character more.
LEMMA CodedGrows ==
    ASSUME NEW o, NEW s, NEW m \in Nat, NEW t, NEW n, NEW S, NEW code \in Seq(S),
           Coded(o, s, m, t, n, code),
           NEW more \in Seq(S), Len(code) < Len(more),
           \A i \in 1..Len(code) : more[i] = code[i],
           CharCoded(s[m + 1], Len(code), Len(more), t, n, more)
    PROVE  \E g : Coded(g, s, m + 1, t, n, more)
<1> DEFINE g == [i \in 0..(m + 1) |-> IF i = m + 1 THEN Len(more) ELSE o[i]]
<1>1. /\ o \in [0..m -> Nat] /\ o[0] = 0 /\ o[m] = Len(code)
      /\ \A i, j \in 0..m : i < j => o[i] < o[j]
      /\ \A i \in 1..m : CharCoded(s[i], o[i - 1], o[i], t, n, code)
  BY DEF Coded
<1>2. Len(code) \in Nat /\ Len(more) \in Nat
  OBVIOUS
<1>3. /\ g \in [0..(m + 1) -> Nat] /\ g[m + 1] = Len(more)
      /\ \A i \in 0..m : g[i] = o[i] /\ i \in 0..(m + 1) /\ o[i] \in Nat
  BY <1>1, <1>2
<1> HIDE DEF g
<1>4. \A i \in 0..m : o[i] <= Len(code)
  <2> SUFFICES ASSUME NEW i \in 0..m PROVE o[i] <= Len(code)
    OBVIOUS
  <2>1. CASE i = m
    BY <1>1, <1>2, <2>1
  <2>2. CASE i # m
    <3>1. i < m /\ m \in 0..m
      BY <2>2
    <3>2. o[i] < o[m] /\ o[i] \in Nat
      BY <1>1, <1>3, <3>1
    <3> QED
      BY <1>1, <1>2, <3>2
  <2> QED
    BY <2>1, <2>2
<1>5. ASSUME NEW i \in 0..(m + 1), NEW j \in 0..(m + 1), i < j PROVE g[i] < g[j]
  <2>1. i \in 0..m
    BY <1>5
  <2>2. CASE j = m + 1
    <3>1. g[i] \in Nat /\ g[i] <= Len(code)
      BY <1>3, <1>4, <2>1
    <3> QED
      BY <1>2, <1>3, <2>2, <3>1
  <2>3. CASE j # m + 1
    <3>1. j \in 0..m
      BY <2>3
    <3> QED
      BY <1>1, <1>3, <1>5, <2>1, <3>1
  <2> QED
    BY <2>2, <2>3
<1>6. ASSUME NEW i \in 1..(m + 1) PROVE CharCoded(s[i], g[i - 1], g[i], t, n, more)
  <2>1. CASE i = m + 1
    <3>1. i - 1 = m /\ m \in 0..m
      BY <2>1
    <3> QED
      BY <1>1, <1>3, <2>1, <3>1
  <2>2. CASE i # m + 1
    <3>1. i \in 1..m /\ i \in 0..m /\ i - 1 \in 0..m /\ i - 1 < i
      BY <2>2
    <3>2. /\ g[i] = o[i] /\ g[i - 1] = o[i - 1] /\ o[i] \in Nat /\ o[i - 1] \in Nat
          /\ o[i - 1] < o[i] /\ o[i] <= Len(code)
      BY <1>1, <1>3, <1>4, <3>1
    <3>3. o[i] \in 1..Len(code) /\ o[i - 1] + 1 \in 1..Len(code)
      BY <1>2, <3>2
    <3>4. more[o[i]] = code[o[i]] /\ more[o[i - 1] + 1] = code[o[i - 1] + 1]
      BY <3>3
    <3>5. CharCoded(s[i], o[i - 1], o[i], t, n, code)
      BY <1>1, <3>1
    <3>6. CharCoded(s[i], o[i - 1], o[i], t, n, more)
      BY <3>4, <3>5 DEF CharCoded
    <3> QED
      BY <3>2, <3>6
  <2> QED
    BY <2>1, <2>2
<1>7. g[0] = 0
  BY <1>1, <1>3
<1>8. Coded(g, s, m + 1, t, n, more)
  BY <1>3, <1>5, <1>6, <1>7 DEF Coded
<1> QED
  BY <1>8

\* findRow and findCol write the coordinates of the first cell.
LEMMA PositionFirst ==
    ASSUME NEW c, table \in Seq(Char), Contains(table, c)
    PROVE  /\ FirstAt(table, c, Position(c))
           /\ FindRow(Position(c)) = RowSign(Position(c), job.columns)
           /\ FindCol(Position(c)) = ColSign(Position(c), job.columns)
BY PositionFound DEF FirstAt, FindRow, FindCol, RowSign, ColSign

LEMMA EncodeComes == IInv /\ ThereAndBack /\ EncodePolybius => ThereAndBack'
<1> SUFFICES ASSUME IInv, ThereAndBack, EncodePolybius
             PROVE  ThereAndBack'
  OBVIOUS
<1> DEFINE c == Head(input)
           m == Len(text) - Len(input)
<1>1. /\ pc = "text" /\ pc \in Working /\ ~job.decode /\ job.cipher = "p" /\ pc' \in {"text", "astray"}
      /\ UNCHANGED <<args, job, table, k, text>> /\ input' = Tail(input) /\ input # <<>>
  BY DEF EncodePolybius, Reading, Working, Astray, reader
<1>2. /\ text \in Seq(Char) /\ input \in Seq(0..127) /\ output \in Seq(0..127) /\ table \in Seq(Char)
      /\ output' \in Seq(0..127) /\ c \in 0..127
  BY EncodePolybiusKeeps, <1>1, HeadTailProperties DEF IInv, TypeOK
<1>3. RunInv' /\ BackInv' /\ DecodeInv'
  BY <1>1, StillRun DEF ThereAndBack, DecodeInv
<1>4. CASE pc' = "astray"
  BY <1>3, <1>4 DEF ThereAndBack, EncodeInv
<1>5. CASE pc' = "text"
  <2>1. IsRest(input, text)
    BY <1>1 DEF ThereAndBack, EncodeInv
  <2>2. PICK o : Coded(o, text, m, table, job.columns, output)
    BY <1>1 DEF ThereAndBack, EncodeInv
  <2>3. /\ IsRest(input', text) /\ Len(input') = Len(input) - 1 /\ Len(input) \in Nat \ {0}
        /\ Len(text) \in Nat /\ Len(input) <= Len(text) /\ c = text[m + 1]
    BY <1>1, <1>2, <2>1, RestOfRest
  <2>4. m \in Nat /\ Len(text) - Len(input') = m + 1 /\ Len(output) \in Nat
    BY <1>2, <2>3
  <2> HIDE DEF c, m
  <2>5. /\ Len(output) < Len(output') /\ \A i \in 1..Len(output) : output'[i] = output[i]
        /\ CharCoded(c, Len(output), Len(output'), table, job.columns, output')
    <3>1. CASE c \in Blanks
      <4>1. output' = Append(output, c)
        BY <3>1 DEF EncodePolybius, c
      <4>2. /\ Len(output') = Len(output) + 1 /\ output'[Len(output) + 1] = c
            /\ \A i \in 1..Len(output) : output'[i] = output[i]
        BY <1>2, <4>1, AppendProperties
      <4> QED
        BY <2>4, <3>1, <4>2 DEF CharCoded
    <3>2. CASE c \notin Blanks
      <4> DEFINE row == FindRow(Position(c))
                 col == FindCol(Position(c))
      <4>1. Contains(table, c) /\ output' = output \o <<row, col>>
        BY <1>5, <3>2 DEF EncodePolybius, Astray, c
      <4>2. /\ FirstAt(table, c, Position(c))
            /\ row = RowSign(Position(c), job.columns)
            /\ col = ColSign(Position(c), job.columns)
        BY <1>2, <4>1, PositionFirst
      <4> HIDE DEF row, col
      <4>3. /\ Len(output') = Len(output) + 2
            /\ output'[Len(output) + 1] = row /\ output'[Len(output) + 2] = col
            /\ \A i \in 1..Len(output) : output'[i] = output[i]
        BY <1>2, <4>1
      <4> QED
        BY <2>4, <3>2, <4>2, <4>3 DEF CharCoded
    <3> QED
      BY <3>1, <3>2
  <2>6. \E g : Coded(g, text, m + 1, table, job.columns, output')
    BY <1>2, <2>2, <2>3, <2>4, <2>5, CodedGrows
  <2> QED
    BY <1>1, <1>3, <1>5, <2>3, <2>4, <2>6 DEF ThereAndBack, EncodeInv
<1> QED
  BY <1>1, <1>4, <1>5

\* No sign is taken for a blank, or for the half that is not there.
LEMMA SignsShow ==
    ASSUME NEW i \in Nat, job \in Jobs
    PROVE  /\ RowSign(i, job.columns) \notin Blanks /\ RowSign(i, job.columns) # NUL
           /\ ColSign(i, job.columns) \notin Blanks /\ ColSign(i, job.columns) # NUL
<1> DEFINE n == job.columns
<1>1. n \in Nat /\ 9 <= n /\ n <= 15
  BY DEF Jobs, MinSide, MaxSide
<1> HIDE DEF n
<1>2. i % n \in Nat
  BY <1>1
<1>3. i \div n \in Nat
  BY <1>1, SMTT(30)
<1>4. RowSign(i, n) >= 48 /\ ColSign(i, n) >= 48
  BY <1>2, <1>3 DEF RowSign, ColSign
<1>5. RowSign(i, n) \in Int /\ ColSign(i, n) \in Int
  BY <1>2, <1>3 DEF RowSign, ColSign
<1>6. \A s \in Int : s >= 48 => s \notin Blanks /\ s # NUL
  BY DEF Blanks, Newline, Space, NUL
<1> QED
  BY <1>4, <1>5, <1>6 DEF n

\* The signs of a character lead back to it.
LEMMA SignsComeBack ==
    ASSUME job \in Jobs, table \in Seq(Char), NEW c, NEW i, FirstAt(table, c, i),
           Position(c) % job.columns <= 9
    PROVE  CoordToSym(RowSign(i, job.columns), ColSign(i, job.columns)) = c
<1>1. i \in 0..(Len(table) - 1) /\ table[i + 1] = c /\ \A j \in 0..(i - 1) : table[j + 1] # c
  BY DEF FirstAt
<1>2. Contains(table, c)
  <2>1. i + 1 \in 1..Len(table)
    BY <1>1
  <2> QED
    BY <1>1, <2>1 DEF Contains
<1>3. /\ Position(c) \in 0..(Len(table) - 1) /\ table[Position(c) + 1] = c
      /\ \A j \in 0..(Position(c) - 1) : table[j + 1] # c
  BY <1>2, PositionFound
<1>4. Position(c) = i
  <2> DEFINE p == Position(c)
  <2> HIDE DEF p
  <2>1. p \in 0..(Len(table) - 1) /\ table[p + 1] = c /\ \A j \in 0..(p - 1) : table[j + 1] # c
    BY <1>3 DEF p
  <2>2. ~(p < i)
    <3> SUFFICES ASSUME p < i PROVE FALSE
      OBVIOUS
    <3>1. p \in 0..(i - 1)
      BY <1>1, <2>1
    <3> QED
      BY <1>1, <2>1, <3>1
  <2>3. ~(i < p)
    <3> SUFFICES ASSUME i < p PROVE FALSE
      OBVIOUS
    <3>1. i \in 0..(p - 1)
      BY <1>1, <2>1
    <3> QED
      BY <1>1, <2>1, <3>1
  <2> QED
    BY <1>1, <2>1, <2>2, <2>3 DEF p
<1>5. FindRow(i) = RowSign(i, job.columns) /\ FindCol(i) = ColSign(i, job.columns)
  BY DEF FindRow, FindCol, RowSign, ColSign
<1>6. i \in Nat /\ i < Len(table)
  BY <1>1
<1> QED
  BY <1>1, <1>4, <1>5, <1>6, CoordinatesComeBack

\* A character more has come back.
LEMMA OneMoreBack ==
    ASSUME NEW m \in Nat, output \in Seq(0..127), Len(output) = m,
           \A i \in 1..m : CameBack(i), UNCHANGED <<job, table, text>>,
           NEW x \in 0..127, output' = Append(output, x),
           text[m + 1] \in Blanks \/ Position(text[m + 1]) % job.columns <= 9 => x = text[m + 1]
    PROVE  Len(output') = m + 1 /\ \A i \in 1..(m + 1) : CameBack(i)'
<1>1. /\ Len(output') = m + 1 /\ output'[m + 1] = x /\ \A i \in 1..m : output'[i] = output[i]
  BY AppendProperties
<1>2. \A c : Position(c)' = Position(c)
  BY DEF Position
<1> SUFFICES ASSUME NEW i \in 1..(m + 1) PROVE CameBack(i)'
  BY <1>1
<1>3. CASE i = m + 1
  BY <1>1, <1>2, <1>3 DEF CameBack
<1>4. CASE i # m + 1
  <2>1. i \in 1..m
    BY <1>4
  <2>2. CameBack(i)
    BY <2>1
  <2> QED
    BY <1>1, <1>2, <2>1, <2>2 DEF CameBack
<1> QED
  BY <1>3, <1>4

LEMMA DecodeComes == IInv /\ ThereAndBack /\ DecodePolybius => ThereAndBack'
<1> SUFFICES ASSUME IInv, ThereAndBack, DecodePolybius
             PROVE  ThereAndBack'
  OBVIOUS
<1> DEFINE c == Head(input)
<1>1. /\ pc = "text" /\ pc \in Working /\ job.decode /\ job.cipher = "p" /\ pc' = "text"
      /\ UNCHANGED <<args, job, table, k, text>> /\ input' = Tail(input) /\ input # <<>>
  BY DEF DecodePolybius, Reading, Working
<1>2. /\ text \in Seq(Char) /\ input \in Seq(0..127) /\ output \in Seq(0..127) /\ table \in Seq(Char)
      /\ job \in Jobs /\ output' \in Seq(0..127) /\ c \in 0..127 /\ half \in 0..127
      /\ Len(text) \in Nat
  BY DecodePolybiusKeeps, <1>1, HeadTailProperties DEF IInv, TypeOK
<1>3. RunInv' /\ BackInv' /\ EncodeInv'
  BY <1>1, StillRun DEF ThereAndBack, EncodeInv
<1>4. /\ c \in Blanks => half' = NUL /\ output' = Append(output, c)
      /\ c \notin Blanks /\ half = NUL => half' = c /\ output' = output
      /\ c \notin Blanks /\ half # NUL => half' = NUL /\ output' = Append(output, CoordToSym(half, c))
  BY DEF DecodePolybius
<1>5. CoordToSym(half, c) \in 0..127
  BY <1>2 DEF CoordToSym, Char, NUL
<1>6. ASSUME RoomForKey, NEW code, NEW o, NEW m, Reads(code, o, m)
      PROVE  Reads(code, o, m)' \/ Reads(code, o, m + 1)'
  <2> DEFINE p == Len(code) - Len(input)
             n == job.columns
  <2>1. /\ code \in Seq(0..127) /\ Coded(o, text, Len(text), table, n, code)
        /\ m \in 0..Len(text) /\ Len(output) = m /\ \A i \in 1..m : CameBack(i)
        /\ IsRest(input, code)
        /\ \/ half = NUL /\ p = o[m]
           \/ /\ half # NUL /\ m < Len(text) /\ text[m + 1] \notin Blanks
              /\ p = o[m] + 1 /\ half = code[o[m] + 1]
    BY <1>6 DEF Reads
  <2>2. /\ o \in [0..Len(text) -> Nat] /\ o[0] = 0 /\ o[Len(text)] = Len(code)
        /\ \A i \in 1..Len(text) : CharCoded(text[i], o[i - 1], o[i], table, n, code)
    BY <2>1 DEF Coded
  <2>3. /\ IsRest(input', code) /\ Len(input') = Len(input) - 1 /\ Len(input) \in Nat \ {0}
        /\ Len(code) \in Nat /\ Len(input) <= Len(code) /\ c = code[p + 1]
    BY <1>1, <1>2, <2>1, RestOfRest
  <2> HIDE DEF c
  <2>4. p < Len(code) /\ p \in Nat /\ Len(code) - Len(input') = p + 1
    BY <2>3
  <2> HIDE DEF p
  <2>5. m \in Nat /\ m < Len(text) /\ m + 1 \in 1..Len(text) /\ m + 1 \in 0..Len(text)
        /\ (m + 1) - 1 = m /\ o[m] \in Nat /\ o[m + 1] \in Nat
    <3>1. m # Len(text)
      <4> SUFFICES ASSUME m = Len(text) PROVE FALSE
        OBVIOUS
      <4>1. p = Len(code)
        BY <2>1, <2>2, <1>2
      <4> QED
        BY <2>4, <4>1
    <3>2. m \in Nat /\ m < Len(text) /\ m + 1 \in 1..Len(text) /\ m + 1 \in 0..Len(text)
          /\ (m + 1) - 1 = m
      BY <1>2, <2>1, <3>1
    <3> QED
      BY <2>1, <2>2, <3>2
  <2>6. CharCoded(text[m + 1], o[m], o[m + 1], table, n, code)
    BY <2>2, <2>5
  <2>7. Coded(o, text, Len(text), table, n, code)'
    BY <1>1, <2>1 DEF Coded
  <2>8. CASE text[m + 1] \in Blanks
    <3>1. half = NUL /\ p = o[m]
      BY <2>1, <2>8
    <3>2. o[m + 1] = p + 1 /\ c = text[m + 1]
      BY <2>3, <2>6, <2>8, <3>1 DEF CharCoded
    <3>3. half' = NUL /\ output' = Append(output, c)
      BY <1>4, <2>8, <3>2
    <3>4. Len(output') = m + 1 /\ \A i \in 1..(m + 1) : CameBack(i)'
      BY <1>1, <1>2, <2>1, <2>5, <3>2, <3>3, OneMoreBack
    <3>5. Reads(code, o, m + 1)'
      BY <1>1, <2>1, <2>3, <2>4, <2>5, <2>7, <3>2, <3>3, <3>4 DEF Reads
    <3> QED
      BY <3>5
  <2>9. CASE text[m + 1] \notin Blanks
    <3>1. PICK i : /\ FirstAt(table, text[m + 1], i)
                   /\ code[o[m] + 1] = RowSign(i, n) /\ code[o[m + 1]] = ColSign(i, n)
      BY <2>6, <2>9 DEF CharCoded
    <3>2. o[m + 1] = o[m] + 2
      BY <2>6, <2>9 DEF CharCoded
    <3>3. i \in Nat
      BY <3>1 DEF FirstAt
    <3>4. /\ RowSign(i, n) \notin Blanks /\ RowSign(i, n) # NUL
          /\ ColSign(i, n) \notin Blanks /\ ColSign(i, n) # NUL
      BY <1>2, <3>3, SignsShow
    <3>5. CASE half = NUL
      <4>1. p = o[m]
        BY <2>1, <3>5
      <4>2. c = RowSign(i, n) /\ c = code[o[m] + 1]
        BY <2>3, <3>1, <4>1
      <4>3. half' = c /\ output' = output /\ half' # NUL
        BY <1>4, <3>4, <3>5, <4>2
      <4>4. \A j \in 1..m : CameBack(j)'
        BY <1>1, <2>1, <4>3 DEF CameBack, Position
      <4>5. Reads(code, o, m)'
        BY <1>1, <2>1, <2>3, <2>4, <2>5, <2>7, <2>9, <4>1, <4>2, <4>3, <4>4 DEF Reads
      <4> QED
        BY <4>5
    <3>6. CASE half # NUL
      <4>1. p = o[m] + 1 /\ half = RowSign(i, n)
        BY <2>1, <3>1, <3>6
      <4>2. p + 1 = o[m + 1]
        BY <2>5, <3>2, <4>1
      <4>3. c = ColSign(i, n)
        BY <2>3, <3>1, <4>2
      <4>4. half' = NUL /\ output' = Append(output, CoordToSym(half, c))
        BY <1>4, <3>4, <3>6, <4>3
      <4>5. Position(text[m + 1]) % n <= 9 => CoordToSym(half, c) = text[m + 1]
        BY <1>2, <3>1, <4>1, <4>3, SignsComeBack
      <4>6. Len(output') = m + 1 /\ \A j \in 1..(m + 1) : CameBack(j)'
        BY <1>1, <1>2, <1>5, <2>1, <2>5, <2>9, <4>4, <4>5, OneMoreBack
      <4>7. Reads(code, o, m + 1)'
        BY <1>1, <2>1, <2>3, <2>4, <2>5, <2>7, <4>2, <4>4, <4>6 DEF Reads
      <4> QED
        BY <4>7
    <3> QED
      BY <3>5, <3>6
  <2> QED
    BY <2>8, <2>9
<1>7. DecodeInv'
  <2>1. RoomForKey' <=> RoomForKey
    BY <1>1 DEF RoomForKey, Size, Letters
  <2>2. ASSUME RoomForKey PROVE \E code, o, m : Reads(code, o, m)'
    <3>1. PICK code, o, m : Reads(code, o, m)
      BY <1>1, <2>2 DEF ThereAndBack, DecodeInv
    <3> QED
      BY <1>6, <2>2, <3>1
  <2> QED
    BY <1>1, <2>1, <2>2 DEF DecodeInv
<1> QED
  BY <1>3, <1>7 DEF ThereAndBack

LEMMA EndOfInputComes == IInv /\ ThereAndBack /\ EndOfInput => ThereAndBack'
<1> SUFFICES ASSUME IInv, ThereAndBack, EndOfInput
             PROVE  ThereAndBack'
  OBVIOUS
<1>1. /\ pc = "text" /\ pc \in Working /\ pc' = "done" /\ input = <<>>
      /\ UNCHANGED <<args, job, table, k, input, output, half, text>>
  BY DEF EndOfInput, reader, Working
<1>2. RunInv' /\ BackInv'
  BY <1>1, StillRun DEF ThereAndBack
<1>3. EncodeInv'
  BY <1>1 DEF ThereAndBack, EncodeInv, IsRest
<1>4. RoomForKey' <=> RoomForKey
  BY <1>1 DEF RoomForKey, Size, Letters
<1>5. ASSUME NEW code, NEW o, NEW m, Reads(code, o, m) PROVE Reads(code, o, m)'
  BY <1>1, <1>5, ZenonT(60) DEF Reads, CameBack, Position, Coded, IsRest
<1>6. DecodeInv'
  BY <1>1, <1>4, <1>5 DEF ThereAndBack, DecodeInv
<1> QED
  BY <1>2, <1>3, <1>6 DEF ThereAndBack

LEMMA NothingComes == ThereAndBack /\ UNCHANGED vars => ThereAndBack'
<1> SUFFICES ASSUME ThereAndBack, UNCHANGED vars
             PROVE  ThereAndBack'
  OBVIOUS
<1>1. UNCHANGED <<pc, args, job, table, k, input, output, half, text>>
  BY DEF vars, reader
<1>2. RoomForKey' <=> RoomForKey
  BY <1>1 DEF RoomForKey, Size, Letters
<1>3. RunInv' /\ EncodeInv'
  BY <1>1 DEF ThereAndBack, RunInv, EncodeInv, IsRest
<1>4. BackInv'
  BY <1>1, <1>2 DEF ThereAndBack, BackInv, Letters
<1>5. ASSUME NEW code, NEW o, NEW m, Reads(code, o, m) PROVE Reads(code, o, m)'
  BY <1>1, <1>5, ZenonT(60) DEF Reads, CameBack, Position, Coded, IsRest
<1>6. DecodeInv'
  BY <1>1, <1>2, <1>5 DEF ThereAndBack, DecodeInv
<1> QED
  BY <1>3, <1>4, <1>6 DEF ThereAndBack

LEMMA StepComes == IInv /\ ThereAndBack /\ [Next]_vars => ThereAndBack'
<1> SUFFICES ASSUME IInv, ThereAndBack, [Next]_vars
             PROVE  ThereAndBack'
  OBVIOUS
<1>1. CASE EncodeFm \/ DecodeFm
  BY <1>1, OtherCipher DEF EncodeFm, DecodeFm, Reading, Working
<1>2. CASE EncodeSymbol \/ DecodeSymbol
  BY <1>2, OtherCipher DEF EncodeSymbol, DecodeSymbol, NextSymbol, Working
<1> QED
  BY <1>1, <1>2, RunComes, RunBackComes, PlaceLetterComes, TableDoneComes, EncodeComes,
     DecodeComes, EndOfInputComes, NothingComes DEF Next

\* When the code has been read to its end, all of the text has come back.
LEMMA AllCameBack ==
    ASSUME IInv, DecodeInv, Decoded("p"), RoomForKey
    PROVE  Len(output) = Len(text) /\ \A i \in DOMAIN text : CameBack(i)
<1>1. input = <<>> /\ \E code, o, m : Reads(code, o, m)
  BY DEF DecodeInv, Decoded
<1>2. PICK code, o, m : Reads(code, o, m)
  BY <1>1
<1>3. /\ o[m] \in Nat /\ o[Len(text)] = Len(code) /\ Len(code) \in Nat /\ Len(text) \in Nat
      /\ m \in 0..Len(text) /\ Len(output) = m /\ \A i \in 1..m : CameBack(i)
      /\ \A i, j \in 0..Len(text) : i < j => o[i] < o[j]
      /\ o \in [0..Len(text) -> Nat]
      /\ \A i \in 1..Len(text) : CharCoded(text[i], o[i - 1], o[i], table, job.columns, code)
  <2>1. code \in Seq(0..127) /\ Coded(o, text, Len(text), table, job.columns, code) /\ m \in 0..Len(text)
    BY <1>2 DEF Reads
  <2>2. Len(text) \in Nat /\ Len(code) \in Nat
    BY <2>1 DEF IInv, TypeOK
  <2> QED
    BY <1>2, <2>1, <2>2 DEF Reads, Coded
<1>4. \/ Len(code) = o[m]
      \/ m < Len(text) /\ text[m + 1] \notin Blanks /\ Len(code) = o[m] + 1
  <2>1. Len(code) - Len(input) = Len(code)
    <3>1. Len(input) = 0
      BY <1>1, Nothing
    <3> QED
      BY <1>3, <3>1
  <2> QED
    BY <1>2, <2>1 DEF Reads
<1>5. m = Len(text)
  <2> SUFFICES ASSUME m # Len(text) PROVE FALSE
    OBVIOUS
  <2>1. /\ m < Len(text) /\ m + 1 \in 1..Len(text) /\ m + 1 \in 0..Len(text) /\ (m + 1) - 1 = m
        /\ Len(text) \in 0..Len(text)
    BY <1>3
  <2>2. o[m + 1] \in Nat /\ o[m + 1] <= Len(code) /\ o[m] < o[m + 1]
    <3>1. o[m + 1] \in Nat /\ o[m] < o[m + 1]
      <4>1. m < m + 1
        BY <2>1
      <4> QED
        BY <1>3, <2>1, <4>1
    <3>2. CASE m + 1 = Len(text)
      BY <1>3, <3>1, <3>2
    <3>3. CASE m + 1 # Len(text)
      <4>1. m + 1 < Len(text)
        BY <1>3, <2>1, <3>3
      <4>2. o[m + 1] < o[Len(text)]
        BY <1>3, <2>1, <4>1
      <4> QED
        BY <1>3, <3>1, <4>2
    <3> QED
      BY <3>1, <3>2, <3>3
  <2>3. text[m + 1] \notin Blanks /\ Len(code) = o[m] + 1
    BY <1>3, <1>4, <2>2
  <2>4. o[m + 1] = o[m] + 2
    <3>1. CharCoded(text[m + 1], o[m], o[m + 1], table, job.columns, code)
      BY <1>3, <2>1
    <3> QED
      BY <2>3, <3>1 DEF CharCoded
  <2> QED
    BY <1>3, <2>2, <2>3, <2>4
<1> QED
  BY <1>3, <1>5 DEF IInv, TypeOK

\* What is encoded with a key that the table has room for comes back from the
\* second run, however long the text is: -d fills the same table as -e has, no
\* sign of the code is taken for a blank, and each pair of signs leads back to
\* its character, but for those in the columns above 9.
THEOREM PolybiusComesBack == Spec => []PolybiusRoundTrip
<1>1. Init => ThereAndBack
  BY DEF Init, ThereAndBack, RunInv, EncodeInv, BackInv, DecodeInv, Working
<1>2. IInv /\ ThereAndBack /\ SearchEnds => PolybiusRoundTrip
  <2> SUFFICES ASSUME IInv, ThereAndBack, SearchEnds,
                      KeyDistinct, RoomForKey, job.cipher = "p", OfAlphabet(text)
               PROVE  /\ pc # "astray"
                      /\ Decoded("p") =>
                            /\ Len(output) = Len(text)
                            /\ \A i \in DOMAIN text :
                                  text[i] \in Blanks \/ Position(text[i]) % job.columns <= 9
                                      => output[i] = text[i]
    BY DEF PolybiusRoundTrip
  <2>1. pc # "astray"
    BY DEF SearchEnds
  <2>2. Decoded("p") => Len(output) = Len(text) /\ \A i \in DOMAIN text : CameBack(i)
    BY AllCameBack DEF ThereAndBack
  <2> QED
    BY <2>1, <2>2 DEF CameBack
<1> QED
  BY <1>1, <1>2, StepComes, Inductive, SearchStays, PTL DEF Spec

-----------------------------------------------------------------------------
(* Morse code, there and back: the line and its symbols *)

\* A line of which something can be encoded.
InLine(c) == c = Space \/ InMorse(c)

LEMMA SpacesAndLetters ==
    ASSUME NEW c, InLine(c)
    PROVE  /\ c \in Char /\ c # Newline
           /\ MorseCode(c) \in Seq(0..2) /\ Len(MorseCode(c)) \in Nat \ {0}
           /\ MorseCode(c)[Len(MorseCode(c))] = X
           /\ c = Space => Len(MorseCode(c)) = 1
           /\ c # Space => /\ c \in DOMAIN MorseTable /\ MorseTable[c] \in Seq({0, 1})
                           /\ Len(MorseTable[c]) \in Nat \ {0}
                           /\ Len(MorseCode(c)) = Len(MorseTable[c]) + 1
                           /\ \A q \in 1..Len(MorseTable[c]) :
                                 MorseCode(c)[q] = MorseTable[c][q] /\ MorseCode(c)[q] # X
<1>1. CASE c = Space
  BY <1>1 DEF MorseCode, Space, Newline, Char, X
<1>2. CASE c # Space
  <2> DEFINE m == MorseTable[c]
  <2>1. c \in DOMAIN MorseTable /\ m # <<>> /\ m \in Seq({0, 1}) /\ c \in Char /\ c # Newline
    BY <1>2, CiphersAssumption DEF InLine, InMorse
  <2>2. MorseCode(c) = Append(m, X)
    BY <1>2 DEF MorseCode
  <2> HIDE DEF m
  <2>3. Len(m) \in Nat \ {0} /\ \A q \in 1..Len(m) : m[q] \in {0, 1}
    BY <2>1, EmptySeq
  <2>4. m \in Seq(0..2) /\ X \in 0..2
    BY <2>1 DEF X
  <2>5. /\ Append(m, X) \in Seq(0..2) /\ Len(Append(m, X)) = Len(m) + 1
        /\ \A q \in 1..Len(m) : Append(m, X)[q] = m[q]
        /\ Append(m, X)[Len(m) + 1] = X
    BY <2>4, AppendProperties
  <2>6. \A q \in 1..Len(m) : m[q] # X
    BY <2>3 DEF X
  <2> QED
    BY <1>2, <2>1, <2>2, <2>3, <2>5, <2>6 DEF m
<1> QED
  BY <1>1, <1>2

\* How the offsets of a line are counted.
LEMMA EndsCount ==
    ASSUME NEW l \in Seq(Char), \A i \in 1..Len(l) : InLine(l[i])
    PROVE  /\ Ends(l) \in [0..Len(l) -> Nat] /\ Ends(l)[0] = 0
           /\ \A n \in 1..Len(l) : Ends(l)[n] = Ends(l)[n - 1] + Len(MorseCode(l[n]))
<1> DEFINE N == Len(l)
           S == Nat
           go == [n \in 1..N |-> [x \in S |-> x + Len(MorseCode(l[n]))]]
<1>1. N \in Nat /\ \A n \in 1..N : Len(MorseCode(l[n])) \in Nat
  BY SpacesAndLetters
<1> HIDE DEF N
<1>t. \A n \in 1..N : \A x \in S : x + Len(MorseCode(l[n])) \in S
  BY <1>1
<1>2. go \in [1..N -> [S -> S]]
  BY <1>t, Zenon
<1>3. \A n \in 1..N : \A x \in S : go[n][x] = x + Len(MorseCode(l[n]))
  BY Zenon
<1> HIDE DEF go
<1>4. PICK f \in [0..N -> S] : f[0] = 0 /\ \A n \in 1..N : f[n] = go[n][f[n - 1]]
  <2> DEFINE c == 0
  <2>1. c \in S /\ N \in Nat
    BY <1>1
  <2>2. go \in [1..N -> [S -> S]]
    BY <1>2, Zenon
  <2> HIDE DEF S, c
  <2>3. \E f \in [0..N -> S] : f[0] = c /\ \A n \in 1..N : f[n] = go[n][f[n - 1]]
    BY <2>1, <2>2, FunctionBySteps, SMTT(60)
  <2> QED
    BY <2>3, Zenon DEF c
<1> HIDE DEF S
<1> DEFINE F(g) == [n \in 0..N |-> IF n = 0 THEN 0 ELSE g[n - 1] + Len(MorseCode(l[n]))]
<1>z. 0 \in 0..N /\ \A n \in 1..N : n \in 0..N /\ n # 0 /\ n - 1 \in 0..N
  BY <1>1, SMTT(20)
<1>n. \A n \in 0..N : n # 0 => n \in 1..N /\ n - 1 \in 0..N
  BY <1>1, SMTT(20)
<1>5. f = F(f)
  <2>1. \A n \in 0..N : f[n] = IF n = 0 THEN 0 ELSE f[n - 1] + Len(MorseCode(l[n]))
    BY <1>3, <1>4, <1>n, Zenon
  <2> QED
    BY <1>4, <2>1, Zenon
<1> DEFINE h == CHOOSE g : g = F(g)
<1>7. h = F(h)
  <2> HIDE DEF F
  <2> QED
    BY <1>5, Zenon
<1>6. Ends(l) = h
  BY Zenon DEF Ends, N
<1> HIDE DEF h
<1>8. /\ DOMAIN h = 0..N /\ h = [n \in 0..N |-> h[n]]
      /\ h[0] = 0
      /\ \A n \in 1..N : h[n] = h[n - 1] + Len(MorseCode(l[n]))
  <2>2. h = [n \in 0..N |-> IF n = 0 THEN 0 ELSE h[n - 1] + Len(MorseCode(l[n]))]
    BY <1>7, Zenon
  <2>3. \A n \in 0..N : h[n] = IF n = 0 THEN 0 ELSE h[n - 1] + Len(MorseCode(l[n]))
    BY <2>2, Zenon
  <2>4. DOMAIN h = 0..N /\ h = [n \in DOMAIN h |-> h[n]]
    BY <2>2, Zenon
  <2> QED
    BY <1>z, <2>3, <2>4, Zenon
<1>9. \A n \in 0..N : h[n] \in Nat
  <2> DEFINE U == {n \in 0..N : h[n] \in Nat}
  <2>1. 0 \in U
    BY <1>z, <1>8
  <2>2. ASSUME NEW n \in 0..(N - 1), n \in U PROVE n + 1 \in U
    <3>1. n + 1 \in 1..N /\ n + 1 \in 0..N /\ (n + 1) - 1 = n
      BY <1>1, SMTT(20)
    <3>2. h[n + 1] = h[n] + Len(MorseCode(l[n + 1])) /\ h[n] \in Nat
      BY <1>8, <2>2, <3>1, Zenon
    <3>3. Len(MorseCode(l[n + 1])) \in Nat
      BY <1>1, <3>1
    <3>4. h[n + 1] \in Nat
      BY <3>2, <3>3
    <3> QED
      BY <3>1, <3>4, Zenon
  <2> HIDE DEF U
  <2>3. \A n \in 0..(N - 1) : n \in U => n + 1 \in U
    BY <2>2, Zenon
  <2>4. 0 \in Nat
    OBVIOUS
  <2>5. 0..N \subseteq U
    BY <1>1, <2>1, <2>3, <2>4, NatSetInduction, Zenon
  <2> QED
    BY <2>5, Zenon DEF U
<1> QED
  <2>1. h \in [0..N -> Nat]
    BY <1>8, <1>9, Zenon
  <2> QED
    BY <1>6, <1>8, <2>1, Zenon DEF N

\* The offsets rise.
LEMMA EndsRise ==
    ASSUME NEW l \in Seq(Char), \A i \in 1..Len(l) : InLine(l[i]),
           NEW m \in 0..Len(l)
    PROVE  \A n \in m..Len(l) : Ends(l)[m] <= Ends(l)[n]
<1> DEFINE U == {n \in m..Len(l) : Ends(l)[m] <= Ends(l)[n]}
<1>1. /\ Len(l) \in Nat /\ m \in Nat
      /\ \A n \in 0..Len(l) : Ends(l)[n] \in Nat
      /\ \A n \in 1..Len(l) : Ends(l)[n] = Ends(l)[n - 1] + Len(MorseCode(l[n]))
  BY EndsCount
<1>2. m \in U
  BY <1>1
<1>3. ASSUME NEW n \in m..(Len(l) - 1), n \in U PROVE n + 1 \in U
  <2>1. n + 1 \in 1..Len(l) /\ n + 1 \in 0..Len(l) /\ n + 1 \in m..Len(l) /\ n \in 0..Len(l)
        /\ (n + 1) - 1 = n
    BY <1>1
  <2>2. Ends(l)[n + 1] = Ends(l)[n] + Len(MorseCode(l[n + 1])) /\ Len(MorseCode(l[n + 1])) \in Nat
    BY <1>1, <2>1, SpacesAndLetters
  <2>3. Ends(l)[m] <= Ends(l)[n] /\ Ends(l)[m] \in Nat /\ Ends(l)[n] \in Nat
    BY <1>1, <1>3, <2>1
  <2>4. Ends(l)[m] <= Ends(l)[n + 1]
    BY <2>2, <2>3
  <2> QED
    BY <2>1, <2>4
<1> HIDE DEF U
<1>4. m..Len(l) \subseteq U
  <2>1. \A n \in m..(Len(l) - 1) : n \in U => n + 1 \in U
    BY <1>3
  <2> QED
    BY <1>1, <1>2, <2>1, NatSetInduction
<1> QED
  BY <1>4 DEF U

\* A character more does not change those there are.
LEMMA EndsOfMore ==
    ASSUME NEW l \in Seq(Char), \A i \in 1..Len(l) : InLine(l[i]), NEW c, InLine(c)
    PROVE  /\ Append(l, c) \in Seq(Char) /\ \A i \in 1..Len(Append(l, c)) : InLine(Append(l, c)[i])
           /\ \A n \in 0..Len(l) : Ends(Append(l, c))[n] = Ends(l)[n]
           /\ Ends(Append(l, c))[Len(l) + 1] = Ends(l)[Len(l)] + Len(MorseCode(c))
<1> DEFINE m == Append(l, c)
           U == {n \in 0..Len(l) : Ends(m)[n] = Ends(l)[n]}
<1>1. /\ c \in Char /\ m \in Seq(Char) /\ Len(m) = Len(l) + 1 /\ m[Len(l) + 1] = c
      /\ Len(l) \in Nat /\ \A i \in 1..Len(l) : m[i] = l[i]
  BY SpacesAndLetters, AppendProperties
<1> HIDE DEF m
<1>2. \A i \in 1..Len(m) : InLine(m[i])
  <2> SUFFICES ASSUME NEW i \in 1..Len(m) PROVE InLine(m[i])
    OBVIOUS
  <2>1. CASE i = Len(l) + 1
    BY <1>1, <2>1
  <2>2. CASE i # Len(l) + 1
    <3>1. i \in 1..Len(l)
      BY <1>1, <2>2
    <3> QED
      BY <1>1, <3>1
  <2> QED
    BY <2>1, <2>2
<1>3. /\ Ends(l)[0] = 0 /\ Ends(m)[0] = 0
      /\ \A n \in 1..Len(l) : Ends(l)[n] = Ends(l)[n - 1] + Len(MorseCode(l[n]))
      /\ \A n \in 1..Len(m) : Ends(m)[n] = Ends(m)[n - 1] + Len(MorseCode(m[n]))
  BY <1>1, <1>2, EndsCount
<1>4. 0 \in U
  BY <1>1, <1>3
<1>5. ASSUME NEW n \in 0..(Len(l) - 1), n \in U PROVE n + 1 \in U
  <2>1. n + 1 \in 1..Len(l) /\ n + 1 \in 0..Len(l) /\ n + 1 \in 1..Len(m) /\ (n + 1) - 1 = n
    BY <1>1
  <2>2. Ends(m)[n] = Ends(l)[n]
    BY <1>5
  <2>3. Ends(l)[n + 1] = Ends(l)[n] + Len(MorseCode(l[n + 1]))
    BY <1>3, <2>1, Zenon
  <2>4. Ends(m)[n + 1] = Ends(m)[n] + Len(MorseCode(m[n + 1]))
    BY <1>3, <2>1, Zenon
  <2>5. m[n + 1] = l[n + 1]
    BY <1>1, <2>1
  <2>6. Ends(m)[n + 1] = Ends(l)[n + 1]
    BY <2>2, <2>3, <2>4, <2>5, Zenon
  <2> QED
    BY <2>1, <2>6, Zenon
<1> HIDE DEF U
<1>6. 0..Len(l) \subseteq U
  <2>1. \A n \in 0..(Len(l) - 1) : n \in U => n + 1 \in U
    BY <1>5
  <2>2. 0 \in Nat
    OBVIOUS
  <2> QED
    BY <1>1, <1>4, <2>1, <2>2, NatSetInduction, Zenon
<1>7. \A n \in 0..Len(l) : Ends(m)[n] = Ends(l)[n]
  BY <1>6, Zenon DEF U
<1>8. Ends(m)[Len(l) + 1] = Ends(l)[Len(l)] + Len(MorseCode(c))
  <2>1. Len(l) + 1 \in 1..Len(m) /\ (Len(l) + 1) - 1 = Len(l) /\ Len(l) \in 0..Len(l)
    BY <1>1
  <2> QED
    BY <1>1, <1>3, <1>7, <2>1, Zenon
<1> QED
  BY <1>1, <1>2, <1>7, <1>8 DEF m

\* What is kept of a line that can be encoded: letters, and spaces between them.
Tidy(l) ==
    /\ l \in Seq(Char) /\ \A i \in 1..Len(l) : InLine(l[i])
    /\ l # <<>> => l[1] # Space
    /\ \A i \in 2..Len(l) : l[i] = Space => l[i - 1] # Space

\* A character more, as it is kept.
KeptMore(l, c) ==
    IF c = Space /\ (l = <<>> \/ Last(l) = Space) THEN l ELSE Append(l, c)

LEMMA TidyMore ==
    ASSUME NEW l, Tidy(l), NEW c, InLine(c)
    PROVE  Tidy(KeptMore(l, c))
<1>1. CASE c = Space /\ (l = <<>> \/ Last(l) = Space)
  BY <1>1 DEF KeptMore
<1>2. CASE ~(c = Space /\ (l = <<>> \/ Last(l) = Space))
  <2> DEFINE m == Append(l, c)
  <2>1. KeptMore(l, c) = m
    BY <1>2 DEF KeptMore
  <2>2. l \in Seq(Char) /\ Len(l) \in Nat /\ c \in Char
    BY SpacesAndLetters DEF Tidy
  <2>3. /\ m \in Seq(Char) /\ Len(m) = Len(l) + 1 /\ m[Len(l) + 1] = c
        /\ \A i \in 1..Len(l) : m[i] = l[i]
    BY <2>2, AppendProperties
  <2> HIDE DEF m
  <2>4. \A i \in 1..Len(m) : InLine(m[i])
    BY <2>2, <2>3, EndsOfMore DEF Tidy, m
  <2>5. CASE l = <<>>
    <3>1. Len(l) = 0 /\ c # Space
      BY <1>2, <2>5, EmptySeq
    <3>2. Len(m) = 1 /\ m[1] = c
      BY <2>3, <3>1
    <3> QED
      BY <2>1, <2>3, <2>4, <3>1, <3>2 DEF Tidy
  <2>6. CASE l # <<>>
    <3>1. Len(l) >= 1 /\ Last(l) = l[Len(l)]
      <4>1. Len(l) # 0
        BY <2>2, <2>6, EmptySeq
      <4> QED
        BY <2>2, <4>1 DEF Last
    <3>2. m[1] # Space
      BY <2>2, <2>3, <2>6, <3>1 DEF Tidy
    <3>3. ASSUME NEW i \in 2..Len(m), m[i] = Space PROVE m[i - 1] # Space
      <4>1. CASE i = Len(l) + 1
        <5>1. c = Space /\ i - 1 = Len(l) /\ Len(l) \in 1..Len(l)
          BY <2>2, <2>3, <3>1, <3>3, <4>1
        <5>2. m[i - 1] = Last(l)
          BY <2>3, <3>1, <5>1
        <5> QED
          BY <1>2, <5>1, <5>2
      <4>2. CASE i # Len(l) + 1
        <5>1. i \in 2..Len(l) /\ i \in 1..Len(l) /\ i - 1 \in 1..Len(l)
          BY <2>2, <2>3, <4>2
        <5> QED
          BY <2>3, <3>3, <5>1 DEF Tidy
      <4> QED
        BY <4>1, <4>2
    <3> QED
      BY <2>1, <2>3, <2>4, <3>2, <3>3 DEF Tidy
  <2> QED
    BY <2>5, <2>6
<1> QED
  BY <1>1, <1>2

LEMMA NothingTidy == Tidy(<<>>)
BY EmptySeq DEF Tidy

\* What is kept of each beginning of a line is tidy.
Encodable(t) == t \in Seq(Char) /\ \A i \in 1..Len(t) : InLine(t[i])

LEMMA KeptTidy ==
    ASSUME NEW t, Encodable(t)
    PROVE  /\ Kept(t)[0] = <<>>
           /\ \A n \in 1..Len(t) : Kept(t)[n] = KeptMore(Kept(t)[n - 1], t[n])
           /\ \A n \in 0..Len(t) : Tidy(Kept(t)[n])
<1> DEFINE N == Len(t)
           S == {l \in Seq(Char) : Tidy(l)}
           go == [n \in 1..N |-> [x \in S |-> KeptMore(x, t[n])]]
<1>1. N \in Nat /\ \A n \in 1..N : InLine(t[n])
  BY DEF Encodable
<1> HIDE DEF N
<1>0. <<>> \in S
  BY NothingTidy DEF Tidy
<1>t. \A n \in 1..N : \A x \in S : KeptMore(x, t[n]) \in S
  BY <1>1, TidyMore DEF Tidy
<1>2. go \in [1..N -> [S -> S]]
  BY <1>t, Zenon
<1>3. \A n \in 1..N : \A x \in S : go[n][x] = KeptMore(x, t[n])
  BY Zenon
<1> HIDE DEF go
<1>s. \A x \in S : Tidy(x)
  BY Zenon
<1> HIDE DEF S
<1>4. PICK f \in [0..N -> S] : f[0] = <<>> /\ \A n \in 1..N : f[n] = go[n][f[n - 1]]
  <2> DEFINE c == <<>>
  <2>1. c \in S /\ N \in Nat /\ go \in [1..N -> [S -> S]]
    BY <1>0, <1>1, <1>2, Zenon
  <2> HIDE DEF c
  <2>2. \E f \in [0..N -> S] : f[0] = c /\ \A n \in 1..N : f[n] = go[n][f[n - 1]]
    BY <2>1, FunctionBySteps, SMTT(60)
  <2> QED
    BY <2>2, Zenon DEF c
<1> DEFINE F(g) == [n \in 0..N |->
                      IF n = 0 THEN <<>>
                      ELSE IF t[n] = Space /\ (g[n - 1] = <<>> \/ Last(g[n - 1]) = Space)
                      THEN g[n - 1] ELSE Append(g[n - 1], t[n])]
<1>z. 0 \in 0..N /\ \A n \in 1..N : n \in 0..N /\ n # 0 /\ n - 1 \in 0..N
  BY <1>1, SMTT(20)
<1>n. \A n \in 0..N : n # 0 => n \in 1..N /\ n - 1 \in 0..N
  BY <1>1, SMTT(20)
<1>5. f = F(f)
  <2>1. \A n \in 0..N : f[n] = IF n = 0 THEN <<>> ELSE KeptMore(f[n - 1], t[n])
    BY <1>3, <1>4, <1>n, Zenon
  <2>2. \A n \in 0..N : f[n] = IF n = 0 THEN <<>>
                      ELSE IF t[n] = Space /\ (f[n - 1] = <<>> \/ Last(f[n - 1]) = Space)
                      THEN f[n - 1] ELSE Append(f[n - 1], t[n])
    BY <2>1, Zenon DEF KeptMore
  <2> QED
    BY <1>4, <2>2, Zenon
<1> DEFINE h == CHOOSE g : g = F(g)
<1>7. h = F(h)
  <2> HIDE DEF F
  <2> QED
    BY <1>5, Zenon
<1>6. Kept(t) = h
  BY Zenon DEF Kept, N
<1> HIDE DEF h
<1>8. h[0] = <<>> /\ \A n \in 1..N : h[n] = KeptMore(h[n - 1], t[n])
  <2>3. \A n \in 0..N : h[n] = IF n = 0 THEN <<>>
                      ELSE IF t[n] = Space /\ (h[n - 1] = <<>> \/ Last(h[n - 1]) = Space)
                      THEN h[n - 1] ELSE Append(h[n - 1], t[n])
    BY <1>7, Zenon
  <2>4. \A n \in 0..N : h[n] = IF n = 0 THEN <<>> ELSE KeptMore(h[n - 1], t[n])
    BY <2>3, Zenon DEF KeptMore
  <2> QED
    BY <1>z, <2>4, Zenon
<1>9. \A n \in 0..N : h[n] \in S
  <2> DEFINE U == {n \in 0..N : h[n] \in S}
  <2>1. 0 \in U
    BY <1>0, <1>z, <1>8, Zenon
  <2>2. ASSUME NEW n \in 0..(N - 1), n \in U PROVE n + 1 \in U
    <3>1. n + 1 \in 1..N /\ n + 1 \in 0..N /\ (n + 1) - 1 = n
      BY <1>1, SMTT(20)
    <3>2. h[n + 1] = KeptMore(h[n], t[n + 1]) /\ h[n] \in S
      BY <1>8, <2>2, <3>1, Zenon
    <3>3. h[n + 1] \in S
      BY <1>t, <3>1, <3>2, Zenon
    <3> QED
      BY <3>1, <3>3, Zenon
  <2> HIDE DEF U
  <2>3. \A n \in 0..(N - 1) : n \in U => n + 1 \in U
    BY <2>2, Zenon
  <2>4. 0 \in Nat
    OBVIOUS
  <2>5. 0..N \subseteq U
    BY <1>1, <2>1, <2>3, <2>4, NatSetInduction, Zenon
  <2> QED
    BY <2>5, Zenon DEF U
<1> QED
  BY <1>6, <1>8, <1>9, <1>s, Zenon DEF N

\* A text without its newline can be encoded.
LEMMA FrontOfLine ==
    ASSUME NEW t \in Seq(Char), t # <<>>, Last(t) = Newline,
           \A i \in 1..(Len(t) - 1) : t[i] = Space \/ InMorse(t[i])
    PROVE  /\ Encodable(Front(t)) /\ Len(t) \in Nat \ {0} /\ Len(Front(t)) = Len(t) - 1
           /\ \A i \in 1..(Len(t) - 1) : Front(t)[i] = t[i] /\ InLine(t[i])
           /\ t[Len(t)] = Newline
<1>1. /\ Len(t) \in Nat \ {0} /\ t[Len(t)] = Newline
      /\ \A i \in 1..(Len(t) - 1) : InLine(t[i])
  BY EmptySeq DEF Last, InLine
<1>2. /\ Front(t) \in Seq(Char) /\ Len(Front(t)) = Len(t) - 1
      /\ \A i \in 1..(Len(t) - 1) : Front(t)[i] = t[i]
  <2>1. Front(t) = [i \in 1..(Len(t) - 1) |-> t[i]]
    BY DEF Front
  <2>2. Len(t) - 1 \in Nat /\ \A i \in 1..(Len(t) - 1) : t[i] \in Char
    BY <1>1
  <2> DEFINE n == Len(t) - 1
  <2>3. Front(t) \in [1..n -> Char] /\ n \in Nat
    BY <2>1, <2>2
  <2> QED
    BY <2>1, <2>2, <2>3
<1> QED
  BY <1>1, <1>2 DEF Encodable

\* The line a text has, in front of its newline.
LEMMA LineOfText ==
    ASSUME text \in Seq(Char), MorseLine
    PROVE  /\ Front(text) \in Seq(Char) /\ Len(text) \in Nat \ {0}
           /\ Len(Front(text)) = Len(text) - 1
           /\ \A i \in 1..(Len(text) - 1) : Front(text)[i] = text[i] /\ InLine(text[i])
           /\ text[Len(text)] = Newline
           /\ Tidy(Line) /\ Line = Kept(Front(text))[Len(text) - 1]
<1>1. /\ Encodable(Front(text)) /\ Len(text) \in Nat \ {0} /\ Len(Front(text)) = Len(text) - 1
      /\ \A i \in 1..(Len(text) - 1) : Front(text)[i] = text[i] /\ InLine(text[i])
      /\ text[Len(text)] = Newline
  BY FrontOfLine DEF MorseLine
<1>2. Line = Kept(Front(text))[Len(text) - 1]
  BY <1>1 DEF Line, Collapsed
<1>3. Len(text) - 1 \in 0..(Len(text) - 1)
  BY <1>1
<1>4. Tidy(Line)
  BY <1>1, <1>2, <1>3, KeptTidy
<1> QED
  BY <1>1, <1>2, <1>4 DEF Encodable

-----------------------------------------------------------------------------
(* What is written of the symbols *)

\* The letter ch of the table t stands for the three symbols of s behind the at-th.
Lettered(t, s, at, ch) ==
    LET n == 9 * s[at + 1] + 3 * s[at + 2] + s[at + 3]
    IN  n < 26 /\ ch = t[n + 1]

\* Of the symbols s the first m are used: those of the letters out, and of a
\* letter that is not complete.
Written(t, s, m, out, buf) ==
    /\ m = 3 * Len(out) + Len(buf) /\ Len(buf) <= 2
    /\ \A q \in 1..Len(buf) : buf[q] = s[3 * Len(out) + q]
    /\ \A j \in 1..Len(out) : Lettered(t, s, 3 * j - 3, out[j])

NoThree(s) == \A p \in 1..(Len(s) - 2) : s[p] # X \/ s[p + 1] # X \/ s[p + 2] # X

\* The symbols s are those of the line l.
Spells(s, l) ==
    /\ Len(s) = Ends(l)[Len(l)]
    /\ \A n \in 1..Len(l) : \A q \in 1..Len(MorseCode(l[n])) :
          s[Ends(l)[n - 1] + q] = MorseCode(l[n])[q]

LEMMA ThreeSymbols ==
    ASSUME NEW a \in 0..2, NEW b \in 0..2, NEW c \in 0..2
    PROVE  /\ 9 * a + 3 * b + c \in 0..26
           /\ 9 * a + 3 * b + c = 26 <=> a = X /\ b = X /\ c = X
           /\ Triple(9 * a + 3 * b + c) = <<a, b, c>>
<1> DEFINE n == 9 * a + 3 * b + c
<1>1. n \in 0..26 /\ (n = 26 <=> a = X /\ b = X /\ c = X)
  BY DEF X
<1>2. n \div 9 = a /\ (n \div 3) % 3 = b /\ n % 3 = c
  <2>1. a \in {0, 1, 2} /\ b \in {0, 1, 2} /\ c \in {0, 1, 2}
    OBVIOUS
  <2> QED
    BY <2>1
<1> QED
  BY <1>1, <1>2 DEF Triple

\* Symbols that come later change nothing of what is written.
LEMMA WrittenLonger ==
    ASSUME NEW s \in Seq(0..2), NEW z \in Seq(0..2), Len(s) <= Len(z),
           \A p \in 1..Len(s) : z[p] = s[p],
           NEW t, NEW m \in 0..Len(s), NEW out \in Seq(0..127), NEW buf \in Seq(0..2),
           Written(t, s, m, out, buf)
    PROVE  Written(t, z, m, out, buf)
<1>1. Len(s) \in Nat /\ Len(out) \in Nat /\ Len(buf) \in Nat /\ m <= Len(s)
  OBVIOUS
<1>2. m = 3 * Len(out) + Len(buf)
  BY DEF Written
<1>3. ASSUME NEW q \in 1..Len(buf) PROVE buf[q] = z[3 * Len(out) + q]
  <2>1. 3 * Len(out) + q \in 1..Len(s)
    BY <1>1, <1>2
  <2>2. buf[q] = s[3 * Len(out) + q]
    BY DEF Written
  <2> QED
    BY <2>1, <2>2
<1>4. ASSUME NEW j \in 1..Len(out) PROVE Lettered(t, z, 3 * j - 3, out[j])
  <2> DEFINE a == 3 * j - 3
  <2>1. a + 1 \in 1..Len(s) /\ a + 2 \in 1..Len(s) /\ a + 3 \in 1..Len(s)
    <3>1. PICK o, b : o = Len(out) /\ b = Len(buf)
      OBVIOUS
    <3>2. o \in Nat /\ b \in Nat /\ m = 3 * o + b /\ j \in 1..o
      BY <1>1, <1>2, <3>1
    <3> QED
      BY <1>1, <3>2
  <2>2. Lettered(t, s, a, out[j])
    BY DEF Written
  <2> HIDE DEF a
  <2>3. z[a + 1] = s[a + 1] /\ z[a + 2] = s[a + 2] /\ z[a + 3] = s[a + 3]
    BY <2>1
  <2>4. Lettered(t, z, a, out[j])
    BY <2>2, <2>3 DEF Lettered
  <2> QED
    BY <2>4 DEF a
<1> QED
  BY <1>3, <1>4 DEF Written

\* A letter is found for three symbols that are not all separators.
LEMMA KeyLetterFound ==
    ASSUME table \in Seq(Char), Len(table) = 26,
           NEW a \in 0..2, NEW b \in 0..2, NEW c \in 0..2, a # X \/ b # X \/ c # X
    PROVE  /\ 9 * a + 3 * b + c \in 0..25
           /\ KeyLetter(<<a, b, c>>) = <<table[9 * a + 3 * b + c + 1]>>
           /\ table[9 * a + 3 * b + c + 1] \in Char
<1> DEFINE n == 9 * a + 3 * b + c
<1>1. n \in 0..26 /\ n # 26
  BY ThreeSymbols
<1>2. n \in 0..25 /\ n < Len(table)
  BY <1>1
<1>3. KeyLetter(<<a, b, c>>) = IF n = 26 THEN <<>> ELSE IF n < Len(table) THEN <<table[n + 1]>> ELSE <<NUL>>
  BY DEF KeyLetter
<1> HIDE DEF n
<1>4. KeyLetter(<<a, b, c>>) = <<table[n + 1]>>
  BY <1>1, <1>2, <1>3
<1>5. table[n + 1] \in Char
  <2>1. n + 1 \in 1..Len(table)
    BY <1>2
  <2> QED
    BY <2>1, ElementOfSeq
<1> QED
  BY <1>2, <1>4, <1>5 DEF n

LEMMA Three ==
    ASSUME NEW a \in 0..2, NEW b \in 0..2, NEW c \in 0..2
    PROVE  Append(<<a, b>>, c) = <<a, b, c>>
<1> DEFINE r == <<a, b>>
           s == Append(r, c)
           t == <<a, b, c>>
<1>0. r \in Seq(0..2)
  OBVIOUS
<1>1. Len(r) = 2 /\ r[1] = a /\ r[2] = b
  OBVIOUS
<1> HIDE DEF r
<1>2. s \in Seq(0..2) /\ Len(s) = 3 /\ s[1] = a /\ s[2] = b /\ s[3] = c
  <2>1. /\ Append(r, c) \in Seq(0..2) /\ Len(Append(r, c)) = Len(r) + 1
        /\ \A i \in 1..Len(r) : Append(r, c)[i] = r[i]
        /\ Append(r, c)[Len(r) + 1] = c
    BY <1>0, AppendProperties
  <2>2. 1 \in 1..Len(r) /\ 2 \in 1..Len(r) /\ Len(r) + 1 = 3
    BY <1>1
  <2> QED
    BY <1>1, <2>1, <2>2
<1>3. t \in Seq(0..2) /\ Len(t) = 3 /\ t[1] = a /\ t[2] = b /\ t[3] = c
  OBVIOUS
<1> HIDE DEF s, t
<1>4. \A i \in 1..3 : s[i] = t[i]
  BY <1>2, <1>3
<1>5. s = t
  BY <1>2, <1>3, <1>4, SeqEqual
<1> QED
  BY <1>5 DEF r, s, t

LEMMA Two ==
    ASSUME NEW n \in Nat, ~(n < 2), n <= 2
    PROVE  n = 2
OBVIOUS

LEMMA NextMultiple ==
    ASSUME NEW i \in Nat, NEW j \in Nat, NEW m \in Nat, m = 3 * i + 2, j = i + 1
    PROVE  m + 1 = 3 * j
OBVIOUS

\* The last of three symbols is used: it completes a letter.
LEMMA ThirdSymbol ==
    ASSUME table \in Seq(Char), Len(table) = 26, output \in Seq(0..127), buffer \in Seq(0..2),
           Len(buffer) = 2,
           NEW s \in Seq(0..2), NEW m \in 0..(Len(s) - 1), Written(table, s, m, output, buffer),
           s[m - 1] # X \/ s[m] # X \/ s[m + 1] # X,
           output' = output \o KeyLetter(Append(buffer, s[m + 1]))
    PROVE  /\ output' \in Seq(0..127) /\ Len(output') = Len(output) + 1
           /\ m + 1 = 3 * Len(output')
           /\ \A j \in 1..Len(output') : Lettered(table, s, 3 * j - 3, output'[j])
<1>1. /\ Len(buffer) = 2 /\ m = 3 * Len(output) + 2 /\ Len(output) \in Nat /\ Len(s) \in Nat
      /\ buffer[1] = s[3 * Len(output) + 1] /\ buffer[2] = s[3 * Len(output) + 2]
  <2>1. Len(buffer) \in Nat /\ Len(output) \in Nat /\ Len(s) \in Nat
    OBVIOUS
  <2>2. /\ m = 3 * Len(output) + Len(buffer) /\ Len(buffer) <= 2
        /\ \A q \in 1..Len(buffer) : buffer[q] = s[3 * Len(output) + q]
    BY DEF Written
  <2>3. 1 \in 1..Len(buffer) /\ 2 \in 1..Len(buffer)
    OBVIOUS
  <2> QED
    BY <2>1, <2>2, <2>3
<1>2. m - 1 \in 1..Len(s) /\ m \in 1..Len(s) /\ m + 1 \in 1..Len(s)
      /\ m - 1 = 3 * Len(output) + 1
  BY <1>1
<1>3. s[m - 1] \in 0..2 /\ s[m] \in 0..2 /\ s[m + 1] \in 0..2
  BY <1>2
<1>4. Append(buffer, s[m + 1]) = <<s[m - 1], s[m], s[m + 1]>>
  <2> DEFINE a == s[m - 1]
             b == s[m]
             c == s[m + 1]
  <2>1. buffer = <<a, b>>
    <3>1. buffer[1] = a /\ buffer[2] = b
      BY <1>1, <1>2
    <3> QED
      BY <1>1, <3>1
  <2>3. a \in 0..2 /\ b \in 0..2 /\ c \in 0..2
    BY <1>3
  <2> HIDE DEF a, b, c
  <2>2. Append(buffer, c) = <<a, b, c>>
    BY <2>1, <2>3, Three, Zenon
  <2> QED
    BY <2>2 DEF a, b, c
<1> DEFINE n == 9 * s[m - 1] + 3 * s[m] + s[m + 1]
<1>5. n \in 0..25 /\ KeyLetter(Append(buffer, s[m + 1])) = <<table[n + 1]>> /\ table[n + 1] \in Char
  <2>1. PICK a, b, c : a = s[m - 1] /\ b = s[m] /\ c = s[m + 1]
    OBVIOUS
  <2>2. /\ a \in 0..2 /\ b \in 0..2 /\ c \in 0..2 /\ (a # X \/ b # X \/ c # X)
        /\ n = 9 * a + 3 * b + c /\ Append(buffer, c) = <<a, b, c>>
    BY <1>3, <1>4, <2>1
  <2> HIDE DEF n
  <2>3. n \in 0..25 /\ KeyLetter(<<a, b, c>>) = <<table[n + 1]>> /\ table[n + 1] \in Char
    BY <2>2, KeyLetterFound
  <2> QED
    BY <2>1, <2>2, <2>3
<1>6. PICK c : c = table[n + 1]
  OBVIOUS
<1>7. c \in 0..127 /\ output' = Append(output, c)
  <2>1. c \in Char /\ output' = output \o <<c>>
    BY <1>5, <1>6, Zenon
  <2>2. output \o <<c>> = Append(output, c)
    OBVIOUS
  <2>3. Char \subseteq 0..127
    BY DEF Char
  <2> QED
    BY <2>1, <2>2, <2>3, Zenon
<1>8. /\ output' \in Seq(0..127) /\ Len(output') = Len(output) + 1
      /\ \A j \in 1..Len(output) : output'[j] = output[j]
      /\ output'[Len(output) + 1] = table[n + 1]
  <2>1. output \in Seq(0..127)
    OBVIOUS
  <2>2. /\ Append(output, c) \in Seq(0..127) /\ Len(Append(output, c)) = Len(output) + 1
        /\ \A j \in 1..Len(output) : Append(output, c)[j] = output[j]
        /\ Append(output, c)[Len(output) + 1] = c
    BY <1>7, <2>1, AppendProperties, SMTT(20)
  <2> QED
    BY <1>6, <1>7, <2>2, Zenon
<1>9. ASSUME NEW j \in 1..Len(output') PROVE Lettered(table, s, 3 * j - 3, output'[j])
  <2>1. CASE j = Len(output) + 1
    <3>1. (3 * j - 3) + 1 = m - 1 /\ (3 * j - 3) + 2 = m /\ (3 * j - 3) + 3 = m + 1
      BY <1>1, <2>1
    <3>2. 9 * s[(3 * j - 3) + 1] + 3 * s[(3 * j - 3) + 2] + s[(3 * j - 3) + 3] = n
      BY <3>1, Zenon DEF n
    <3> HIDE DEF n
    <3>3. n < 26
      BY <1>5
    <3> QED
      BY <1>8, <2>1, <3>2, <3>3 DEF Lettered
  <2>2. CASE j # Len(output) + 1
    <3>1. j \in 1..Len(output)
      BY <1>1, <1>8, <2>2
    <3> QED
      BY <1>8, <3>1 DEF Written
  <2> QED
    BY <2>1, <2>2
<1>10. m + 1 = 3 * Len(output')
  <2>1. Len(output') = Len(output) + 1 /\ m = 3 * Len(output) + 2 /\ Len(output) \in Nat
        /\ Len(output') \in Nat /\ m \in Nat
    BY <1>1, <1>8
  <2> QED
    BY <2>1, NextMultiple, Zenon
<1> QED
  BY <1>8, <1>9, <1>10

\* A symbol is used.
LEMMA PushWrites ==
    ASSUME table \in Seq(Char), Len(table) = 26, output \in Seq(0..127), buffer \in Seq(0..2),
           NEW s \in Seq(0..2), NEW m \in 0..(Len(s) - 1), Written(table, s, m, output, buffer),
           NoThree(s), Push(s[m + 1])
    PROVE  Written(table, s, m + 1, output', buffer')
<1>1. /\ m = 3 * Len(output) + Len(buffer) /\ Len(output) \in Nat /\ Len(s) \in Nat
      /\ Len(buffer) \in Nat /\ Len(buffer) <= 2
      /\ \A q \in 1..Len(buffer) : buffer[q] = s[3 * Len(output) + q]
  BY DEF Written
<1>2. CASE Len(buffer) < 2
  <2>1. buffer' = Append(buffer, s[m + 1]) /\ output' = output
    BY <1>2 DEF Push
  <2>2. s[m + 1] \in 0..2
    BY <1>1
  <2>3. /\ Len(buffer') = Len(buffer) + 1 /\ \A q \in 1..Len(buffer) : buffer'[q] = buffer[q]
        /\ buffer'[Len(buffer) + 1] = s[m + 1]
    BY <2>1, <2>2, AppendProperties
  <2>4. ASSUME NEW q \in 1..Len(buffer') PROVE buffer'[q] = s[3 * Len(output') + q]
    <3>1. CASE q = Len(buffer) + 1
      <4>1. 3 * Len(output) + q = m + 1
        BY <1>1, <3>1
      <4> QED
        BY <2>1, <2>3, <3>1, <4>1
    <3>2. CASE q # Len(buffer) + 1
      <4>1. q \in 1..Len(buffer)
        BY <1>1, <2>3, <3>2
      <4> QED
        BY <1>1, <2>1, <2>3, <4>1
    <3> QED
      BY <3>1, <3>2
  <2>5. m + 1 = 3 * Len(output') + Len(buffer') /\ Len(buffer') <= 2
    BY <1>1, <1>2, <2>1, <2>3
  <2> QED
    BY <2>1, <2>4, <2>5 DEF Written
<1>3. CASE ~(Len(buffer) < 2)
  <2>0. Len(buffer) = 2
    BY <1>1, <1>3, Two, Zenon
  <2>1. buffer' = <<>> /\ output' = output \o KeyLetter(Append(buffer, s[m + 1]))
    BY <1>3 DEF Push
  <2>2. s[m - 1] # X \/ s[m] # X \/ s[m + 1] # X
    <3>1. m - 1 \in 1..(Len(s) - 2) /\ (m - 1) + 1 = m /\ (m - 1) + 2 = m + 1
      BY <1>1, <1>3
    <3> QED
      BY <3>1 DEF NoThree
  <2>3. /\ m + 1 = 3 * Len(output')
        /\ \A j \in 1..Len(output') : Lettered(table, s, 3 * j - 3, output'[j])
        /\ Len(output') \in Nat
    <3>1. /\ output' \in Seq(0..127) /\ m + 1 = 3 * Len(output')
          /\ \A j \in 1..Len(output') : Lettered(table, s, 3 * j - 3, output'[j])
      BY <2>0, <2>1, <2>2, ThirdSymbol
    <3> QED
      BY <3>1
  <2>4. Len(buffer') = 0
    BY <2>1, EmptySeq
  <2> QED
    BY <2>3, <2>4 DEF Written
<1> QED
  BY <1>2, <1>3

-----------------------------------------------------------------------------
(* The first run encodes the line *)

\* The symbols z are those of s and behind them those of e.
Joined(z, s, e) ==
    /\ Len(z) = Len(s) + Len(e)
    /\ \A p \in 1..Len(s) : z[p] = s[p]
    /\ \A q \in 1..Len(e) : z[Len(s) + q] = e[q]

\* A character more is spelled.
LEMMA SpellsMore ==
    ASSUME NEW l \in Seq(Char), \A i \in 1..Len(l) : InLine(l[i]), NEW c, InLine(c),
           NEW s \in Seq(0..2), Spells(s, l)
    PROVE  /\ s \o MorseCode(c) \in Seq(0..2)
           /\ Joined(s \o MorseCode(c), s, MorseCode(c))
           /\ Spells(s \o MorseCode(c), Append(l, c))
<1> DEFINE e == MorseCode(c)
           z == s \o e
           m == Append(l, c)
<1>1. e \in Seq(0..2) /\ Len(e) \in Nat \ {0} /\ c \in Char
  BY SpacesAndLetters
<1>2. /\ Len(m) = Len(l) + 1 /\ m[Len(l) + 1] = c /\ Len(l) \in Nat
      /\ \A i \in 1..Len(l) : m[i] = l[i]
  BY <1>1, AppendProperties
<1>3. /\ \A n \in 0..Len(l) : Ends(m)[n] = Ends(l)[n]
      /\ Ends(m)[Len(l) + 1] = Ends(l)[Len(l)] + Len(e)
  BY EndsOfMore
<1>4. /\ \A n \in 0..Len(l) : Ends(l)[n] \in Nat
      /\ \A n \in 1..Len(l) : Ends(l)[n] = Ends(l)[n - 1] + Len(MorseCode(l[n]))
      /\ \A n \in 0..Len(l) : Ends(l)[n] <= Ends(l)[Len(l)]
  <2>1. ASSUME NEW n \in 0..Len(l) PROVE Ends(l)[n] <= Ends(l)[Len(l)]
    <3>1. Len(l) \in n..Len(l)
      BY <1>2
    <3> QED
      BY <3>1, EndsRise
  <2> QED
    BY <2>1, EndsCount
<1>5. Len(s) = Ends(l)[Len(l)] /\ Len(s) \in Nat
  BY DEF Spells
<1> HIDE DEF e, m
<1>6. /\ z \in Seq(0..2) /\ Len(z) = Len(s) + Len(e)
      /\ \A p \in 1..Len(s) : z[p] = s[p]
      /\ \A q \in 1..Len(e) : z[Len(s) + q] = e[q]
  <2>1. /\ z \in Seq(0..2) /\ Len(z) = Len(s) + Len(e)
        /\ \A p \in 1..(Len(s) + Len(e)) : z[p] = IF p <= Len(s) THEN s[p] ELSE e[p - Len(s)]
    BY <1>1, ConcatProperties
  <2> HIDE DEF z
  <2>2. ASSUME NEW p \in 1..Len(s) PROVE z[p] = s[p]
    <3>1. p \in 1..(Len(s) + Len(e)) /\ p <= Len(s)
      BY <1>1, <1>5
    <3> QED
      BY <2>1, <3>1
  <2>3. ASSUME NEW q \in 1..Len(e) PROVE z[Len(s) + q] = e[q]
    <3>1. Len(s) + q \in 1..(Len(s) + Len(e)) /\ ~(Len(s) + q <= Len(s)) /\ (Len(s) + q) - Len(s) = q
      BY <1>1, <1>5
    <3> QED
      BY <2>1, <3>1
  <2> QED
    BY <2>1, <2>2, <2>3
<1> HIDE DEF z
<1>7. Len(z) = Ends(m)[Len(m)]
  BY <1>2, <1>3, <1>5, <1>6
<1>8. ASSUME NEW n \in 1..Len(m), NEW q \in 1..Len(MorseCode(m[n]))
      PROVE  z[Ends(m)[n - 1] + q] = MorseCode(m[n])[q]
  <2>1. CASE n = Len(l) + 1
    <3>1. m[n] = c /\ n - 1 = Len(l) /\ Len(l) \in 0..Len(l)
      BY <1>2, <2>1
    <3>2. Ends(m)[n - 1] = Len(s)
      BY <1>3, <1>5, <3>1
    <3>3. MorseCode(m[n]) = e
      BY <3>1 DEF e
    <3> QED
      BY <1>6, <3>2, <3>3
  <2>2. CASE n # Len(l) + 1
    <3>1. n \in 1..Len(l) /\ n \in 0..Len(l) /\ n - 1 \in 0..Len(l)
      BY <1>2, <2>2
    <3>2. m[n] = l[n] /\ Ends(m)[n - 1] = Ends(l)[n - 1] /\ Ends(l)[n - 1] \in Nat
      BY <1>2, <1>3, <1>4, <3>1
    <3>3. /\ Ends(l)[n] = Ends(l)[n - 1] + Len(MorseCode(l[n]))
          /\ Ends(l)[n] <= Len(s) /\ Ends(l)[n] \in Nat /\ Len(MorseCode(l[n])) \in Nat
      <4>1. Len(MorseCode(l[n])) \in Nat
        BY <3>1, SpacesAndLetters
      <4> QED
        BY <1>4, <1>5, <3>1, <4>1
    <3>4. q \in 1..Len(MorseCode(l[n])) /\ q \in Nat /\ q <= Len(MorseCode(l[n]))
      BY <3>2, <3>3
    <3>5. Ends(l)[n - 1] + q \in 1..Len(s)
      <4>1. PICK a, b, w : a = Ends(l)[n - 1] /\ b = Ends(l)[n] /\ w = Len(MorseCode(l[n]))
        OBVIOUS
      <4>2. a \in Nat /\ w \in Nat /\ b = a + w /\ b <= Len(s) /\ q \in Nat /\ q >= 1 /\ q <= w
        BY <3>2, <3>3, <3>4, <4>1
      <4>3. Len(s) \in Nat
        BY <1>5
      <4>4. a + q \in 1..Len(s)
        BY <4>2, <4>3
      <4> QED
        BY <4>1, <4>4
    <3>6. z[Ends(l)[n - 1] + q] = s[Ends(l)[n - 1] + q]
      BY <1>6, <3>5
    <3>7. s[Ends(l)[n - 1] + q] = MorseCode(l[n])[q]
      BY <3>1, <3>4 DEF Spells
    <3> QED
      BY <3>2, <3>6, <3>7
  <2> QED
    BY <2>1, <2>2
<1>9. Spells(z, m)
  BY <1>7, <1>8 DEF Spells
<1> QED
  BY <1>6, <1>9 DEF Joined, z, m, e

\* No three separators follow each other, as there is a symbol in every letter
\* and of several spaces one is kept.
LEMMA NoThreeMore ==
    ASSUME NEW s \in Seq(0..2), NoThree(s), NEW c, InLine(c), NEW z \in Seq(0..2),
           Joined(z, s, MorseCode(c)),
           c = Space => Len(s) >= 2 /\ s[Len(s) - 1] # X
    PROVE  /\ NoThree(z)
           /\ c # Space => Len(z) >= 2 /\ z[Len(z) - 1] # X
<1> DEFINE n == Len(MorseCode(c))
           L == Len(s)
<1>0. /\ \A p \in 1..L : z[p] = s[p]
      /\ \A q \in 1..n : z[L + q] = MorseCode(c)[q]
  BY DEF Joined
<1>1. L \in Nat /\ n \in Nat \ {0} /\ Len(z) = L + n
  BY SpacesAndLetters DEF Joined
<1>2. CASE c = Space
  <2>1. n = 1 /\ L >= 2 /\ s[L - 1] # X
    BY <1>2, SpacesAndLetters
  <2> HIDE DEF n, L
  <2>2. ASSUME NEW p \in 1..(Len(z) - 2) PROVE z[p] # X \/ z[p + 1] # X \/ z[p + 2] # X
    <3>1. CASE p = L - 1
      <4>1. L - 1 \in 1..L
        BY <1>1, <2>1
      <4>2. z[p] = s[L - 1]
        BY <1>0, <3>1, <4>1 DEF L
      <4> QED
        BY <2>1, <4>2
    <3>2. CASE p # L - 1
      <4>1. p \in 1..(L - 2) /\ p \in 1..L /\ p + 1 \in 1..L /\ p + 2 \in 1..L
        BY <1>1, <2>1, <3>2
      <4>2. z[p] = s[p] /\ z[p + 1] = s[p + 1] /\ z[p + 2] = s[p + 2]
        BY <1>0, <4>1 DEF L
      <4>3. s[p] # X \/ s[p + 1] # X \/ s[p + 2] # X
        BY <4>1 DEF NoThree, L
      <4> QED
        BY <4>2, <4>3
    <3> QED
      BY <3>1, <3>2
  <2>3. NoThree(z)
    BY <2>2 DEF NoThree
  <2> QED
    BY <1>2, <2>3
<1>3. CASE c # Space
  <2>1. n >= 2 /\ \A q \in 1..(n - 1) : MorseCode(c)[q] # X
    BY <1>3, SpacesAndLetters
  <2>2. \A q \in 1..(n - 1) : z[L + q] # X
    <3>1. \A q \in 1..(n - 1) : q \in 1..n
      BY <1>1
    <3> QED
      BY <1>0, <2>1, <3>1
  <2> HIDE DEF n, L
  <2>3. ASSUME NEW p \in 1..(Len(z) - 2) PROVE z[p] # X \/ z[p + 1] # X \/ z[p + 2] # X
    <3>1. CASE p <= L - 2
      <4>1. p \in 1..(L - 2) /\ p \in 1..L /\ p + 1 \in 1..L /\ p + 2 \in 1..L
        BY <1>1, <2>1, <3>1
      <4>2. z[p] = s[p] /\ z[p + 1] = s[p + 1] /\ z[p + 2] = s[p + 2]
        BY <1>0, <4>1 DEF L
      <4>3. s[p] # X \/ s[p + 1] # X \/ s[p + 2] # X
        BY <4>1 DEF NoThree, L
      <4> QED
        BY <4>2, <4>3
    <3>2. CASE p = L - 1
      <4>1. 1 \in 1..(n - 1) /\ p + 2 = L + 1
        BY <1>1, <2>1, <3>2
      <4>2. z[L + 1] # X
        BY <2>2, <4>1
      <4> QED
        BY <4>1, <4>2
    <3>3. CASE p >= L
      <4>1. p + 1 - L \in 1..(n - 1) /\ L + (p + 1 - L) = p + 1
        BY <1>1, <2>1, <3>3
      <4>2. z[L + (p + 1 - L)] # X
        BY <2>2, <4>1
      <4> QED
        BY <4>1, <4>2
    <3> QED
      BY <1>1, <3>1, <3>2, <3>3
  <2>4. NoThree(z)
    BY <2>3 DEF NoThree
  <2>5. Len(z) >= 2 /\ z[Len(z) - 1] # X
    <3> DEFINE m == Len(z)
    <3>0. m = L + n /\ L \in Nat /\ n \in Nat /\ n >= 2
      BY <1>1, <2>1
    <3> HIDE DEF m
    <3>1. n - 1 \in 1..(n - 1) /\ L + (n - 1) = m - 1 /\ m >= 2
      BY <3>0
    <3>2. z[L + (n - 1)] # X
      BY <2>2, <3>1
    <3> QED
      BY <3>1, <3>2 DEF m
  <2> QED
    BY <2>4, <2>5
<1> QED
  BY <1>2, <1>3

\* What is kept of the characters that have been read.
LineSoFar == Kept(Front(text))[Len(text) - Len(input)]

\* The symbols s are those of the line so far; those that are not pending are written.
Sending(s) ==
    /\ s \in Seq(0..2) /\ Spells(s, LineSoFar) /\ NoThree(s)
    /\ \/ prevSpace /\ (LineSoFar = <<>> \/ Last(LineSoFar) = Space)
       \/ /\ ~prevSpace /\ LineSoFar # <<>> /\ Last(LineSoFar) # Space
          /\ Len(s) >= 2 /\ s[Len(s) - 1] # X
    /\ IsRest(symbols, s)
    /\ Written(table, s, Len(s) - Len(symbols), output, buffer)

\* The code has the complete letters of the symbols s of the line and a separator.
EncodedBy(t, s, code) ==
    /\ s \in Seq(0..2) /\ Spells(s, Line)
    /\ code \in Seq(0..127) /\ Len(code) = (Len(s) + 1) \div 3
    /\ \A j \in 1..Len(code) : Lettered(t, Append(s, X), 3 * j - 3, code[j])

\* A run that works on the Morse code of a text of one line.
MorseRun == pc \in {"text", "done"} /\ job.cipher = "f" /\ KeyDistinct /\ MorseLine

\* The first run has written the symbols of what it has read of the text.
MorseEncode ==
    MorseRun /\ ~job.decode =>
        /\ IsRest(input, text)
        /\ input # <<>> => pc = "text" /\ \E s : Sending(s)
        /\ input = <<>> => symbols = <<>> /\ (WholeLine => \E s : EncodedBy(table, s, output))

\* The table, once it is filled.
LEMMA MorseTableFilled ==
    ASSUME IInv, TableIsAlphabet, MorseRun
    PROVE  /\ table \in Seq(Char) /\ Len(table) = 26 /\ IsInjective(table)
           /\ \A i \in 1..26 : table[i] # Newline
           /\ text \in Seq(Char)
<1>1. /\ table \in Seq(Char) /\ text \in Seq(Char) /\ pc \in Working \ {"table"}
      /\ \A i \in 1..Len(table) : Contains(Letters, table[i])
  BY DEF IInv, TypeOK, TableGrows, MorseRun, Working
<1>2. Letters = FmAlphabet /\ RoomForKey /\ KeyDistinct
  BY DEF MorseRun, Letters, Alphabet, RoomForKey
<1>3. Len(table) = 26 /\ IsInjective(table)
  BY <1>1, <1>2, AlphabetAssumption DEF TableIsAlphabet
<1>4. \A i \in 1..26 : table[i] # Newline
  BY <1>1, <1>2, <1>3, CiphersAssumption
<1> QED
  BY <1>1, <1>3, <1>4

LEMMA EncodeSymbolMorse ==
    ASSUME IInv, TableIsAlphabet, MorseEncode, EncodeSymbol
    PROVE  MorseEncode'
<1> SUFFICES ASSUME MorseRun' PROVE MorseEncode'
  BY DEF MorseEncode
<1>1. /\ pc = "text" /\ pc' = "text" /\ job.cipher = "f" /\ ~job.decode /\ symbols # <<>>
      /\ symbols' = Tail(symbols) /\ Push(Head(symbols))
      /\ UNCHANGED <<pc, args, job, table, k, input, half, prevSpace, triple, text>>
  BY DEF EncodeSymbol, NextSymbol
<1>2. MorseRun
  BY <1>1 DEF MorseRun, KeyDistinct, MorseLine
<1>3. IsRest(input, text) /\ input # <<>>
  BY <1>1, <1>2 DEF MorseEncode
<1>4. PICK s : Sending(s)
  BY <1>1, <1>2, <1>3 DEF MorseEncode
<1>5. /\ s \in Seq(0..2) /\ IsRest(symbols, s) /\ NoThree(s)
      /\ Written(table, s, Len(s) - Len(symbols), output, buffer)
      /\ symbols \in Seq(0..2) /\ buffer \in Seq(0..2) /\ output \in Seq(0..127)
  BY <1>1, <1>4 DEF Sending, IInv, TypeOK, Plain, X
<1>6. /\ IsRest(symbols', s) /\ Len(symbols') = Len(symbols) - 1 /\ Len(symbols) \in Nat \ {0}
      /\ Len(s) \in Nat /\ Len(symbols) <= Len(s)
      /\ Head(symbols) = s[Len(s) - Len(symbols) + 1]
  BY <1>1, <1>5, RestOfRest
<1> DEFINE m == Len(s) - Len(symbols)
<1>7. m \in 0..(Len(s) - 1) /\ m + 1 = Len(s) - Len(symbols')
  BY <1>6
<1>8. Written(table, s, m, output, buffer) /\ Push(s[m + 1])
  BY <1>1, <1>5, <1>6
<1> HIDE DEF m
<1>9. Written(table, s, m + 1, output', buffer')
  <2>1. table \in Seq(Char) /\ Len(table) = 26
    BY <1>2, MorseTableFilled
  <2> QED
    BY <1>5, <1>7, <1>8, <2>1, PushWrites
<1>10. Written(table, s, Len(s) - Len(symbols'), output', buffer')
  BY <1>7, <1>9
<1>11. Sending(s)'
  BY <1>1, <1>4, <1>6, <1>10 DEF Sending, LineSoFar
<1> QED
  BY <1>1, <1>3, <1>11 DEF MorseEncode, IsRest

\* What reading a character of the line tells of the step.
LEMMA EncodeFmReads ==
    ASSUME IInv, MorseEncode, EncodeFm, KeyDistinct, MorseLine
    PROVE  /\ MorseRun /\ ~job.decode /\ pc = "text" /\ symbols = <<>>
           /\ UNCHANGED <<args, job, table, k, text>>
           /\ input \in Seq(0..127) /\ input # <<>> /\ input' = Tail(input)
           /\ IsRest(input', text) /\ Len(input') = Len(input) - 1
           /\ Len(input) \in Nat \ {0} /\ Len(text) \in Nat /\ Len(input) <= Len(text)
           /\ Head(input) = text[Len(text) - Len(input) + 1]
           /\ \E s : Sending(s)
<1>1. /\ pc = "text" /\ job.cipher = "f" /\ ~job.decode /\ symbols = <<>>
      /\ input # <<>> /\ input' = Tail(input)
      /\ UNCHANGED <<args, job, table, k, text>>
  BY DEF EncodeFm, Reading
<1>2. MorseRun
  BY <1>1 DEF MorseRun
<1>3. IsRest(input, text) /\ \E s : Sending(s)
  BY <1>1, <1>2 DEF MorseEncode
<1>4. input \in Seq(0..127) /\ text \in Seq(Char)
  BY DEF IInv, TypeOK
<1> QED
  BY <1>1, <1>2, <1>3, <1>4, RestOfRest

\* What is pending when a letter has been read is its code.
LEMMA AllPending ==
    ASSUME NEW s \in Seq(0..2), NEW e \in Seq(0..2), NEW z \in Seq(0..2),
           Len(z) = Len(s) + Len(e), \A q \in 1..Len(e) : z[Len(s) + q] = e[q]
    PROVE  IsRest(e, z) /\ Len(z) - Len(e) = Len(s)
<1>1. Len(s) \in Nat /\ Len(e) \in Nat
  OBVIOUS
<1>2. Len(z) - Len(e) = Len(s) /\ Len(e) <= Len(z)
  BY <1>1
<1> QED
  BY <1>2 DEF IsRest

LEMMA NothingPending ==
    ASSUME NEW s \in Seq(0..2)
    PROVE  IsRest(<<>>, s) /\ Len(s) - Len(<<>>) = Len(s) /\ Len(s) \in 0..Len(s)
<1>1. Len(s) \in Nat /\ Len(<<>>) = 0
  BY EmptySeq
<1>2. 1..0 = {}
  OBVIOUS
<1> QED
  BY <1>1, <1>2 DEF IsRest

LEMMA SendingNext ==
    ASSUME NEW z \in Seq(0..2), Spells(z, LineSoFar'), NoThree(z),
           \/ prevSpace' /\ (LineSoFar' = <<>> \/ Last(LineSoFar') = Space)
           \/ /\ ~prevSpace' /\ LineSoFar' # <<>> /\ Last(LineSoFar') # Space
              /\ Len(z) >= 2 /\ z[Len(z) - 1] # X,
           IsRest(symbols', z),
           Written(table', z, Len(z) - Len(symbols'), output', buffer')
    PROVE  Sending(z)'
BY Zenon DEF Sending

\* A character of the line is read: its symbols are pending, or they are used.
LEMMA CharacterSent ==
    ASSUME IInv, TableIsAlphabet, MorseEncode, EncodeFm, KeyDistinct, MorseLine,
           NEW s, Sending(s), Len(input) > 1
    PROVE  \E z : Sending(z)'
<1> DEFINE i == Len(text) - Len(input)
           t == Front(text)
           l == LineSoFar
<1>c. PICK c : c = Head(input)
  OBVIOUS
<1> DEFINE e == MorseCode(c)
           z == s \o e
<1>1. /\ MorseRun /\ symbols = <<>> /\ UNCHANGED <<args, job, table, k, text>>
      /\ Len(input) \in Nat /\ Len(text) \in Nat /\ Len(input) <= Len(text) /\ c = text[i + 1]
  BY <1>c, EncodeFmReads
<1>2. /\ table \in Seq(Char) /\ Len(table) = 26 /\ text \in Seq(Char)
      /\ output \in Seq(0..127) /\ buffer \in Seq(0..2) /\ prevSpace \in BOOLEAN
  <2>1. ~job.decode
    BY DEF EncodeFm, Reading
  <2> QED
    BY <1>1, <2>1, MorseTableFilled DEF IInv, TypeOK, Plain, X
<1>3. Encodable(t) /\ Len(t) = Len(text) - 1 /\ \A j \in 1..(Len(text) - 1) : t[j] = text[j] /\ InLine(text[j])
  BY <1>2, LineOfText DEF Encodable
<1>4. i \in 0..Len(t) /\ i + 1 \in 1..Len(t) /\ i + 1 \in 1..(Len(text) - 1) /\ (i + 1) - 1 = i
  BY <1>1, <1>3
<1>5. Tidy(l) /\ Kept(t)[i + 1] = KeptMore(l, t[i + 1])
  <2>1. \A n \in 1..Len(t) : Kept(t)[n] = KeptMore(Kept(t)[n - 1], t[n])
    BY <1>3, KeptTidy
  <2>2. Kept(t)[i + 1] = KeptMore(Kept(t)[(i + 1) - 1], t[i + 1])
    BY <1>4, <2>1, Zenon
  <2>3. \A n \in 0..Len(t) : Tidy(Kept(t)[n])
    BY <1>3, KeptTidy
  <2>4. l = Kept(t)[i]
    BY DEF LineSoFar
  <2> QED
    BY <1>4, <2>2, <2>3, <2>4
<1>6. InLine(c) /\ Kept(t)[i + 1] = KeptMore(l, c)
  BY <1>1, <1>3, <1>4, <1>5
<1>7. l \in Seq(Char) /\ \A j \in 1..Len(l) : InLine(l[j])
  BY <1>5 DEF Tidy
<1>8. /\ s \in Seq(0..2) /\ Spells(s, l) /\ NoThree(s)
      /\ \/ prevSpace /\ (l = <<>> \/ Last(l) = Space)
         \/ ~prevSpace /\ l # <<>> /\ Last(l) # Space /\ Len(s) >= 2 /\ s[Len(s) - 1] # X
  BY DEF Sending
<1>9. Written(table, s, Len(s), output, buffer) /\ Len(s) \in 0..Len(s) /\ Len(s) \in Nat
  <2>1. Written(table, s, Len(s) - Len(<<>>), output, buffer)
    BY <1>1 DEF Sending
  <2> QED
    BY <1>8, <2>1, NothingPending
<1>11. LineSoFar' = KeptMore(l, c)
  <2>1. Len(text) - Len(input') = i + 1
    <3>1. Len(input') = Len(input) - 1
      BY EncodeFmReads
    <3> QED
      BY <1>1, <3>1
  <2> HIDE DEF i, l
  <2> QED
    BY <1>1, <1>6, <2>1 DEF LineSoFar
<1> HIDE DEF i, t, l
<1>12. CASE c = Space /\ prevSpace
  <2>1. output' = output /\ buffer' = buffer /\ symbols' = symbols /\ prevSpace'
    <3>0. ~Separates
      BY <1>12 DEF Separates
    <3>4. (Separates /\ Push(X)) \/ UNCHANGED <<output, buffer>>
      <4>1. Head(input) # Newline /\ ~(Head(input) \notin {Newline, Space})
        BY <1>c, <1>12 DEF Newline, Space
      <4>2. IF Separates THEN Push(X) ELSE UNCHANGED <<output, buffer>>
        BY <4>1, Zenon DEF EncodeFm
      <4> QED
        BY <4>2, Zenon
    <3>1. output' = output /\ buffer' = buffer
      BY <3>0, <3>4
    <3>2. symbols' = symbols
      BY <1>c, <1>12 DEF EncodeFm, Newline, Space
    <3>3. prevSpace'
      BY <1>c, <1>12 DEF EncodeFm, Newline, Space
    <3> QED
      BY <3>1, <3>2, <3>3
  <2>2. KeptMore(l, c) = l
    BY <1>8, <1>12 DEF KeptMore
  <2>3. IsRest(symbols', s) /\ Len(s) - Len(symbols') = Len(s)
    BY <1>1, <1>8, <2>1, NothingPending
  <2>4. Written(table', s, Len(s) - Len(symbols'), output', buffer')
    BY <1>1, <1>9, <2>1, <2>3
  <2>5. Spells(s, LineSoFar') /\ prevSpace' /\ (LineSoFar' = <<>> \/ Last(LineSoFar') = Space)
    BY <1>8, <1>11, <1>12, <2>1, <2>2, Zenon
  <2>6. Sending(s)'
    BY <1>8, <2>3, <2>4, <2>5, SendingNext, Zenon
  <2> QED
    BY <2>6
<1>13. CASE ~(c = Space /\ prevSpace)
  <2>1. KeptMore(l, c) = Append(l, c)
    BY <1>8, <1>13 DEF KeptMore
  <2>2. e \in Seq(0..2) /\ Len(e) \in Nat \ {0} /\ c # Newline
    BY <1>6, SpacesAndLetters
  <2>9. z \in Seq(0..2) /\ Joined(z, s, e) /\ Spells(z, Append(l, c))
    BY <1>6, <1>7, <1>8, SpellsMore
  <2>3. /\ z \in Seq(0..2) /\ Len(z) = Len(s) + Len(e)
        /\ \A p \in 1..Len(s) : z[p] = s[p]
        /\ \A q \in 1..Len(e) : z[Len(s) + q] = e[q]
        /\ Spells(z, Append(l, c))
    BY <2>9 DEF Joined
  <2> HIDE DEF z
  <2>4. NoThree(z) /\ (c # Space => Len(z) >= 2 /\ z[Len(z) - 1] # X)
    <3>1. c = Space => Len(s) >= 2 /\ s[Len(s) - 1] # X
      BY <1>8, <1>13
    <3> QED
      BY <1>6, <1>8, <2>9, <3>1, NoThreeMore, SMTT(30)
  <2>5. Last(Append(l, c)) = c /\ Append(l, c) # <<>>
    <3>1. /\ Len(Append(l, c)) = Len(l) + 1 /\ Append(l, c)[Len(l) + 1] = c
          /\ Append(l, c) # <<>>
      BY <1>6, <1>7, SpacesAndLetters, AppendProperties
    <3> QED
      BY <3>1 DEF Last
  <2>6. Written(table, z, Len(s), output, buffer)
    <3>1. Len(s) <= Len(z)
      BY <1>9, <2>2, <2>3
    <3> QED
      BY <1>2, <1>8, <1>9, <2>3, <3>1, WrittenLonger
  <2>7. CASE c = Space
    <3>1. Push(X) /\ symbols' = symbols /\ prevSpace'
      BY <1>c, <1>13, <2>7 DEF EncodeFm, Separates, Newline, Space
    <3>2. Len(e) = 1 /\ e[1] = X
      BY <2>7 DEF MorseCode
    <3>3. Len(z) = Len(s) + 1 /\ z[Len(s) + 1] = X /\ Len(s) \in 0..(Len(z) - 1)
      <4>1. 1 \in 1..Len(e)
        BY <3>2
      <4>2. Len(z) = Len(s) + 1
        BY <2>3, <3>2
      <4> QED
        BY <1>9, <2>3, <3>2, <4>1, <4>2
    <3>4. Push(z[Len(s) + 1])
      BY <3>1, <3>3
    <3>5. Written(table, z, Len(s) + 1, output', buffer')
      BY <1>2, <2>3, <2>4, <2>6, <3>3, <3>4, PushWrites
    <3>6. IsRest(symbols', z) /\ Len(z) - Len(symbols') = Len(s) + 1
      BY <1>1, <2>3, <3>1, <3>3, NothingPending
    <3>7. Sending(z)'
      <4>1. Written(table', z, Len(z) - Len(symbols'), output', buffer')
        BY <1>1, <3>5, <3>6
      <4>2. Spells(z, LineSoFar') /\ prevSpace' /\ Last(LineSoFar') = Space
        BY <1>11, <2>1, <2>5, <2>7, <2>9, <3>1, Zenon
      <4> QED
        BY <2>4, <2>9, <3>6, <4>1, <4>2, SendingNext, Zenon
    <3> QED
      BY <3>7
  <2>8. CASE c # Space
    <3>1. c \in DOMAIN MorseTable /\ e = Append(MorseTable[c], X) /\ MorseTable[c] # <<>>
      BY <1>6, <2>8 DEF InLine, InMorse, MorseCode
    <3>2. symbols' = e /\ output' = output /\ buffer' = buffer /\ ~prevSpace'
      BY <1>c, <2>2, <2>8, <3>1 DEF EncodeFm
    <3>3. IsRest(symbols', z) /\ Len(z) - Len(symbols') = Len(s)
      BY <1>8, <2>2, <2>3, <3>2, AllPending
    <3>4. Sending(z)'
      <4>1. Written(table', z, Len(z) - Len(symbols'), output', buffer')
        BY <1>1, <2>6, <3>2, <3>3
      <4>2. /\ Spells(z, LineSoFar')
            /\ ~prevSpace' /\ LineSoFar' # <<>> /\ Last(LineSoFar') # Space
        BY <1>11, <2>1, <2>5, <2>8, <2>9, <3>2, Zenon
      <4>3. Len(z) >= 2 /\ z[Len(z) - 1] # X
        BY <2>4, <2>8
      <4> QED
        BY <2>4, <2>9, <3>3, <4>1, <4>2, <4>3, SendingNext, Zenon
    <3> QED
      BY <3>4
  <2> QED
    BY <2>7, <2>8
<1> QED
  BY <1>12, <1>13

LEMMA UpToTwo ==
    ASSUME NEW n \in Nat, n <= 2
    PROVE  n \in 0..2
OBVIOUS

LEMMA ThirdOf ==
    ASSUME NEW i \in Nat, NEW b \in 0..2
    PROVE  ((3 * i + b) + 1) \div 3 = IF b < 2 THEN i ELSE i + 1
<1>1. b \in {0, 1, 2}
  OBVIOUS
<1> QED
  BY <1>1

\* The newline is read: a letter is written that the separator of the line completes.
LEMMA NewlineSent ==
    ASSUME IInv, TableIsAlphabet, MorseEncode, EncodeFm, KeyDistinct, MorseLine, WholeLine,
           NEW s, Sending(s), Len(input) = 1
    PROVE  EncodedBy(table, s, output')
<1>1. /\ MorseRun /\ symbols = <<>> /\ Len(text) \in Nat /\ Len(input) <= Len(text)
      /\ Head(input) = text[Len(text) - Len(input) + 1]
  BY EncodeFmReads
<1>2. /\ table \in Seq(Char) /\ Len(table) = 26 /\ text \in Seq(Char)
      /\ output \in Seq(0..127) /\ buffer \in Seq(0..2) /\ Len(output) \in Nat /\ Len(buffer) \in Nat
  <2>1. /\ table \in Seq(Char) /\ Len(table) = 26 /\ text \in Seq(Char)
        /\ output \in Seq(0..127) /\ buffer \in Seq(0..2)
    <3>1. ~job.decode
      BY DEF EncodeFm, Reading
    <3> QED
      BY <1>1, <3>1, MorseTableFilled DEF IInv, TypeOK, Plain, X
  <2> QED
    BY <2>1
<1>3. Line = LineSoFar /\ text[Len(text)] = Newline
  BY <1>2, LineOfText DEF LineSoFar
<1>4. Head(input) = Newline
  <2>1. Len(text) - Len(input) + 1 = Len(text)
    BY <1>1
  <2> QED
    BY <1>1, <1>3, <2>1
<1>5. output' = IF Len(buffer) < 2 THEN output ELSE output \o KeyLetter(Append(buffer, X))
  <2>1. Head(input) # Space
    BY <1>4 DEF Newline, Space
  <2> QED
    BY <1>4, <2>1 DEF EncodeFm
<1>6. /\ s \in Seq(0..2) /\ Spells(s, Line) /\ Len(s) \in Nat
      /\ Len(s) >= 2 /\ s[Len(s) - 1] # X
  BY <1>3 DEF Sending, WholeLine
<1>7. Written(table, s, Len(s), output, buffer) /\ Len(s) \in 0..Len(s)
  <2>1. Written(table, s, Len(s) - Len(<<>>), output, buffer)
    BY <1>1 DEF Sending
  <2> QED
    BY <1>6, <2>1, NothingPending
<1> DEFINE z == Append(s, X)
<1>8. /\ z \in Seq(0..2) /\ Len(z) = Len(s) + 1 /\ z[Len(s) + 1] = X
      /\ \A p \in 1..Len(s) : z[p] = s[p]
  <2>1. X \in 0..2
    BY DEF X
  <2> QED
    BY <1>6, <2>1, AppendProperties
<1>9. Written(table, z, Len(s), output, buffer)
  <2> HIDE DEF z
  <2>1. Len(s) <= Len(z)
    BY <1>6, <1>8
  <2> QED
    BY <1>2, <1>6, <1>7, <1>8, <2>1, WrittenLonger
<1> HIDE DEF z
<1>10. Len(s) = 3 * Len(output) + Len(buffer) /\ Len(buffer) \in 0..2 /\ Len(buffer) <= 2
  <2>1. Len(s) = 3 * Len(output) + Len(buffer) /\ Len(buffer) <= 2
    BY <1>7 DEF Written
  <2>2. Len(buffer) \in 0..2
    BY <1>2, <2>1, UpToTwo, Zenon
  <2> QED
    BY <2>1, <2>2
<1>11. (Len(s) + 1) \div 3 = IF Len(buffer) < 2 THEN Len(output) ELSE Len(output) + 1
  BY <1>2, <1>10, ThirdOf
<1>12. CASE Len(buffer) < 2
  <2>1. output' = output
    BY <1>5, <1>12
  <2>2. \A j \in 1..Len(output) : Lettered(table, z, 3 * j - 3, output[j])
    BY <1>9 DEF Written
  <2>3. Len(output) = (Len(s) + 1) \div 3
    BY <1>11, <1>12
  <2> QED
    BY <1>2, <1>6, <2>1, <2>2, <2>3 DEF EncodedBy, z
<1>13. CASE ~(Len(buffer) < 2)
  <2>1. Len(buffer) = 2
    BY <1>2, <1>10, <1>13, Two, Zenon
  <2>2. output' = output \o KeyLetter(Append(buffer, z[Len(s) + 1]))
    BY <1>5, <1>8, <1>13
  <2>3. Len(s) \in 0..(Len(z) - 1) /\ Len(s) - 1 \in 1..Len(s)
    BY <1>6, <1>8
  <2>4. z[Len(s) - 1] # X
    BY <1>6, <1>8, <2>3
  <2>5. /\ output' \in Seq(0..127) /\ Len(output') = Len(output) + 1
        /\ \A j \in 1..Len(output') : Lettered(table, z, 3 * j - 3, output'[j])
    BY <1>2, <1>8, <1>9, <2>1, <2>2, <2>3, <2>4, ThirdSymbol
  <2>6. Len(output') = (Len(s) + 1) \div 3
    BY <1>11, <1>13, <2>5
  <2> QED
    BY <1>6, <2>5, <2>6 DEF EncodedBy, z
<1> QED
  BY <1>12, <1>13

LEMMA EncodeFmMorse ==
    ASSUME IInv, TableIsAlphabet, MorseEncode, EncodeFm
    PROVE  MorseEncode'
<1> SUFFICES ASSUME MorseRun' PROVE MorseEncode'
  BY DEF MorseEncode
<1>1. UNCHANGED <<args, job, table, k, text>> /\ pc' \in {"text", "done"}
  BY DEF EncodeFm, MorseRun
<1>2. KeyDistinct /\ MorseLine
  BY <1>1 DEF MorseRun, KeyDistinct, MorseLine
<1>3. PICK s : Sending(s)
  BY <1>2, EncodeFmReads
<1>4. /\ pc = "text" /\ ~job.decode /\ symbols = <<>> /\ input' = Tail(input)
      /\ IsRest(input', text) /\ Len(input') = Len(input) - 1 /\ Len(input) \in Nat \ {0}
      /\ input \in Seq(0..127) /\ input # <<>>
      /\ Len(text) \in Nat /\ Len(input) <= Len(text)
      /\ Head(input) = text[Len(text) - Len(input) + 1]
  BY <1>2, EncodeFmReads
<1>5. pc' = "text"
  BY <1>1, <1>4 DEF EncodeFm
<1>6. input' \in Seq(0..127)
  BY <1>4, HeadTailProperties
<1>7. CASE Len(input) = 1
  <2>1. Len(input') = 0
    BY <1>4, <1>7
  <2>2. input' = <<>>
    BY <1>6, <2>1, EmptySeq
  <2>3. symbols' = <<>>
    <3>1. text[Len(text)] = Newline /\ Len(text) - Len(input) + 1 = Len(text)
      <4>1. text \in Seq(Char)
        BY DEF IInv, TypeOK
      <4> QED
        BY <1>2, <1>4, <1>7, <4>1, LineOfText
    <3>2. Head(input) = Newline /\ Head(input) # Space
      BY <1>4, <3>1 DEF Newline, Space
    <3> QED
      BY <1>4, <3>2 DEF EncodeFm
  <2>4. WholeLine => EncodedBy(table, s, output')
    BY <1>2, <1>3, <1>7, NewlineSent
  <2>5. WholeLine' => EncodedBy(table, s, output)'
    BY <1>1, <2>4 DEF WholeLine, Line, EncodedBy
  <2> QED
    BY <1>1, <1>4, <2>2, <2>3, <2>5 DEF MorseEncode, IsRest
<1>8. CASE Len(input) # 1
  <2>1. Len(input) > 1
    BY <1>4, <1>8
  <2>2. \E z : Sending(z)'
    BY <1>2, <1>3, <2>1, CharacterSent
  <2>3. input' # <<>>
    <3>1. Len(input') # 0
      BY <1>4, <2>1
    <3> QED
      BY <3>1, Nothing
  <2> QED
    BY <1>1, <1>4, <1>5, <2>2, <2>3 DEF MorseEncode, IsRest
<1> QED
  BY <1>7, <1>8

-----------------------------------------------------------------------------
(* The second run decodes it *)

\* Of the symbols of the line p have been used, and the first n characters are
\* written: all of their symbols are used, or some of the next letter as well.
Between(p, n) ==
    /\ n \in 0..Len(Line) /\ p = Ends(Line)[n]
    /\ buffer = IF n = 0 \/ Line[n] = Space THEN <<>> ELSE <<X>>

Within(p, n) ==
    /\ n \in 0..(Len(Line) - 1) /\ Line[n + 1] # Space
    /\ Len(buffer) \in 1..Len(MorseTable[Line[n + 1]])
    /\ p = Ends(Line)[n] + Len(buffer)
    /\ \A q \in 1..Len(buffer) : buffer[q] = MorseTable[Line[n + 1]][q]

Decoding(p, n) ==
    /\ Len(output) = n /\ \A i \in 1..n : output[i] = LegibleLine[i]
    /\ Between(p, n) \/ Within(p, n)

\* The separator of the line has been used.
LineEnded(p) == p = Ends(Line)[Len(Line)] + 1 /\ output = Append(LegibleLine, Space)

\* The letters of the code that have been read are used, but for what is pending.
CodeRead(code, s, p) ==
    /\ EncodedBy(table, s, code)
    /\ IsRest(input, code)
    /\ Len(symbols) <= 3 * (Len(code) - Len(input))
    /\ p = 3 * (Len(code) - Len(input)) - Len(symbols)
    /\ \A q \in 1..Len(symbols) : symbols[q] = Append(s, X)[p + q]

\* The second run has written the characters of the symbols it has used.
MorseDecode ==
    MorseRun /\ job.decode /\ WholeLine /\ tail = <<>> =>
        /\ \E code, s, p : CodeRead(code, s, p) /\ (LineEnded(p) \/ \E n : Decoding(p, n))
        /\ pc = "done" => input = <<>> /\ symbols = <<>>

\* findMorse finds the only character that has the code, if it sees its end.
LEMMA MorseFound ==
    ASSUME NEW c, InLine(c), c # Space
    PROVE  FindMorse(MorseTable[c]) = Legible(c)
<1>1. c \in DOMAIN MorseTable /\ MorseTable[c] # <<>>
  BY DEF InLine, InMorse
<1>2. \A d \in DOMAIN MorseTable : MorseTable[d] = MorseTable[c] => d = c
  BY <1>1, CiphersAssumption
<1>3. PICK m : m = Len(MorseTable[c])
  OBVIOUS
<1>4. ByteBehindIsZero(MorseTable[c]) <=> ~(dirty /\ Len(MorseTable[c]) = 6)
  <2>1. MorseTable[c] \in Seq({0, 1}) /\ Len(MorseTable[c]) <= 6
    BY <1>1, CiphersAssumption
  <2>2. m \in Nat /\ m <= 6
    BY <1>3, <2>1
  <2>3. m < 6 <=> m # 6
    BY <2>2
  <2> QED
    BY <1>3, <2>3 DEF ByteBehindIsZero
<1> QED
  BY <1>1, <1>2, <1>4, Zenon DEF FindMorse, Legible

LEMMA SeqOfFunction ==
    ASSUME NEW n \in Nat, NEW S, NEW f \in [1..n -> S]
    PROVE  f \in Seq(S) /\ Len(f) = n
OBVIOUS

\* What is legible of the line is as long as the line.
LEMMA LegibleTyped ==
    ASSUME Tidy(Line)
    PROVE  /\ LegibleLine \in Seq(0..127) /\ Len(LegibleLine) = Len(Line)
           /\ \A i \in 1..Len(Line) : LegibleLine[i] = Legible(Line[i])
<1>1. Line \in Seq(Char) /\ Len(Line) \in Nat /\ DOMAIN Line = 1..Len(Line)
  BY DEF Tidy
<1>2. \A i \in 1..Len(Line) : Legible(Line[i]) \in 0..127
  <2>1. \A c \in Char : c \in 0..127
    BY DEF Char
  <2>2. Space \in 0..127
    BY DEF Space
  <2>3. \A i \in 1..Len(Line) : Line[i] \in 0..127
    <3>1. \A i \in 1..Len(Line) : Line[i] \in Char
      BY <1>1, ElementOfSeq
    <3> QED
      BY <2>1, <3>1
  <2> QED
    BY <2>2, <2>3, Zenon DEF Legible
<1>3. LegibleLine \in [1..Len(Line) -> 0..127]
  BY <1>1, <1>2 DEF LegibleLine
<1>4. \A i \in 1..Len(Line) : LegibleLine[i] = Legible(Line[i])
  BY <1>1 DEF LegibleLine
<1>5. LegibleLine \in Seq(0..127) /\ Len(LegibleLine) = Len(Line)
  BY <1>1, <1>3, SeqOfFunction
<1> QED
  BY <1>4, <1>5

LEMMA LegibleStays ==
    ASSUME Line' = Line, dirty' = dirty
    PROVE  LegibleLine' = LegibleLine
BY DEF LegibleLine, Legible

\* The symbols of the line, and behind them that of the line.
LEMMA LineSymbols ==
    ASSUME Tidy(Line), NEW s \in Seq(0..2), Spells(s, Line)
    PROVE  /\ Append(s, X) \in Seq(0..2) /\ Len(Append(s, X)) = Ends(Line)[Len(Line)] + 1
           /\ Append(s, X)[Ends(Line)[Len(Line)] + 1] = X
           /\ \A n \in 0..(Len(Line) - 1) :
                 /\ InLine(Line[n + 1])
                 /\ Ends(Line)[n + 1] = Ends(Line)[n] + Len(MorseCode(Line[n + 1]))
                 /\ Ends(Line)[n] \in Nat
                 /\ \A q \in 1..Len(MorseCode(Line[n + 1])) :
                       Append(s, X)[Ends(Line)[n] + q] = MorseCode(Line[n + 1])[q]
<1> DEFINE z == Append(s, X)
           N == Len(Line)
<1>1. /\ Line \in Seq(Char) /\ \A i \in 1..N : InLine(Line[i])
      /\ N \in Nat
  BY DEF Tidy
<1>2. /\ \A n \in 0..N : Ends(Line)[n] \in Nat
      /\ \A n \in 1..N : Ends(Line)[n] = Ends(Line)[n - 1] + Len(MorseCode(Line[n]))
      /\ \A n \in 0..N : Ends(Line)[n] <= Ends(Line)[N]
  <2>1. ASSUME NEW n \in 0..N PROVE Ends(Line)[n] <= Ends(Line)[N]
    <3>1. N \in n..N
      BY <1>1
    <3> QED
      BY <1>1, <3>1, EndsRise
  <2> QED
    BY <1>1, <2>1, EndsCount
<1>3. Len(s) = Ends(Line)[N] /\ Len(s) \in Nat
  BY DEF Spells
<1>4. /\ z \in Seq(0..2) /\ Len(z) = Len(s) + 1 /\ z[Len(s) + 1] = X
      /\ \A p \in 1..Len(s) : z[p] = s[p]
  <2>1. X \in 0..2
    BY DEF X
  <2> QED
    BY <2>1, AppendProperties
<1> HIDE DEF z
<1>5. ASSUME NEW n \in 0..(N - 1)
      PROVE  /\ InLine(Line[n + 1])
             /\ Ends(Line)[n + 1] = Ends(Line)[n] + Len(MorseCode(Line[n + 1]))
             /\ Ends(Line)[n] \in Nat
             /\ \A q \in 1..Len(MorseCode(Line[n + 1])) :
                   z[Ends(Line)[n] + q] = MorseCode(Line[n + 1])[q]
  <2>1. n + 1 \in 1..N /\ n \in 0..N /\ n + 1 \in 0..N /\ (n + 1) - 1 = n
    BY <1>1
  <2>2. /\ InLine(Line[n + 1]) /\ Ends(Line)[n] \in Nat
        /\ Ends(Line)[n + 1] = Ends(Line)[n] + Len(MorseCode(Line[n + 1]))
        /\ Ends(Line)[n + 1] <= Len(s)
    <3>1. Ends(Line)[n + 1] = Ends(Line)[(n + 1) - 1] + Len(MorseCode(Line[n + 1]))
      BY <1>2, <2>1, Zenon
    <3> QED
      BY <1>1, <1>2, <1>3, <2>1, <3>1
  <2>3. ASSUME NEW q \in 1..Len(MorseCode(Line[n + 1]))
        PROVE  z[Ends(Line)[n] + q] = MorseCode(Line[n + 1])[q]
    <3>1. Len(MorseCode(Line[n + 1])) \in Nat
      BY <2>2, SpacesAndLetters
    <3>2. Ends(Line)[n] + q \in 1..Len(s)
      BY <1>3, <2>2, <3>1
    <3>3. s[Ends(Line)[(n + 1) - 1] + q] = MorseCode(Line[n + 1])[q]
      BY <2>1 DEF Spells
    <3> QED
      BY <1>4, <2>1, <3>2, <3>3
  <2> QED
    BY <2>2, <2>3
<1> QED
  BY <1>3, <1>4, <1>5 DEF z

LEMMA WithinNext ==
    ASSUME NEW p, NEW n, Line' = Line,
           Len(output') = n, \A i \in 1..n : output'[i] = LegibleLine'[i],
           n \in 0..(Len(Line) - 1) /\ Line[n + 1] # Space,
           Len(buffer') \in 1..Len(MorseTable[Line[n + 1]]),
           p = Ends(Line)[n] + Len(buffer'),
           \A q \in 1..Len(buffer') : buffer'[q] = MorseTable[Line[n + 1]][q]
    PROVE  Decoding(p, n)'
BY Zenon DEF Decoding, Within

LEMMA DecodingNext ==
    ASSUME NEW p, NEW n, Line' = Line,
           Len(output') = n, \A i \in 1..n : output'[i] = LegibleLine'[i],
           \/ /\ n \in 0..Len(Line) /\ p = Ends(Line)[n]
              /\ buffer' = IF n = 0 \/ Line[n] = Space THEN <<>> ELSE <<X>>
           \/ /\ n \in 0..(Len(Line) - 1) /\ Line[n + 1] # Space
              /\ Len(buffer') \in 1..Len(MorseTable[Line[n + 1]])
              /\ p = Ends(Line)[n] + Len(buffer')
              /\ \A q \in 1..Len(buffer') : buffer'[q] = MorseTable[Line[n + 1]][q]
    PROVE  Decoding(p, n)'
BY Zenon DEF Decoding, Between, Within

\* A character more is written.
LEMMA OneMoreWritten ==
    ASSUME NEW n, NEW c \in 0..127, output \in Seq(0..127), Len(output) = n,
           \A i \in 1..n : output[i] = LegibleLine[i], LegibleLine' = LegibleLine,
           output' = Append(output, c), c = LegibleLine[n + 1]
    PROVE  Len(output') = n + 1 /\ \A i \in 1..(n + 1) : output'[i] = LegibleLine'[i]
<1>1. /\ Len(output') = n + 1 /\ output'[n + 1] = c /\ n \in Nat
      /\ \A i \in 1..n : output'[i] = output[i]
  BY AppendProperties
<1>2. ASSUME NEW i \in 1..(n + 1) PROVE output'[i] = LegibleLine'[i]
  <2>1. CASE i = n + 1
    BY <1>1, <2>1
  <2>2. CASE i # n + 1
    <3>1. i \in 1..n
      BY <1>1, <2>2
    <3> QED
      BY <1>1, <3>1
  <2> QED
    BY <2>1, <2>2
<1> QED
  BY <1>1, <1>2

\* What using a symbol does.
LEMMA SymbolUsed ==
    ASSUME IInv, DecodeSymbol
    PROVE  /\ Head(symbols) = X /\ Separated => output' = Append(output, Space) /\ buffer' = <<>>
           /\ Head(symbols) = X /\ ~Separated =>
                 output' = Append(output, FindMorse(buffer)) /\ buffer' = <<X>>
           /\ Head(symbols) # X =>
                 /\ buffer' = IF Separated THEN <<Head(symbols)>> ELSE Append(buffer, Head(symbols))
                 /\ output' = output
           /\ UNCHANGED <<args, job, table, k, input, tail, text>> /\ Line' = Line
           /\ Len(buffer') # 7 => LegibleLine' = LegibleLine
<1>1. UNCHANGED text /\ Line' = Line
  BY DEF DecodeSymbol, Line
<1>2. ASSUME Len(buffer') # 7 PROVE LegibleLine' = LegibleLine
  <2>1. dirty' = dirty
    BY <1>2 DEF DecodeSymbol, IInv, TypeOK
  <2> QED
    BY <1>1, <2>1, LegibleStays
<1> QED
  BY <1>1, <1>2 DEF DecodeSymbol

\* The next symbol is the first one of a character, or the separator of the line.
LEMMA DecodeFirst ==
    ASSUME IInv, DecodeSymbol, Tidy(Line), WholeLine,
           NEW s \in Seq(0..2), Spells(s, Line), NEW p \in Nat, p + 1 <= Len(Append(s, X)),
           Head(symbols) = Append(s, X)[p + 1],
           NEW n, Len(output) = n, \A i \in 1..n : output[i] = LegibleLine[i], Between(p, n)
    PROVE  LineEnded(p + 1)' \/ \E m : Decoding(p + 1, m)'
<1> DEFINE N == Len(Line)
           z == Append(s, X)
<1>1. /\ n \in 0..N /\ p = Ends(Line)[n]
      /\ buffer = IF n = 0 \/ Line[n] = Space THEN <<>> ELSE <<X>>
  BY DEF Between
<1>2. /\ N \in Nat /\ N # 0 /\ Line[N] # Space /\ Line[1] # Space
      /\ \A i \in 2..N : Line[i] = Space => Line[i - 1] # Space
      /\ Line \in Seq(Char)
  BY EmptySeq DEF Tidy, WholeLine, Last
<1>3. output \in Seq(0..127) /\ Len(<<>>) # 7 /\ Len(<<Head(symbols)>>) # 7
  BY EmptySeq DEF IInv, TypeOK
<1>6. /\ LegibleLine \in Seq(0..127) /\ Len(LegibleLine) = N
      /\ \A i \in 1..N : LegibleLine[i] = Legible(Line[i])
  BY LegibleTyped
<1>4. CASE n = N
  <2>1. Head(symbols) = X
    BY <1>1, <1>4, LineSymbols
  <2>2. Separated
    <3>1. buffer = <<X>>
      BY <1>1, <1>2, <1>4
    <3> QED
      BY <3>1 DEF Separated
  <2>3. output' = Append(output, Space) /\ Line' = Line /\ LegibleLine' = LegibleLine
    BY <1>3, <2>1, <2>2, SymbolUsed
  <2>4. output = LegibleLine
    BY <1>3, <1>4, <1>6, SeqEqual
  <2>5. LineEnded(p + 1)'
    BY <1>1, <1>4, <2>3, <2>4 DEF LineEnded
  <2> QED
    BY <2>5
<1>5. CASE n # N
  <2>1. n \in 0..(N - 1) /\ n + 1 \in 0..N
    BY <1>1, <1>2, <1>5
  <2> DEFINE c == Line[n + 1]
  <2>2. /\ InLine(c) /\ Ends(Line)[n + 1] = p + Len(MorseCode(c))
        /\ \A q \in 1..Len(MorseCode(c)) : z[p + q] = MorseCode(c)[q]
    BY <1>1, <2>1, LineSymbols
  <2>3. CASE c = Space
    <3>1. Len(MorseCode(c)) = 1 /\ MorseCode(c)[1] = X
      BY <2>3 DEF MorseCode
    <3>2. Head(symbols) = X /\ Ends(Line)[n + 1] = p + 1
      BY <2>2, <3>1
    <3>3. buffer = <<X>>
      <4>1. n # 0
        BY <1>2, <2>3
      <4>2. n + 1 \in 2..N /\ (n + 1) - 1 = n
        BY <2>1, <4>1
      <4>3. Line[n] # Space
        BY <1>2, <2>3, <4>2
      <4> QED
        BY <1>1, <4>1, <4>3
    <3>4. Separated
      BY <3>3 DEF Separated
    <3>5. /\ output' = Append(output, c) /\ buffer' = <<>> /\ Line' = Line
          /\ LegibleLine' = LegibleLine
      BY <1>3, <2>3, <3>2, <3>4, SymbolUsed
    <3>6. Len(output') = n + 1 /\ \A i \in 1..(n + 1) : output'[i] = LegibleLine'[i]
      <4>1. c \in 0..127
        BY <2>3 DEF Space
      <4>2. n + 1 \in 1..N
        BY <1>1, <2>1
      <4>3. LegibleLine[n + 1] = c
        BY <1>6, <2>3, <4>2 DEF Legible
      <4> QED
        BY <1>3, <3>5, <4>1, <4>3, OneMoreWritten
    <3>7. Decoding(p + 1, n + 1)'
      BY <2>1, <2>3, <3>2, <3>5, <3>6, DecodingNext
    <3> QED
      BY <3>7
  <2>4. CASE c # Space
    <3>1. /\ Len(MorseTable[c]) \in Nat \ {0} /\ Len(MorseCode(c)) = Len(MorseTable[c]) + 1
          /\ MorseTable[c] \in Seq({0, 1})
          /\ \A q \in 1..Len(MorseTable[c]) :
                MorseCode(c)[q] = MorseTable[c][q] /\ MorseCode(c)[q] # X
      BY <2>2, <2>4, SpacesAndLetters
    <3>2. Head(symbols) = MorseTable[c][1] /\ Head(symbols) # X
      <4>1. 1 \in 1..Len(MorseTable[c]) /\ 1 \in 1..Len(MorseCode(c))
        BY <3>1
      <4> QED
        BY <2>2, <3>1, <4>1
    <3>3. /\ output' = output /\ Line' = Line /\ buffer' = <<Head(symbols)>>
          /\ LegibleLine' = LegibleLine
      <4>1. /\ output' = output /\ Line' = Line
            /\ buffer' = IF Separated THEN <<Head(symbols)>> ELSE Append(buffer, Head(symbols))
        BY <3>2, SymbolUsed
      <4>2. buffer = <<>> \/ (buffer = <<X>> /\ Separated)
        BY <1>1 DEF Separated
      <4>3. Append(<<>>, Head(symbols)) = <<Head(symbols)>>
        OBVIOUS
      <4>4. buffer' = <<Head(symbols)>>
        BY <4>1, <4>2, <4>3
      <4> QED
        BY <1>3, <4>1, <4>4, SymbolUsed
    <3>4. Len(buffer') = 1 /\ buffer'[1] = MorseTable[c][1]
      BY <3>2, <3>3
    <3>5. Decoding(p + 1, n)'
      <4>1. \A q \in 1..Len(buffer') : buffer'[q] = MorseTable[c][q]
        BY <3>4
      <4>2. Len(buffer') \in 1..Len(MorseTable[c]) /\ p + 1 = Ends(Line)[n] + Len(buffer')
        BY <1>1, <3>1, <3>4
      <4>3. Len(output') = n /\ \A i \in 1..n : output'[i] = LegibleLine'[i]
        BY <3>3
      <4>4. /\ n \in 0..(Len(Line) - 1) /\ Line[n + 1] # Space
            /\ Len(buffer') \in 1..Len(MorseTable[Line[n + 1]])
            /\ p + 1 = Ends(Line)[n] + Len(buffer')
            /\ \A q \in 1..Len(buffer') : buffer'[q] = MorseTable[Line[n + 1]][q]
        BY <2>1, <2>4, <4>1, <4>2
      <4>5. Line' = Line
        BY <3>3
      <4> HIDE DEF c
      <4> QED
        BY <4>3, <4>4, <4>5, WithinNext
    <3> QED
      BY <3>5
  <2> QED
    BY <2>3, <2>4
<1> QED
  BY <1>4, <1>5

\* The next symbol is one more of a letter, or its separator.
LEMMA DecodeWithin ==
    ASSUME IInv, DecodeSymbol, Tidy(Line), tail = <<>>,
           NEW s \in Seq(0..2), Spells(s, Line), NEW p \in Nat, p + 1 <= Len(Append(s, X)),
           Head(symbols) = Append(s, X)[p + 1],
           NEW n, Len(output) = n, \A i \in 1..n : output[i] = LegibleLine[i], Within(p, n)
    PROVE  \E m : Decoding(p + 1, m)'
<1> DEFINE N == Len(Line)
           z == Append(s, X)
           c == Line[n + 1]
           b == Len(buffer)
<1>1. /\ n \in 0..(N - 1) /\ c # Space
      /\ b \in 1..Len(MorseTable[c]) /\ p = Ends(Line)[n] + b
      /\ \A q \in 1..b : buffer[q] = MorseTable[c][q]
  BY DEF Within
<1>2. output \in Seq(0..127) /\ buffer \in Seq(0..2) /\ b \in Nat /\ N \in Nat
  <2>1. output \in Seq(0..127) /\ buffer \in Seq(0..2) /\ Line \in Seq(Char)
    BY DEF IInv, TypeOK, Plain, X, Tidy
  <2> QED
    BY <2>1
<1>3. /\ InLine(c) /\ Ends(Line)[n] \in Nat
      /\ Ends(Line)[n + 1] = Ends(Line)[n] + Len(MorseCode(c))
      /\ \A q \in 1..Len(MorseCode(c)) : z[Ends(Line)[n] + q] = MorseCode(c)[q]
  BY <1>1, LineSymbols
<1>9. p + 1 = Ends(Line)[n] + (b + 1)
  <2>1. PICK e : e = Ends(Line)[n]
    OBVIOUS
  <2>2. PICK w : w = b
    OBVIOUS
  <2>3. e \in Nat /\ w \in Nat /\ p = e + w
    BY <1>1, <1>2, <1>3, <2>1, <2>2
  <2>4. p + 1 = e + (w + 1)
    BY <2>3
  <2> QED
    BY <2>1, <2>2, <2>4
<1>4. /\ Len(MorseTable[c]) \in Nat \ {0} /\ Len(MorseCode(c)) = Len(MorseTable[c]) + 1
      /\ MorseTable[c] \in Seq({0, 1})
      /\ \A q \in 1..Len(MorseTable[c]) :
            MorseCode(c)[q] = MorseTable[c][q] /\ MorseCode(c)[q] # X
      /\ MorseCode(c)[Len(MorseCode(c))] = X /\ c \in Char
  BY <1>1, <1>3, SpacesAndLetters
<1>10. Len(MorseTable[c]) <= 6
  BY <1>1, <1>3, CiphersAssumption DEF InLine, InMorse
<1>11. /\ LegibleLine \in Seq(0..127) /\ Len(LegibleLine) = N
       /\ \A i \in 1..N : LegibleLine[i] = Legible(Line[i])
  BY LegibleTyped
<1>5. Head(symbols) = MorseCode(c)[b + 1] /\ b + 1 \in 1..Len(MorseCode(c))
  <2>1. b + 1 \in 1..Len(MorseCode(c))
    <3>1. PICK m : m = Len(MorseTable[c])
      OBVIOUS
    <3>2. m \in Nat /\ b \in 1..m /\ Len(MorseCode(c)) = m + 1
      BY <1>1, <1>4, <3>1
    <3> QED
      BY <3>2
  <2> QED
    BY <1>3, <1>9, <2>1
<1>6. ~Separated
  <2>1. 1 \in 1..b /\ 1 \in 1..Len(MorseTable[c])
    BY <1>1, <1>2, <1>4
  <2>2. buffer[1] = MorseTable[c][1] /\ MorseTable[c][1] # X
    BY <1>1, <1>4, <2>1, Zenon
  <2> QED
    BY <2>2 DEF Separated
<1>7. CASE b < Len(MorseTable[c])
  <2>1. b + 1 \in 1..Len(MorseTable[c])
    BY <1>2, <1>4, <1>7
  <2>2. Head(symbols) = MorseTable[c][b + 1] /\ Head(symbols) # X
    BY <1>4, <1>5, <2>1
  <2>3. output' = output /\ Line' = Line /\ buffer' = Append(buffer, Head(symbols))
    BY <1>6, <2>2, SymbolUsed
  <2>4. Head(symbols) \in 0..2
    <3>1. MorseTable[c][b + 1] \in {0, 1}
      BY <1>4, <2>1
    <3> QED
      BY <2>2, <3>1
  <2>5. /\ Len(buffer') = b + 1 /\ buffer'[b + 1] = Head(symbols)
        /\ \A q \in 1..b : buffer'[q] = buffer[q]
    BY <1>2, <2>3, <2>4, AppendProperties
  <2>6. ASSUME NEW q \in 1..Len(buffer') PROVE buffer'[q] = MorseTable[c][q]
    <3>1. CASE q = b + 1
      BY <2>2, <2>5, <3>1
    <3>2. CASE q # b + 1
      <4>1. q \in 1..b
        BY <1>2, <2>5, <3>2
      <4> QED
        BY <1>1, <2>5, <4>1
    <3> QED
      BY <3>1, <3>2
  <2>7. Len(output') = n /\ \A i \in 1..n : output'[i] = LegibleLine'[i]
    <3>1. b + 1 # 7
      BY <1>2, <1>4, <1>7, <1>10
    <3>2. LegibleLine' = LegibleLine
      BY <2>5, <3>1, SymbolUsed
    <3> QED
      BY <2>3, <3>2
  <2>8. /\ n \in 0..(N - 1) /\ c # Space
        /\ Len(buffer') \in 1..Len(MorseTable[c]) /\ p + 1 = Ends(Line)[n] + Len(buffer')
        /\ \A q \in 1..Len(buffer') : buffer'[q] = MorseTable[c][q]
    BY <1>1, <1>9, <2>1, <2>5, <2>6, Zenon
  <2>9. Line' = Line
    BY <2>3
  <2>10. Decoding(p + 1, n)'
    BY <2>7, <2>8, <2>9, WithinNext
  <2> QED
    BY <2>10
<1>8. CASE ~(b < Len(MorseTable[c]))
  <2>1. b = Len(MorseTable[c])
    BY <1>1, <1>2, <1>4, <1>8
  <2>2. Head(symbols) = X
    BY <1>4, <1>5, <2>1
  <2>3. buffer = MorseTable[c]
    <3>1. MorseTable[c] \in Seq(0..2)
      BY <1>4
    <3> QED
      BY <1>1, <1>2, <2>1, <3>1, SeqEqual
  <2>4. output' = Append(output, FindMorse(buffer)) /\ buffer' = <<X>> /\ Line' = Line
    BY <1>6, <2>2, SymbolUsed
  <2>5. FindMorse(buffer) = Legible(c)
    BY <1>1, <1>3, <2>3, MorseFound
  <2>6. Len(output') = n + 1 /\ \A i \in 1..(n + 1) : output'[i] = LegibleLine'[i]
    <3>1. n + 1 \in 1..N
      BY <1>1, <1>2
    <3>2. LegibleLine[n + 1] = Legible(c) /\ Legible(c) \in 0..127
      <4>1. LegibleLine[n + 1] = Legible(Line[n + 1])
        BY <1>11, <3>1
      <4>2. LegibleLine[n + 1] \in 0..127
        BY <1>11, <3>1, ElementOfSeq
      <4> QED
        BY <4>1, <4>2
    <3>3. Len(<<X>>) # 7
      OBVIOUS
    <3>4. LegibleLine' = LegibleLine
      BY <2>4, <3>3, SymbolUsed
    <3> QED
      BY <1>2, <2>4, <2>5, <3>2, <3>4, OneMoreWritten
  <2>7. /\ n + 1 \in 0..N /\ p + 1 = Ends(Line)[n + 1]
        /\ buffer' = IF n + 1 = 0 \/ Line[n + 1] = Space THEN <<>> ELSE <<X>>
    <3>1. n + 1 \in 0..N /\ n + 1 # 0
      BY <1>1, <1>2
    <3>2. p + 1 = Ends(Line)[n + 1]
      <4>1. b + 1 = Len(MorseCode(c))
        BY <1>4, <2>1
      <4> QED
        BY <1>3, <1>9, <4>1
    <3> QED
      BY <1>1, <2>4, <3>1, <3>2
  <2>8. Line' = Line
    BY <2>4
  <2>9. Decoding(p + 1, n + 1)'
    BY <2>6, <2>7, <2>8, DecodingNext, ZenonT(60)
  <2> QED
    BY <2>9
<1> QED
  BY <1>7, <1>8

\* A symbol is used.
LEMMA DecodeSymbolMorse ==
    ASSUME IInv, TableIsAlphabet, MorseDecode, DecodeSymbol
    PROVE  MorseDecode'
<1> SUFFICES ASSUME MorseRun', job'.decode, WholeLine', tail' = <<>> PROVE MorseDecode'
  BY DEF MorseDecode
<1>1. /\ pc = "text" /\ job.cipher = "f" /\ job.decode /\ symbols # <<>>
      /\ symbols' = Tail(symbols)
      /\ UNCHANGED <<args, job, table, k, input, half, prevSpace, triple, text>>
      /\ pc' = "text" /\ tail = <<>>
  BY DEF DecodeSymbol, NextSymbol, MorseRun
<1>2. MorseRun /\ WholeLine
  BY <1>1 DEF MorseRun, KeyDistinct, MorseLine, WholeLine, Line
<1>3. PICK code, s, p : /\ CodeRead(code, s, p)
                        /\ LineEnded(p) \/ \E n : Decoding(p, n)
  BY <1>1, <1>2 DEF MorseDecode
<1>4. /\ s \in Seq(0..2) /\ Spells(s, Line) /\ code \in Seq(0..127)
      /\ Len(code) = (Len(s) + 1) \div 3 /\ IsRest(input, code)
      /\ p = 3 * (Len(code) - Len(input)) - Len(symbols)
      /\ Len(symbols) <= 3 * (Len(code) - Len(input))
      /\ \A q \in 1..Len(symbols) : symbols[q] = Append(s, X)[p + q]
  BY <1>3 DEF CodeRead, EncodedBy
<1>5. symbols \in Seq(0..2) /\ input \in Seq(0..127) /\ Len(symbols) \in Nat \ {0}
  <2>1. symbols \in Seq(0..2) /\ input \in Seq(0..127)
    BY <1>1 DEF IInv, TypeOK, Plain, X
  <2> QED
    BY <1>1, <2>1, EmptySeq
<1>6. Tidy(Line)
  <2>1. MorseLine /\ text \in Seq(Char)
    BY <1>2 DEF MorseRun, IInv, TypeOK
  <2> QED
    BY <2>1, LineOfText
<1>7. Len(Append(s, X)) = Len(s) + 1 /\ Len(s) \in Nat
  <2>1. X \in 0..2
    BY DEF X
  <2> QED
    BY <1>4, <2>1, AppendProperties
<1>8. p \in Nat /\ p + 1 <= Len(Append(s, X))
  <2>1. Len(code) \in Nat /\ Len(input) \in Nat /\ Len(input) <= Len(code)
    BY <1>4, <1>5 DEF IsRest
  <2>2. 3 * Len(code) <= Len(s) + 1
    BY <1>4, <1>7
  <2> QED
    BY <1>4, <1>5, <1>7, <2>1, <2>2
<1>9. Head(symbols) = Append(s, X)[p + 1]
  <2>1. Head(symbols) = symbols[1] /\ 1 \in 1..Len(symbols)
    BY <1>5
  <2> QED
    BY <1>4, <2>1
<1>10. Line' = Line
  BY <1>1 DEF Line
<1>11. CodeRead(code, s, p + 1)'
  <2>1. /\ Len(symbols') = Len(symbols) - 1
        /\ \A q \in 1..(Len(symbols) - 1) : symbols'[q] = symbols[q + 1]
    BY <1>1, <1>5, HeadTailProperties
  <2>2. p + 1 = 3 * (Len(code) - Len(input)) - Len(symbols')
    BY <1>4, <1>5, <1>8, <2>1 DEF IsRest
  <2>3. Len(symbols') <= 3 * (Len(code) - Len(input))
    BY <1>4, <1>5, <2>1 DEF IsRest
  <2>4. ASSUME NEW q \in 1..Len(symbols')
        PROVE  symbols'[q] = Append(s, X)[(p + 1) + q]
    <3>1. q + 1 \in 1..Len(symbols) /\ q \in 1..(Len(symbols) - 1) /\ p + (q + 1) = (p + 1) + q
      BY <1>5, <1>8, <2>1
    <3> QED
      BY <1>4, <2>1, <3>1
  <2>5. EncodedBy(table, s, code)' /\ IsRest(input, code)'
    BY <1>1, <1>3, <1>10 DEF CodeRead, EncodedBy, IsRest
  <2> QED
    BY <1>1, <2>2, <2>3, <2>4, <2>5 DEF CodeRead
<1>12. ~LineEnded(p)
  BY <1>4, <1>6, <1>7, <1>8, LineSymbols DEF LineEnded
<1>13. PICK n : Decoding(p, n)
  BY <1>3, <1>12
<1>14. LineEnded(p + 1)' \/ \E m : Decoding(p + 1, m)'
  <2>1. Len(output) = n /\ \A i \in 1..n : output[i] = LegibleLine[i]
    BY <1>13 DEF Decoding
  <2>2. CASE Between(p, n)
    BY <1>2, <1>4, <1>6, <1>8, <1>9, <2>1, <2>2, DecodeFirst
  <2>3. CASE Within(p, n)
    BY <1>1, <1>4, <1>6, <1>8, <1>9, <2>1, <2>3, DecodeWithin
  <2> QED
    BY <1>13, <2>2, <2>3 DEF Decoding
<1> QED
  BY <1>1, <1>11, <1>14 DEF MorseDecode

LEMMA OneCell ==
    ASSUME NEW t \in Seq(Char), IsInjective(t), NEW i \in 1..Len(t), NEW j \in 1..Len(t),
           t[i] = t[j]
    PROVE  i = j
BY DEF IsInjective

\* A letter of the code is read.
LEMMA DecodeFmMorse ==
    ASSUME IInv, TableIsAlphabet, MorseDecode, DecodeFm
    PROVE  MorseDecode'
<1> SUFFICES ASSUME MorseRun', job'.decode, WholeLine', tail' = <<>> PROVE MorseDecode'
  BY DEF MorseDecode
<1>1. /\ pc = "text" /\ job.cipher = "f" /\ job.decode /\ symbols = <<>>
      /\ input # <<>> /\ input' = Tail(input)
      /\ UNCHANGED <<args, job, table, k, output, half, buffer, prevSpace, text>>
      /\ pc' # "astray" /\ tail = <<>> /\ dirty' = dirty
  BY DEF DecodeFm, Reading, MorseRun, garbage
<1>2. MorseRun /\ WholeLine
  BY <1>1 DEF MorseRun, KeyDistinct, MorseLine, WholeLine, Line
<1>3. PICK code, s, p : /\ CodeRead(code, s, p)
                        /\ LineEnded(p) \/ \E n : Decoding(p, n)
  BY <1>1, <1>2 DEF MorseDecode
<1>4. /\ s \in Seq(0..2) /\ Spells(s, Line) /\ code \in Seq(0..127)
      /\ Len(code) = (Len(s) + 1) \div 3 /\ IsRest(input, code)
      /\ p = 3 * (Len(code) - Len(input)) - Len(symbols)
      /\ \A j \in 1..Len(code) : Lettered(table, Append(s, X), 3 * j - 3, code[j])
  BY <1>3 DEF CodeRead, EncodedBy
<1>5. input \in Seq(0..127) /\ Len(symbols) = 0
  BY <1>1, EmptySeq DEF IInv, TypeOK
<1>c. PICK c : c = Head(input)
  OBVIOUS
<1>j. PICK j : j = Len(code) - Len(input) + 1
  OBVIOUS
<1>6. /\ IsRest(input', code) /\ Len(input') = Len(input) - 1 /\ Len(input) \in Nat \ {0}
      /\ Len(code) \in Nat /\ Len(input) <= Len(code) /\ c = code[j] /\ j \in 1..Len(code)
  <2>1. /\ IsRest(input', code) /\ Len(input') = Len(input) - 1 /\ Len(input) \in Nat \ {0}
        /\ Len(code) \in Nat /\ Len(input) <= Len(code) /\ c = code[j]
    BY <1>1, <1>4, <1>5, <1>c, <1>j, RestOfRest
  <2> QED
    BY <1>j, <2>1
<1>7. p = 3 * j - 3 /\ 3 * (Len(code) - Len(input')) = p + 3 /\ p \in Nat
  BY <1>4, <1>5, <1>6, <1>j
<1>8. Append(s, X) \in Seq(0..2) /\ Len(Append(s, X)) = Len(s) + 1 /\ Len(s) \in Nat
  <2>1. X \in 0..2
    BY DEF X
  <2> QED
    BY <1>4, <2>1, AppendProperties
<1>9. PICK z : z = Append(s, X)
  OBVIOUS
<1>10. /\ z[p + 1] \in 0..2 /\ z[p + 2] \in 0..2 /\ z[p + 3] \in 0..2
  <2>1. p + 3 <= Len(z)
    <3>1. 3 * Len(code) <= Len(s) + 1
      BY <1>4, <1>8
    <3> QED
      BY <1>6, <1>7, <1>8, <1>9, <3>1
  <2>2. p + 1 \in 1..Len(z) /\ p + 2 \in 1..Len(z) /\ p + 3 \in 1..Len(z)
    BY <1>7, <1>8, <1>9, <2>1
  <2> QED
    BY <1>8, <1>9, <2>2
<1> DEFINE i == 9 * z[p + 1] + 3 * z[p + 2] + z[p + 3]
<1>11. i < 26 /\ c = table[i + 1]
  BY <1>4, <1>6, <1>7, <1>9 DEF Lettered
<1>12. i \in 0..25 /\ Triple(i) = <<z[p + 1], z[p + 2], z[p + 3]>>
  BY <1>10, <1>11, ThreeSymbols
<1>13. /\ table \in Seq(Char) /\ Len(table) = 26 /\ IsInjective(table)
       /\ \A m \in 1..26 : table[m] # Newline
  BY <1>2, MorseTableFilled
<1> HIDE DEF i
<1>14. c # Newline /\ Contains(table, c) /\ Position(c) = i
  <2>1. i + 1 \in 1..26 /\ i + 1 \in 1..Len(table)
    BY <1>12, <1>13
  <2>2. c # Newline /\ Contains(table, c)
    BY <1>11, <1>13, <2>1 DEF Contains
  <2>3. Position(c) + 1 \in 1..Len(table) /\ table[Position(c) + 1] = c /\ Position(c) \in Nat
    <3>1. Position(c) \in 0..(Len(table) - 1) /\ table[Position(c) + 1] = c
      BY <1>13, <2>2, PositionFound
    <3>2. PICK m : m = Position(c)
      OBVIOUS
    <3>3. Len(table) = 26
      BY <1>13
    <3>4. m + 1 \in 1..Len(table) /\ m \in Nat
      BY <3>1, <3>2, <3>3
    <3> QED
      BY <3>1, <3>2, <3>4
  <2>4. Position(c) + 1 = i + 1
    BY <1>11, <1>13, <2>1, <2>3, OneCell
  <2> QED
    BY <1>12, <2>2, <2>3, <2>4
<1>15. symbols' = Triple(i) /\ pc' = "text"
  <2>1. Head(input) # Newline /\ Contains(table, Head(input)) /\ Position(Head(input)) = i
    BY <1>14, <1>c
  <2>2. triple' = Triple(Position(Head(input))) /\ symbols' = triple' \o tail /\ pc' \in {pc, "astray"}
    BY <1>1, <2>1 DEF DecodeFm
  <2>3. triple' = Triple(i) /\ triple' \in Seq(0..2)
    <3>1. triple' = Triple(i)
      BY <2>1, <2>2, Zenon
    <3>2. \A a, b, d \in 0..2 : <<a, b, d>> \in Seq(0..2)
      OBVIOUS
    <3>3. Triple(i) \in Seq(0..2)
      BY <1>10, <1>12, <3>2, Zenon
    <3> QED
      BY <3>1, <3>3, Zenon
  <2>4. triple' \o <<>> = triple'
    BY <2>3, ConcatEmptySeq
  <2> QED
    BY <1>1, <2>2, <2>3, <2>4
<1>16. symbols' = <<z[p + 1], z[p + 2], z[p + 3]>> /\ Len(symbols') = 3
  BY <1>12, <1>15
<1>17. Line' = Line /\ LegibleLine' = LegibleLine
  BY <1>1, LegibleStays DEF Line
<1>18. CodeRead(code, s, p)'
  <2>1. ASSUME NEW q \in 1..Len(symbols') PROVE symbols'[q] = z[p + q]
    <3>1. q \in {1, 2, 3}
      BY <1>16
    <3> QED
      BY <1>16, <3>1
  <2>2. EncodedBy(table, s, code)'
    BY <1>1, <1>3, <1>17 DEF CodeRead, EncodedBy
  <2>3. p = 3 * (Len(code) - Len(input')) - Len(symbols')
        /\ Len(symbols') <= 3 * (Len(code) - Len(input'))
    BY <1>7, <1>16
  <2> QED
    BY <1>6, <1>9, <2>1, <2>2, <2>3 DEF CodeRead, IsRest
<1>19. LineEnded(p)' \/ \E n : Decoding(p, n)'
  <2>1. CASE LineEnded(p)
    BY <1>1, <1>17, <2>1 DEF LineEnded
  <2>2. CASE \E n : Decoding(p, n)
    BY <1>1, <1>17, <2>2 DEF Decoding, Between, Within
  <2> QED
    BY <1>3, <2>1, <2>2
<1> QED
  BY <1>15, <1>18, <1>19 DEF MorseDecode

-----------------------------------------------------------------------------
(* Both runs *)

\* Nothing is used before the table is filled.
MorseStart ==
    pc = "table" =>
        symbols = <<>> /\ buffer = <<>> /\ prevSpace /\ triple = <<>>

\* The second run begins with the code of the line, made with the table it will fill.
MorseBack ==
    pc = "table" /\ job.decode /\ job.cipher = "f" /\ KeyDistinct /\ MorseLine /\ WholeLine =>
        \E t, f, s : /\ EncodedBy(t, s, input)
                     /\ Fills(f, job, Len(Letters)) /\ t = f[Len(Letters)]

MorseInv == MorseStart /\ MorseEncode /\ MorseBack /\ MorseDecode

LEMMA MorseInit == Init => MorseInv
BY DEF Init, MorseInv, MorseStart, MorseEncode, MorseBack, MorseDecode, MorseRun

LEMMA RunMorse == IInv /\ Run => MorseInv'
<1> SUFFICES ASSUME IInv, Run PROVE MorseInv'
  OBVIOUS
<1>1. pc' \in {"crashed", "help", "usage", "table"}
  BY DEF Run, Execute
<1> QED
  BY <1>1, FirstRun DEF MorseInv, MorseStart, MorseEncode, MorseBack, MorseDecode, MorseRun

LEMMA RunBackMorse == IInv /\ RunInv /\ MorseInv /\ RunBack => MorseInv'
<1> SUFFICES ASSUME IInv, RunInv, MorseInv, RunBack PROVE MorseInv'
  OBVIOUS
<1>1. /\ pc' \in {"crashed", "help", "usage", "table"}
      /\ symbols' = <<>> /\ buffer' = <<>> /\ prevSpace' /\ triple' = <<>>
      /\ input' = output /\ text' = text /\ pc = "done" /\ ~job.decode
  BY DEF RunBack, Execute
<1>2. ASSUME pc' = "table", job'.cipher = "f", KeyDistinct', MorseLine', WholeLine'
      PROVE  \E t, f, s : /\ EncodedBy(t, s, input)'
                          /\ Fills(f, job', Len(Letters')) /\ t = f[Len(Letters')]
  <2>1. /\ job'.cipher = job.cipher /\ job'.key = job.key
        /\ job'.rows = job.rows /\ job'.columns = job.columns
    BY <1>2, SecondRun
  <2>2. MorseRun /\ WholeLine /\ Letters' = Letters /\ Line' = Line
    BY <1>1, <1>2, <2>1 DEF MorseRun, KeyDistinct, MorseLine, WholeLine, Line, Letters
  <2>3. PICK s : EncodedBy(table, s, output)
    <3>1. input = <<>>
      BY <1>1, <2>2 DEF MorseInv, MorseEncode
    <3> QED
      BY <1>1, <2>2, <3>1 DEF MorseInv, MorseEncode
  <2>4. PICK f : Fills(f, job, k) /\ table = f[k]
    BY <1>1 DEF RunInv, Working
  <2>5. k = Len(Letters)
    BY <1>1, <1>2, <2>1 DEF IInv, RoomForKey, Working
  <2>6. PICK t : t = table
    OBVIOUS
  <2>7. EncodedBy(t, s, input)'
    BY <1>1, <2>2, <2>3, <2>6 DEF EncodedBy
  <2>8. Fills(f, job', Len(Letters')) /\ t = f[Len(Letters')]
    BY <2>1, <2>2, <2>4, <2>5, <2>6 DEF Fills, Placed
  <2> QED
    BY <2>7, <2>8
<1> QED
  BY <1>1, <1>2 DEF MorseInv, MorseStart, MorseEncode, MorseBack, MorseDecode, MorseRun

LEMMA PlaceLetterMorse == MorseInv /\ PlaceLetter => MorseInv'
<1> SUFFICES ASSUME MorseInv, PlaceLetter PROVE MorseInv'
  OBVIOUS
<1>1. /\ pc = "table" /\ pc' = "table"
      /\ UNCHANGED <<job, input, output, symbols, buffer, prevSpace, triple, text>>
  BY DEF PlaceLetter, reader
<1>2. MorseStart'
  BY <1>1 DEF MorseInv, MorseStart
<1>3. MorseBack'
  BY <1>1 DEF MorseInv, MorseBack, KeyDistinct, MorseLine, WholeLine, Line, EncodedBy, Letters
<1> QED
  BY <1>1, <1>2, <1>3 DEF MorseInv, MorseEncode, MorseDecode, MorseRun

\* Nothing of a line is read yet.
LEMMA FirstSent ==
    ASSUME text' \in Seq(Char), MorseLine', input' = text', symbols' = <<>>, buffer' = <<>>,
           output' = <<>>, prevSpace'
    PROVE  Sending(<<>>)'
<1>1. Len(text') \in Nat /\ Len(text') - Len(input') = 0
  OBVIOUS
<1>2. /\ Kept(Front(text'))[0] = <<>> /\ Len(<<>>) = 0
  BY FrontOfLine, KeptTidy, EmptySeq DEF MorseLine
<1>3. LineSoFar' = <<>>
  BY <1>1, <1>2 DEF LineSoFar
<1>4. Ends(<<>>)[0] = 0
  <2>1. <<>> \in Seq(Char) /\ \A i \in 1..Len(<<>>) : InLine(<<>>[i])
    BY <1>2, Nothing
  <2> QED
    BY <2>1, EndsCount
<1>5. Spells(<<>>, <<>>) /\ NoThree(<<>>)
  BY <1>2, <1>4 DEF Spells, NoThree
<1>6. Written(table', <<>>, 0, <<>>, <<>>) /\ IsRest(<<>>, <<>>)
  BY <1>2 DEF Written, IsRest
<1>7. <<>> \in Seq(0..2) /\ Len(<<>>) - Len(symbols') = 0
  BY <1>2, Nothing DEF X
<1>8. /\ Spells(<<>>, LineSoFar') /\ IsRest(symbols', <<>>)
      /\ Written(table', <<>>, Len(<<>>) - Len(symbols'), output', buffer')
      /\ prevSpace' /\ LineSoFar' = <<>>
  BY <1>3, <1>5, <1>6, <1>7
<1>z. PICK z : z = <<>>
  OBVIOUS
<1>9. z \in Seq(0..2) /\ NoThree(z)
  BY <1>5, <1>7, <1>z
<1>10. Sending(z)'
  BY <1>8, <1>9, <1>z, SendingNext, Zenon
<1> QED
  BY <1>10, <1>z

LEMMA TableDoneMorse == IInv /\ RunInv /\ MorseInv /\ TableDone => MorseInv'
<1> SUFFICES ASSUME IInv, RunInv, MorseInv, TableDone PROVE MorseInv'
  OBVIOUS
<1>1. /\ pc = "table" /\ pc' = "text" /\ pc \in Working
      /\ UNCHANGED <<args, job, table, k, output, symbols, buffer, prevSpace, triple>>
      /\ symbols = <<>> /\ buffer = <<>> /\ prevSpace /\ output = <<>>
  BY DEF TableDone, reader, Working, RunInv, MorseInv, MorseStart
<1>2. IInv' /\ text' \in Seq(Char) /\ input \in Seq(0..127)
  BY TableDoneKeeps DEF IInv, TypeOK
<1>3. MorseEncode'
  <2>1. SUFFICES ASSUME MorseLine', ~job.decode
                 PROVE  /\ IsRest(input', text') /\ input' # <<>>
                        /\ \E s : Sending(s)'
    BY <1>1 DEF MorseEncode, MorseRun
  <2>2. input' = text'
    BY <2>1 DEF TableDone
  <2>3. IsRest(text', text')
    BY <1>2 DEF IsRest
  <2>4. text' # <<>>
    BY <2>1 DEF MorseLine
  <2>5. Sending(<<>>)'
    BY <1>1, <1>2, <2>1, <2>2, FirstSent
  <2>6. \E s : Sending(s)'
    BY <2>5
  <2> QED
    BY <2>2, <2>3, <2>4, <2>6
<1>4. MorseDecode'
  <2>1. SUFFICES ASSUME job.decode, job.cipher = "f", KeyDistinct', MorseLine', WholeLine',
                        tail' = <<>>
                 PROVE  \E code, s, p : CodeRead(code, s, p)' /\ \E n : Decoding(p, n)'
    BY <1>1 DEF MorseDecode, MorseRun
  <2>2. text' = text /\ input' = input
    BY <2>1 DEF TableDone
  <2>3. KeyDistinct /\ MorseLine /\ WholeLine /\ Line' = Line
    BY <1>1, <2>1, <2>2 DEF KeyDistinct, MorseLine, WholeLine, Line
  <2>4. PICK t, f, s : /\ EncodedBy(t, s, input)
                       /\ Fills(f, job, Len(Letters)) /\ t = f[Len(Letters)]
    BY <1>1, <2>1, <2>3 DEF MorseInv, MorseBack
  <2>5. PICK g : Fills(g, job, k) /\ table = g[k]
    BY <1>1 DEF RunInv
  <2>6. k = Len(Letters) /\ k \in Nat
    <3>1. pc' \in Working /\ pc' # "table" /\ RoomForKey'
      BY <1>1, <2>1 DEF Working, RoomForKey
    <3>2. k' = Len(Letters)' /\ k' \in Nat
      BY <1>2, <3>1 DEF IInv, TypeOK
    <3> QED
      BY <1>1, <3>2 DEF Letters
  <2>7. t = table
    BY <2>4, <2>5, <2>6, FillsAlike
  <2>8. PICK code : code = input
    OBVIOUS
  <2>9. CodeRead(code, s, 0)'
    <3>1. IsRest(input', code) /\ Len(code) - Len(input') = 0 /\ Len(symbols') = 0
      <4>1. Len(input) \in Nat /\ input' = code /\ input = code
        BY <1>2, <2>2, <2>8
      <4>2. IsRest(code, code) /\ Len(code) - Len(code) = 0
        BY <4>1 DEF IsRest
      <4>3. Len(symbols') = 0
        BY <1>1, EmptySeq
      <4> QED
        BY <4>1, <4>2, <4>3
    <3>2. EncodedBy(table, s, code)'
      BY <1>1, <2>3, <2>4, <2>7, <2>8, Zenon DEF EncodedBy
    <3> QED
      BY <3>1, <3>2 DEF CodeRead
  <2>10. Decoding(0, 0)'
    <3>1. Tidy(Line)
      BY <1>2, <2>2, <2>3, LineOfText
    <3>2. Len(Line) \in Nat /\ 0 \in 0..Len(Line) /\ Ends(Line)[0] = 0
      BY <3>1, EndsCount DEF Tidy
    <3>3. Len(output') = 0 /\ \A i \in 1..0 : output'[i] = LegibleLine'[i]
      BY <1>1, EmptySeq
    <3>4. buffer' = <<>>
      BY <1>1
    <3> QED
      BY <2>3, <3>2, <3>3, <3>4, DecodingNext
  <2>11. \E n : Decoding(0, n)'
    BY <2>10
  <2> QED
    BY <2>9, <2>11
<1> QED
  BY <1>1, <1>3, <1>4 DEF MorseInv, MorseStart, MorseBack

LEMMA EndOfInputMorse == MorseInv /\ EndOfInput => MorseInv'
<1> SUFFICES ASSUME MorseInv, EndOfInput PROVE MorseInv'
  OBVIOUS
<1>1. /\ pc = "text" /\ pc' = "done" /\ input = <<>> /\ symbols = <<>>
      /\ UNCHANGED <<args, job, table, k, input, output, symbols, buffer, prevSpace, triple, tail,
                     dirty, text>>
  BY DEF EndOfInput, reader, garbage
<1>2. /\ (MorseRun' <=> MorseRun) /\ (WholeLine' <=> WholeLine) /\ Line' = Line
      /\ LegibleLine' = LegibleLine
  BY <1>1, LegibleStays DEF MorseRun, KeyDistinct, MorseLine, WholeLine, Line
<1>3. MorseEncode'
  BY <1>1, <1>2 DEF MorseInv, MorseEncode, IsRest, EncodedBy
<1>4. MorseDecode'
  <2>1. ASSUME NEW code, NEW s, NEW p, CodeRead(code, s, p) PROVE CodeRead(code, s, p)'
    BY <1>1, <1>2, <2>1, Zenon DEF CodeRead, EncodedBy, IsRest
  <2>2. ASSUME NEW p, NEW n, Decoding(p, n) PROVE Decoding(p, n)'
    BY <1>1, <1>2, <2>2, Zenon DEF Decoding, Between, Within
  <2>3. ASSUME NEW p, LineEnded(p) PROVE LineEnded(p)'
    BY <1>1, <1>2, <2>3 DEF LineEnded
  <2> QED
    BY <1>1, <1>2, <2>1, <2>2, <2>3 DEF MorseInv, MorseDecode
<1> QED
  BY <1>1, <1>3, <1>4 DEF MorseInv, MorseStart, MorseBack

LEMMA NothingMorse == MorseInv /\ UNCHANGED vars => MorseInv'
<1> SUFFICES ASSUME MorseInv, UNCHANGED vars PROVE MorseInv'
  OBVIOUS
<1>1. UNCHANGED <<pc, args, job, table, k, input, output, symbols, buffer, prevSpace, triple, tail,
                  dirty, text>>
  BY DEF vars, reader, garbage
<1>2. (MorseRun' <=> MorseRun) /\ (WholeLine' <=> WholeLine) /\ Line' = Line
      /\ LineSoFar' = LineSoFar /\ (KeyDistinct' <=> KeyDistinct) /\ (MorseLine' <=> MorseLine)
      /\ Letters' = Letters /\ LegibleLine' = LegibleLine
  BY <1>1, LegibleStays DEF MorseRun, KeyDistinct, MorseLine, WholeLine, Line, LineSoFar, Letters
<1>3. MorseEncode'
  <2>1. ASSUME NEW s, Sending(s) PROVE Sending(s)'
    BY <1>1, <1>2, <2>1, Zenon DEF Sending
  <2> QED
    BY <1>1, <1>2, <2>1 DEF MorseInv, MorseEncode, IsRest, EncodedBy
<1>4. MorseDecode'
  <2>1. ASSUME NEW code, NEW s, NEW p, CodeRead(code, s, p) PROVE CodeRead(code, s, p)'
    BY <1>1, <1>2, <2>1, Zenon DEF CodeRead, EncodedBy, IsRest
  <2>2. ASSUME NEW p, NEW n, Decoding(p, n) PROVE Decoding(p, n)'
    BY <1>1, <1>2, <2>2, Zenon DEF Decoding, Between, Within
  <2>3. ASSUME NEW p, LineEnded(p) PROVE LineEnded(p)'
    BY <1>1, <1>2, <2>3 DEF LineEnded
  <2> QED
    BY <1>1, <1>2, <2>1, <2>2, <2>3 DEF MorseInv, MorseDecode
<1>5. MorseBack' /\ MorseStart'
  BY <1>1, <1>2 DEF MorseInv, MorseBack, MorseStart, EncodedBy
<1> QED
  BY <1>3, <1>4, <1>5 DEF MorseInv

\* A step of Polybius' cipher, or one of the loops at work.
LEMMA OtherMorse ==
    ASSUME MorseInv, pc' # "table", job' = job,
           job.cipher = "p" \/ pc' \notin {"text", "done"}
    PROVE  MorseInv'
BY DEF MorseInv, MorseStart, MorseEncode, MorseBack, MorseDecode, MorseRun

LEMMA StepMorse ==
    IInv /\ TableIsAlphabet /\ RunInv /\ MorseInv /\ [Next]_vars => MorseInv'
<1> SUFFICES ASSUME IInv, TableIsAlphabet, RunInv, MorseInv, [Next]_vars PROVE MorseInv'
  OBVIOUS
<1>1. CASE EncodePolybius \/ DecodePolybius
  BY <1>1, OtherMorse DEF EncodePolybius, DecodePolybius, Reading, Astray
<1>2. CASE EncodeFm \/ EncodeSymbol
  <2>1. MorseEncode'
    BY <1>2, EncodeFmMorse, EncodeSymbolMorse DEF MorseInv
  <2>2. pc' # "table" /\ job' = job /\ ~job.decode
    BY <1>2 DEF EncodeFm, EncodeSymbol, Reading, NextSymbol
  <2> QED
    BY <2>1, <2>2 DEF MorseInv, MorseStart, MorseBack, MorseDecode
<1>3. CASE DecodeFm \/ DecodeSymbol
  <2>1. MorseDecode'
    BY <1>3, DecodeFmMorse, DecodeSymbolMorse DEF MorseInv
  <2>2. pc' # "table" /\ job' = job /\ job.decode
    BY <1>3 DEF DecodeFm, DecodeSymbol, Reading, NextSymbol
  <2> QED
    BY <2>1, <2>2 DEF MorseInv, MorseStart, MorseBack, MorseEncode
<1> QED
  BY <1>1, <1>2, <1>3, RunMorse, RunBackMorse, PlaceLetterMorse, TableDoneMorse,
     EndOfInputMorse, NothingMorse DEF Next

\* The symbols come by threes, and what is left over was not written.
LEMMA ThreesAndRest ==
    ASSUME NEW n \in Nat \ {0}
    PROVE  /\ n % 3 \in {0, 1, 2}
           /\ 3 * (n \div 3) = n - (n % 3)
OBVIOUS

\* Where in the line the second run is.
LEMMA WhereDecoding ==
    ASSUME IInv, Tidy(Line), NEW p, NEW n, Decoding(p, n)
    PROVE  /\ n \in 0..Len(Line)
           /\ \/ p = Ends(Line)[n]
              \/ n < Len(Line) /\ p \in Nat /\ p < Ends(Line)[n + 1]
<1>1. CASE Between(p, n)
  BY <1>1 DEF Between
<1>2. CASE Within(p, n)
  <2>1. PICK b : b = Len(buffer)
    OBVIOUS
  <2>2. PICK a : a = Ends(Line)[n]
    OBVIOUS
  <2>3. /\ n \in 0..(Len(Line) - 1) /\ Line[n + 1] # Space /\ Len(Line) \in Nat
        /\ b \in 1..Len(MorseTable[Line[n + 1]]) /\ p = a + b
    BY <1>2, <2>1, <2>2 DEF Within, Tidy
  <2>4. n + 1 \in 1..Len(Line) /\ n \in 0..Len(Line) /\ (n + 1) - 1 = n /\ n < Len(Line)
    BY <2>3
  <2>5. InLine(Line[n + 1]) /\ Line \in Seq(Char) /\ \A i \in 1..Len(Line) : InLine(Line[i])
    BY <2>4 DEF Tidy
  <2>6. PICK m : m = Len(MorseTable[Line[n + 1]])
    OBVIOUS
  <2>7. m \in Nat /\ Len(MorseCode(Line[n + 1])) = m + 1
    BY <2>3, <2>5, <2>6, SpacesAndLetters
  <2>8. a \in Nat /\ Ends(Line)[n + 1] = a + (m + 1)
    <3>1. Ends(Line)[n + 1] = Ends(Line)[(n + 1) - 1] + Len(MorseCode(Line[n + 1]))
      BY <2>4, <2>5, EndsCount, Zenon
    <3>2. a \in Nat
      BY <2>2, <2>4, <2>5, EndsCount
    <3> QED
      BY <2>2, <2>4, <2>7, <3>1, <3>2
  <2>9. p \in Nat /\ p < a + (m + 1)
    BY <2>3, <2>6, <2>7, <2>8
  <2> QED
    BY <2>4, <2>8, <2>9
<1> QED
  BY <1>1, <1>2 DEF Decoding

\* What the line is when the code has been read to its end.
LEMMA LineComesBack ==
    ASSUME IInv, MorseDecode, Decoded("f"), KeyDistinct, MorseLine, WholeLine, tail = <<>>
    PROVE  LET left == Symbols(Line) % 3
           IN  output = CASE left = 0 -> Append(LegibleLine, Space)
                          [] left = 1 -> LegibleLine
                          [] left = 2 -> Front(LegibleLine)
<1>1. /\ input = <<>> /\ symbols = <<>>
      /\ \E code, s, p : CodeRead(code, s, p) /\ (LineEnded(p) \/ \E n : Decoding(p, n))
  BY DEF MorseDecode, MorseRun, Decoded
<1>2. PICK code, s, p : CodeRead(code, s, p) /\ (LineEnded(p) \/ \E n : Decoding(p, n))
  BY <1>1
<1> DEFINE N == Len(Line)
           left == Symbols(Line) % 3
<1> SUFFICES output = CASE left = 0 -> Append(LegibleLine, Space)
                        [] left = 1 -> LegibleLine
                        [] left = 2 -> Front(LegibleLine)
  OBVIOUS
<1>3. /\ Tidy(Line) /\ Line \in Seq(Char) /\ N \in Nat \ {0} /\ Line[N] # Space
      /\ LegibleLine \in Seq(0..127) /\ Len(LegibleLine) = N
  <2>1. text \in Seq(Char)
    BY DEF IInv, TypeOK
  <2>2. Tidy(Line)
    BY <2>1, LineOfText
  <2>3. Line \in Seq(Char) /\ Line # <<>> /\ Last(Line) # Space
    BY <2>2 DEF Tidy, WholeLine
  <2>4. LegibleLine \in Seq(0..127) /\ Len(LegibleLine) = N
    BY <2>2, LegibleTyped
  <2> QED
    BY <2>2, <2>3, <2>4, EmptySeq DEF Last
<1>4. PICK e : e = Ends(Line)[N]
  OBVIOUS
<1>5. s \in Seq(0..2) /\ Spells(s, Line) /\ Len(s) = e /\ e \in Nat /\ Symbols(Line) = e + 1
  <2>1. s \in Seq(0..2) /\ Spells(s, Line)
    BY <1>2 DEF CodeRead, EncodedBy
  <2>2. Len(s) = e /\ Len(s) \in Nat
    BY <1>4, <2>1 DEF Spells
  <2> QED
    BY <1>4, <2>1, <2>2 DEF Symbols
<1>6. p = (e + 1) - left /\ left \in {0, 1, 2}
  <2>1. p = 3 * ((e + 1) \div 3)
    <3>1. Len(code) = (e + 1) \div 3 /\ p = 3 * (Len(code) - Len(input)) - Len(symbols)
      BY <1>2, <1>5 DEF CodeRead, EncodedBy
    <3>2. Len(input) = 0 /\ Len(symbols) = 0
      BY <1>1, EmptySeq
    <3>3. (e + 1) \div 3 \in Nat
      BY <1>5
    <3> QED
      BY <3>1, <3>2, <3>3
  <2>2. e + 1 \in Nat \ {0}
    BY <1>5
  <2> QED
    BY <1>5, <2>1, <2>2, ThreesAndRest
<1>7. /\ \A n \in 0..N : Ends(Line)[n] \in Nat /\ Ends(Line)[n] <= e
      /\ \A n \in 0..(N - 1) : Ends(Line)[n] + 2 <= e
      /\ \A i \in 1..N : InLine(Line[i])
  <2>1. \A i \in 1..N : InLine(Line[i])
    BY <1>3 DEF Tidy
  <2>2. ASSUME NEW m \in 0..N, NEW n \in m..N PROVE Ends(Line)[m] <= Ends(Line)[n]
    BY <1>3, <2>1, EndsRise
  <2>3. ASSUME NEW n \in 0..N PROVE Ends(Line)[n] <= e
    <3>1. N \in n..N
      BY <1>3
    <3> QED
      BY <1>4, <2>2, <3>1
  <2>4. PICK m : m = Ends(Line)[N - 1]
    OBVIOUS
  <2>5. m \in Nat /\ m + 2 <= e
    <3>1. N \in 1..N /\ N - 1 \in 0..N
      BY <1>3
    <3>2. e = Ends(Line)[N - 1] + Len(MorseCode(Line[N])) /\ Ends(Line)[N - 1] \in Nat
      BY <1>3, <1>4, <2>1, <3>1, EndsCount
    <3>3. InLine(Line[N])
      BY <2>1, <3>1
    <3>4. PICK w : w = Len(MorseTable[Line[N]])
      OBVIOUS
    <3>5. w \in Nat \ {0} /\ Len(MorseCode(Line[N])) = w + 1
      BY <1>3, <3>3, <3>4, SpacesAndLetters
    <3>6. e = m + (w + 1) /\ m \in Nat
      BY <2>4, <3>2, <3>5
    <3> QED
      BY <3>5, <3>6
  <2>6. ASSUME NEW n \in 0..(N - 1) PROVE Ends(Line)[n] + 2 <= e
    <3>1. n \in 0..N /\ N - 1 \in n..N
      BY <1>3
    <3>2. Ends(Line)[n] <= m /\ Ends(Line)[n] \in Nat
      BY <1>3, <2>1, <2>2, <2>4, <3>1, EndsCount
    <3> QED
      BY <1>5, <2>5, <3>2
  <2> QED
    BY <1>3, <2>1, <2>3, <2>6, EndsCount
<1>8. output \in Seq(0..127)
  BY DEF IInv, TypeOK
<1>9. ASSUME NEW n, Decoding(p, n)
      PROVE  /\ n \in 0..N
             /\ \/ p = Ends(Line)[n]
                \/ n < N /\ p \in Nat /\ p < Ends(Line)[n + 1]
  BY <1>3, <1>9, WhereDecoding
<1> HIDE DEF left
<1>10. CASE left = 0
  <2>1. p = e + 1
    BY <1>5, <1>6, <1>10
  <2>2. ASSUME NEW n, Decoding(p, n) PROVE FALSE
    <3>1. CASE p = Ends(Line)[n]
      BY <1>5, <1>7, <1>9, <2>1, <2>2, <3>1
    <3>2. CASE n < N /\ p \in Nat /\ p < Ends(Line)[n + 1]
      <4>1. n + 1 \in 0..N
        BY <1>3, <1>9, <2>2, <3>2
      <4> QED
        BY <1>5, <1>7, <2>1, <3>2, <4>1
    <3> QED
      BY <1>9, <2>2, <3>1, <3>2
  <2>3. LineEnded(p)
    BY <1>2, <2>2
  <2> QED
    BY <1>10, <2>3 DEF LineEnded
<1>11. CASE left # 0
  <2>1. p <= e /\ p \in Int
    BY <1>5, <1>6, <1>11
  <2>2. PICK n : Decoding(p, n)
    BY <1>2, <1>4, <1>5, <2>1 DEF LineEnded
  <2>3. n = Len(output) /\ \A i \in 1..n : output[i] = LegibleLine[i]
    BY <2>2 DEF Decoding
  <2>4. /\ n \in 0..N
        /\ \/ p = Ends(Line)[n]
           \/ n < N /\ p \in Nat /\ p < Ends(Line)[n + 1]
    BY <1>9, <2>2
  <2>5. CASE left = 1
    <3>1. p = e
      BY <1>5, <1>6, <2>5
    <3>2. n = N
      <4> SUFFICES ASSUME n # N PROVE FALSE
        OBVIOUS
      <4>1. n \in 0..(N - 1) /\ n + 1 \in 0..N
        BY <1>3, <2>4
      <4>2. Ends(Line)[n] + 2 <= e /\ Ends(Line)[n + 1] <= e
            /\ Ends(Line)[n] \in Nat /\ Ends(Line)[n + 1] \in Nat
        BY <1>7, <2>4, <4>1
      <4> QED
        BY <1>5, <2>4, <3>1, <4>2
    <3>3. output = LegibleLine
      <4>1. Len(output) = Len(LegibleLine)
        BY <1>3, <2>3, <3>2
      <4>2. \A i \in 1..Len(output) : output[i] = LegibleLine[i]
        BY <2>3
      <4> QED
        BY <1>3, <1>8, <4>1, <4>2, SeqEqual
    <3> QED
      BY <2>5, <3>3
  <2>6. CASE left = 2
    <3>1. p = e - 1
      BY <1>5, <1>6, <2>6
    <3>2. n = N - 1
      <4> SUFFICES ASSUME n # N - 1 PROVE FALSE
        OBVIOUS
      <4>1. CASE n = N
        BY <1>4, <1>5, <2>4, <3>1, <4>1
      <4>2. CASE n # N
        <5>1. n \in 0..(N - 1) /\ n + 1 \in 0..(N - 1) /\ n \in 0..N /\ n + 1 \in 0..N
          BY <1>3, <2>4, <4>2
        <5>2. Ends(Line)[n] + 2 <= e /\ Ends(Line)[n + 1] + 2 <= e
              /\ Ends(Line)[n] \in Nat /\ Ends(Line)[n + 1] \in Nat
          BY <1>7, <5>1
        <5> QED
          BY <1>5, <2>4, <3>1, <5>2
      <4> QED
        BY <4>1, <4>2
    <3>3. output = Front(LegibleLine)
      <4>1. Front(LegibleLine) = [i \in 1..n |-> LegibleLine[i]]
        BY <1>3, <3>2 DEF Front
      <4>2. Front(LegibleLine) \in Seq(0..127) /\ Len(Front(LegibleLine)) = n
            /\ \A i \in 1..n : Front(LegibleLine)[i] = LegibleLine[i]
        <5>1. n \in Nat /\ \A i \in 1..n : LegibleLine[i] \in 0..127
          <6>1. n \in Nat /\ \A i \in 1..n : i \in 1..N
            BY <1>3, <3>2
          <6>2. \A i \in 1..N : LegibleLine[i] \in 0..127
            BY <1>3, ElementOfSeq
          <6> QED
            BY <6>1, <6>2
        <5>2. Front(LegibleLine) \in [1..n -> 0..127]
          BY <4>1, <5>1
        <5> QED
          BY <4>1, <5>1, <5>2
      <4> QED
        BY <1>8, <2>3, <4>2, SeqEqual
    <3> QED
      BY <2>6, <3>3
  <2> QED
    BY <1>6, <1>11, <2>5, <2>6
<1> QED
  BY <1>10, <1>11

\* Whatever the key and the line are, and whatever the decoder's buffer held: when
\* the byte behind the three symbols in space2 is zero, what -e writes of the line
\* brings it back, with a space, as it is, or without its last letter, as many
\* symbols as are left over when they are taken by threes; only the characters with
\* six symbols may come back as spaces.
THEOREM MorseComesBack == Spec => []MorseRoundTrip
<1>2. IInv /\ MorseInv => MorseRoundTrip
  BY LineComesBack DEF MorseInv, MorseRoundTrip
<1>3. Init => ThereAndBack
  BY DEF Init, ThereAndBack, RunInv, EncodeInv, BackInv, DecodeInv, Working
<1>4. ThereAndBack => RunInv
  BY DEF ThereAndBack
<1> QED
  BY <1>2, <1>3, <1>4, MorseInit, StepMorse, StepComes, Inductive, TableComplete, PTL DEF Spec

=============================================================================
