----------------------------- MODULE CipherArgs -----------------------------
(***************************************************************************)
(* validargs of hw1/src/hw1.c: what it makes of the argument list, as the  *)
(* 16 bits it returns.  An argument list is its flags, of which only the   *)
(* letter is read, and the values that stand between them from the third   *)
(* flag on.  A flag without a letter is an option that was not given.       *)
(* Characters are their codes.                                             *)
(***************************************************************************)
EXTENDS Integers, Sequences, SequencesExt

CONSTANTS
    PolybiusAlphabet,   \* the alphabets of const.c
    FmAlphabet

Char == 1..127
NUL == 0
NoLetter == ""

ASSUME AlphabetAssumption ==
    /\ PolybiusAlphabet \in Seq(Char) /\ IsInjective(PolybiusAlphabet)
    /\ FmAlphabet \in Seq(Char) /\ IsInjective(FmAlphabet)
    /\ Len(PolybiusAlphabet) <= 225 /\ Len(FmAlphabet) = 26

Alphabet(cipher) == IF cipher = "p" THEN PolybiusAlphabet ELSE FmAlphabet

\* No digit is asked for: ':' counts as ten.
ConvertToNum(s) == FoldLeft(LAMBDA num, c : 10 * num + c - 48, 0, s)

\* No more than three options are read.
Options(args) == {i \in 3..5 : i <= Len(args.flags)}
Given(args, letter) == \E i \in Options(args) : args.flags[i] = letter
\* The value of the option, which is given once.
ValueOf(args, letter) ==
    args.values[(CHOOSE i \in Options(args) : args.flags[i] = letter) - 2]

\* -r ROWS or -c COLUMNS, the default being 10.
Side(args, letter) ==
    IF Given(args, letter) THEN ConvertToNum(ValueOf(args, letter)) ELSE 10
Rows(args) == Side(args, "r")
Columns(args) == Side(args, "c")

Key(args) == IF Given(args, "k") THEN ValueOf(args, "k") ELSE <<>>

\* Only neighbours are compared.
KeyAllowed(key, alphabet) ==
    /\ \A i \in DOMAIN key : Contains(alphabet, key[i])
    /\ \A i \in 2..Len(key) : key[i] # key[i - 1]

BadFlags(args) ==
    \/ args.flags[1] \notin {"f", "p"} \/ args.flags[2] \notin {"d", "e"}
    \/ \E i, j \in Options(args) : i # j /\ args.flags[i] = args.flags[j]
    \/ \E i \in Options(args) : args.flags[i] \notin {"r", "c", "k", NoLetter}

MinSide == 9
MaxSide == 15
SidesAsInUsage(args) == {Rows(args), Columns(args)} \ (10..16) # {}
BadSides(args) == {Rows(args), Columns(args)} \ (MinSide..MaxSide) # {}

\* Asked of -p alone: the other alphabet is taken to have no length.
TooSmall(args) ==
    args.flags[1] = "p" /\ Columns(args) * Rows(args) < Len(PolybiusAlphabet)

HelpBit == 32768
FmBit == 16384
DecodeBit == 8192

\* An argument that is read and is not there.
Crashes(args) ==
    \/ args.flags = <<>>
    \/ Len(args.flags) = 1 /\ args.flags[1] \in {"f", "p"}
    \/ /\ Len(args.flags) \in 3..5 /\ ~BadFlags(args)
       /\ Len(args.values) < Len(args.flags) - 2 /\ Last(args.flags) # NoLetter
       /\ Last(args.flags) = "k" => ~BadSides(args)

\* Of an argument list that crashes it not.
ValidArgs(args) ==
    IF args.flags[1] = "h" THEN HelpBit
    ELSE IF \/ args.flags[1] \notin {"f", "p"}
            \/ BadFlags(args) \/ BadSides(args) \/ TooSmall(args)
            \/ ~KeyAllowed(Key(args), Alphabet(args.flags[1]))
         THEN 0
    ELSE (IF args.flags[1] = "f" THEN FmBit ELSE 0)
         + (IF args.flags[2] = "d" THEN DecodeBit ELSE 0)
         + 16 * Rows(args) + Columns(args)

=============================================================================
