------------------------------- MODULE Ciphers -------------------------------
(***************************************************************************)
(* The cipher program of hw1: main, p_cypher.c and f_cypher.c.  A user     *)
(* runs it on an argument list and a text, and gives what it has encoded   *)
(* to a second run with -d in the place of -e.  The loops that fill the    *)
(* table and those that read the input are one action a turn.              *)
(*                                                                         *)
(* The program searches and prints from arrays without asking where they   *)
(* end; where that would leave the array it is astray, and nothing is said *)
(* of what it does then.                                                   *)
(***************************************************************************)
EXTENDS CipherArgs

CONSTANTS
    Invocations, \* bound: the argument lists a user may start with
    Texts,       \* bound: what the user may type, for each cipher
    Tails,       \* bound: what may lie in memory behind the three symbols of a letter
    MorseTable   \* morse_table: from each character, its dots (0) and dashes (1)

Newline == 10
Space == 32
Blanks == {Newline, Space, 9}
X == 2           \* what separates the letters of Morse code
Other == 3       \* any other byte that is not zero

ASSUME CiphersAssumption ==
    /\ \A a \in Invocations : a \in [flags : Seq(STRING), values : Seq(Seq(Char))]
    /\ \A a \in Invocations : Len(a.flags) >= 2 => a.flags[2] # "d"
    \* Only the value of the last flag can be missing.
    /\ \A a \in Invocations : Len(a.values) >= Len(a.flags) - 3
    \* No value is longer than an alphabet, as a KEY can be that repeats itself.
    /\ \A a \in Invocations : \A i \in DOMAIN a.values :
          Len(a.values[i]) <= Len(PolybiusAlphabet) /\ Len(a.values[i]) <= Len(FmAlphabet)
    /\ \A cipher \in {"p", "f"} : Texts[cipher] \subseteq Seq(Char)
    /\ DOMAIN MorseTable \subseteq Char
    /\ \A c \in DOMAIN MorseTable : MorseTable[c] \in Seq({0, 1}) /\ Len(MorseTable[c]) <= 6
    /\ Tails \subseteq Seq(0..Other)
    \* Neither the alphabet nor the table says anything of a newline, and no two
    \* characters of the table have the same code.
    /\ ~Contains(FmAlphabet, Newline) /\ Newline \notin DOMAIN MorseTable
    /\ \A c, d \in DOMAIN MorseTable :
          MorseTable[c] = MorseTable[d] => c = d \/ MorseTable[c] = <<>>

VARIABLES
    pc,
    args,      \* the argument list of this run
    job,       \* what main has read out of the mode, and the key
    table,     \* the cells of polybius_table or fm_key that are filled
    k,         \* how many characters of the alphabet have been gone through
    input, output,
    half,      \* the row of a pair of which the column is still to come
    symbols,   \* the symbols of the character that was read, still to be used
    buffer,    \* the symbols of a letter that is not complete
    prevSpace,
    triple,    \* the symbols of the last letter that was found in fm_key
    tail,      \* the bytes behind those symbols in space2, up to one that is zero
    dirty,     \* byte 6 of the decoder's buffer, which clearBuffer leaves, is not zero
    text       \* history: what the first run has read

garbage == <<tail, dirty>>
reader == <<half, symbols, buffer, prevSpace, triple, garbage>>
vars == <<pc, args, job, table, k, input, output, reader, text>>

NoJob == [cipher |-> "none", decode |-> FALSE, rows |-> 0, columns |-> 0, key |-> <<>>]

Init ==
    /\ pc = "idle" /\ args = [flags |-> <<>>, values |-> <<>>] /\ job = NoJob
    /\ table = <<>> /\ k = 0
    /\ input = <<>> /\ output = <<>> /\ text = <<>>
    /\ half = NUL /\ symbols = <<>> /\ buffer = <<>> /\ prevSpace = TRUE /\ triple = <<>>
    /\ tail = <<>> /\ dirty = FALSE

-----------------------------------------------------------------------------
(* main *)

JobOf(mode, key) ==
    [cipher  |-> IF (mode \div FmBit) % 2 = 1 THEN "f" ELSE "p",
     decode  |-> (mode \div DecodeBit) % 2 = 1,
     rows    |-> (mode \div 16) % 16,
     columns |-> mode % 16,
     key     |-> key]

\* The key is copied to the beginning of the table.
Execute(a, in) ==
    /\ args' = a
    /\ input' = in /\ output' = <<>>
    /\ half' = NUL /\ symbols' = <<>> /\ buffer' = <<>> /\ prevSpace' = TRUE /\ triple' = <<>>
    /\ tail' = <<>> /\ dirty' = FALSE
    /\ k' = 0
    /\ IF Crashes(a) \/ ValidArgs(a) \in {HelpBit, 0}
       THEN /\ pc' = IF Crashes(a) THEN "crashed"
                     ELSE IF ValidArgs(a) = HelpBit THEN "help" ELSE "usage"
            /\ job' = NoJob /\ table' = <<>>
       ELSE /\ pc' = "table"
            /\ job' = JobOf(ValidArgs(a), Key(a))
            /\ table' = Key(a)

Run ==
    /\ pc = "idle"
    /\ \E a \in Invocations : Execute(a, <<>>)
    /\ UNCHANGED text

RunBack ==
    /\ pc = "done" /\ ~job.decode
    /\ Execute([args EXCEPT !.flags[2] = "d"], output)
    /\ UNCHANGED text

-----------------------------------------------------------------------------
(* The table: p_encode, p_decode, f_encode and f_decode fill theirs by the same loop. *)

Letters == Alphabet(job.cipher)
Size == job.rows * job.columns

\* The loop over the cells behind the key begins with the first character of the
\* alphabet, so it ends before the last ones when there are too few cells.
Turns ==
    IF job.cipher = "p" /\ Size - Len(job.key) < Len(Letters)
    THEN Size - Len(job.key) ELSE Len(Letters)

NoneSkipped(c) == FALSE
InKey(c) == Contains(job.key, c)

\* As many cells as the alphabet has characters are filled and not more.
PlaceLetter ==
    /\ pc = "table" /\ k < Turns
    /\ table' = IF InKey(Letters[k + 1]) \/ Len(table) >= Len(Letters) THEN table
                ELSE Append(table, Letters[k + 1])
    /\ k' = k + 1
    /\ UNCHANGED <<pc, args, job, input, output, reader, text>>

\* The variables of f_decode are not initialized: whatever was in their memory
\* is there.
Uninitialized ==
    IF job.cipher = "f" /\ job.decode THEN tail' \in Tails /\ dirty' \in BOOLEAN
    ELSE UNCHANGED garbage

\* The program asks for its input, and the user of the first run types it.
TableDone ==
    /\ pc = "table" /\ k >= Turns
    /\ pc' = "text"
    /\ IF job.decode THEN UNCHANGED <<input, text>>
       ELSE \E t \in Texts[job.cipher] : input' = t /\ text' = t
    /\ Uninitialized
    /\ UNCHANGED <<args, job, table, k, output, half, symbols, buffer, prevSpace, triple>>

-----------------------------------------------------------------------------
(* The loops over the input *)

Reading(cipher, decode) ==
    /\ pc = "text" /\ job.cipher = cipher /\ job.decode = decode
    /\ input # <<>> /\ symbols = <<>>
    /\ input' = Tail(input)

\* What is left when the input has ended is not written.
EndOfInput ==
    /\ pc = "text" /\ input = <<>> /\ symbols = <<>>
    /\ pc' = "done"
    /\ UNCHANGED <<args, job, table, k, input, output, reader, text>>

Astray ==
    /\ pc' = "astray"
    /\ UNCHANGED <<output, reader>>

\* The position of c, the first one being 0, as findCol and findRow count.
Position(c) ==
    CHOOSE i \in 0..(Len(table) - 1) : /\ table[i + 1] = c
                                       /\ \A j \in 0..(i - 1) : table[j + 1] # c

\* findCol: from 10 on, 'o'.  findRow: from 10 on, 'A'.
RowLikeColumn(i) == (i \div job.columns) + (IF i \div job.columns > 9 THEN 101 ELSE 48)
FindCol(i) == (i % job.columns) + (IF i % job.columns > 9 THEN 101 ELSE 48)
FindRow(i) == (i \div job.columns) + (IF i \div job.columns > 9 THEN 55 ELSE 48)

EncodePolybius ==
    /\ Reading("p", FALSE)
    /\ LET c == Head(input)
       IN  IF c \in Blanks
           THEN output' = Append(output, c) /\ UNCHANGED <<pc, reader>>
           ELSE IF Contains(table, c)
           THEN /\ output' = output \o <<FindRow(Position(c)), FindCol(Position(c))>>
                /\ UNCHANGED <<pc, reader>>
           ELSE Astray
    /\ UNCHANGED <<args, job, table, k, text>>

\* Of the cells that were not filled, and of the memory around the table, zero is read.
Number(c) == IF c > 64 THEN c - 7 - 48 ELSE c - 48
CoordToSym(row, col) ==
    LET at == Number(row) * job.columns + Number(col)
    IN  IF at + 1 \in DOMAIN table THEN table[at + 1] ELSE NUL

DecodePolybius ==
    /\ Reading("p", TRUE)
    /\ LET c == Head(input)
       IN  \/ c \in Blanks /\ half' = NUL /\ output' = Append(output, c)
           \/ c \notin Blanks /\ half = NUL /\ half' = c /\ UNCHANGED output
           \/ /\ c \notin Blanks /\ half # NUL
              /\ half' = NUL /\ output' = Append(output, CoordToSym(half, c))
    /\ UNCHANGED <<pc, args, job, table, k, symbols, buffer, prevSpace, triple, garbage,
                   text>>

\* findKey: fractionated_table counts through all triples of symbols, and ends
\* before the last, which is three separators.
KeyLetter(s) ==
    LET n == 9 * s[1] + 3 * s[2] + s[3]
    IN  IF n = 26 THEN <<>> ELSE IF n < Len(table) THEN <<table[n + 1]>> ELSE <<NUL>>

\* The third symbol makes a letter.
Push(s) ==
    IF Len(buffer) < 2 THEN buffer' = Append(buffer, s) /\ UNCHANGED output
    ELSE buffer' = <<>> /\ output' = output \o KeyLetter(Append(buffer, s))

EverySpaceSeparates == TRUE
\* Of several spaces one separates.
Separates == ~prevSpace

\* A newline drops the symbols that are left over; a character of which
\* morse_table says nothing is no more than its separator.
EncodeFm ==
    /\ Reading("f", FALSE)
    /\ LET c == Head(input)
       IN  \/ /\ c = Newline
              /\ buffer' = <<>>
              /\ output' = IF Len(buffer) < 2 THEN output
                           ELSE output \o KeyLetter(Append(buffer, X))
              /\ UNCHANGED <<pc, symbols, prevSpace>>
           \/ /\ c = Space
              /\ IF Separates THEN Push(X) ELSE UNCHANGED <<output, buffer>>
              /\ prevSpace' = TRUE
              /\ UNCHANGED <<pc, symbols>>
           \/ /\ c \notin {Newline, Space} /\ c \in DOMAIN MorseTable
              /\ symbols' = Append(MorseTable[c], X)
              /\ prevSpace' = (prevSpace /\ MorseTable[c] = <<>>)
              /\ UNCHANGED <<pc, output, buffer>>
           \/ /\ c \notin {Newline, Space} /\ c \notin DOMAIN MorseTable
              /\ pc' = "astray"
              /\ UNCHANGED <<output, symbols, buffer, prevSpace>>
    /\ UNCHANGED <<args, job, table, k, half, triple, garbage, text>>

NextSymbol(decode) ==
    /\ pc = "text" /\ job.cipher = "f" /\ job.decode = decode
    /\ symbols # <<>>
    /\ symbols' = Tail(symbols)

EncodeSymbol ==
    /\ NextSymbol(FALSE)
    /\ Push(Head(symbols))
    /\ UNCHANGED <<pc, args, job, table, k, input, half, prevSpace, triple, garbage, text>>

\* In the buffer a code ends with a byte that is zero.
ByteBehindIsZero(code) == Len(code) < 6 \/ (Len(code) = 6 /\ ~dirty)

\* findMorse: the character with this code, or a blank.
FindMorse(code) ==
    IF /\ code # <<>> /\ ByteBehindIsZero(code)
       /\ \E c \in DOMAIN MorseTable : MorseTable[c] = code
    THEN CHOOSE c \in DOMAIN MorseTable : MorseTable[c] = code ELSE Space

Triple(n) == <<n \div 9, (n \div 3) % 3, n % 3>>

\* A letter that is not in fm_key stands for the one before it.  The memory its
\* symbols are put into is not initialized: the program is astray when the first
\* letter is none, and reads on behind the symbols up to a byte that is zero, of
\* which there may be none in the five that are left of space2.  The first newline
\* ends the program.
DecodeFm ==
    /\ Reading("f", TRUE)
    /\ LET c == Head(input)
       IN  \/ c = Newline /\ pc' = "done" /\ UNCHANGED <<symbols, triple>>
           \/ /\ c # Newline /\ ~Contains(table, c) /\ triple = <<>>
              /\ pc' = "astray" /\ UNCHANGED <<symbols, triple>>
           \/ /\ c # Newline
              /\ triple' = IF Contains(table, c) THEN Triple(Position(c)) ELSE triple
              /\ triple' # <<>>
              /\ symbols' = triple' \o tail
              /\ pc' = IF Len(tail) < 5 THEN pc ELSE "astray"
    /\ UNCHANGED <<args, job, table, k, output, half, buffer, prevSpace, garbage, text>>

Separated == buffer # <<>> /\ Head(buffer) = X

\* A separator ends a letter and is kept; a second one is a space.  The buffer has
\* room for eight symbols.
DecodeSymbol ==
    /\ NextSymbol(TRUE)
    /\ LET s == Head(symbols)
       IN  \/ /\ s = X /\ Separated
              /\ output' = Append(output, Space) /\ buffer' = <<>>
           \/ /\ s = X /\ ~Separated
              /\ output' = Append(output, FindMorse(buffer)) /\ buffer' = <<X>>
           \/ /\ s # X
              /\ buffer' = IF Separated THEN <<s>> ELSE Append(buffer, s)
              /\ UNCHANGED output
    /\ dirty' = (dirty \/ Len(buffer') = 7)
    /\ pc' = IF Len(buffer') > 8 THEN "astray" ELSE pc
    /\ UNCHANGED <<args, job, table, k, input, half, prevSpace, triple, tail, text>>

Next ==
    \/ Run \/ RunBack
    \/ PlaceLetter \/ TableDone
    \/ EncodePolybius \/ DecodePolybius \/ EncodeFm \/ DecodeFm
    \/ EncodeSymbol \/ DecodeSymbol \/ EndOfInput

Spec == Init /\ [][Next]_vars

=============================================================================
