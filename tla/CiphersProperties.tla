-------------------------- MODULE CiphersProperties --------------------------
(* What is claimed of the cipher program. *)
EXTENDS Ciphers

Jobs == [cipher : {"p", "f"}, decode : BOOLEAN, rows : MinSide..MaxSide,
         columns : MinSide..MaxSide, key : Seq(Char)]

Working == {"table", "text", "done", "astray"}

\* The types of the variables; a run that is not refused has read from the bits
\* of its mode a table that the user may ask for.
TypeOK ==
    /\ pc \in {"idle", "help", "usage", "crashed"} \cup Working
    /\ pc \in Working => job \in Jobs
    /\ table \in Seq(Char)
    /\ k \in Nat
    /\ input \in Seq(0..127) /\ output \in Seq(0..127)
    /\ half \in 0..127 /\ prevSpace \in BOOLEAN
    /\ symbols \in Seq(0..Other) /\ buffer \in Seq(0..Other) /\ triple \in Seq(0..X)
    /\ tail \in Seq(0..Other) /\ dirty \in BOOLEAN
    /\ text \in Seq(Char)

\* What the user has to see to, as validargs does not: no character of the key
\* is repeated, be it at a distance, and no cell of the table is missing for the
\* characters the key puts before the others.
KeyDistinct == IsInjective(job.key)
RoomForKey == job.cipher = "p" => Size >= Len(Letters) + Len(job.key)

\* Whatever the key is, the filled table is the alphabet in another order, and
\* every character has one cell.
TableIsAlphabet ==
    pc \in Working \ {"table"} /\ KeyDistinct /\ RoomForKey =>
        /\ Len(table) = Len(Letters)
        /\ IsInjective(table)
        /\ ToSet(table) = ToSet(Letters)

\* What has been encoded, and how: the fields main reads do not change.
Decoded(cipher) == pc = "done" /\ job.cipher = cipher /\ job.decode

OfAlphabet(t) == \A i \in DOMAIN t : t[i] \in Blanks \/ Contains(PolybiusAlphabet, t[i])

\* findCol and findRow find what they look for, and decoding gives the text back,
\* except for the characters in columns above 9.
PolybiusRoundTrip ==
    KeyDistinct /\ RoomForKey /\ job.cipher = "p" /\ OfAlphabet(text) =>
        /\ pc # "astray"
        /\ Decoded("p") =>
              /\ Len(output) = Len(text)
              /\ \A i \in DOMAIN text :
                    text[i] \in Blanks \/ Position(text[i]) % job.columns <= 9
                        => output[i] = text[i]

-----------------------------------------------------------------------------
(* Morse code: a text of one line, and what of it can come back. *)

InMorse(c) == c \in DOMAIN MorseTable /\ MorseTable[c] # <<>>

\* Of several spaces one is kept, and none before the first letter: what is kept
\* of the first n characters.
Kept(t) ==
    LET kept[n \in 0..Len(t)] ==
          IF n = 0 THEN <<>>
          ELSE IF t[n] = Space /\ (kept[n - 1] = <<>> \/ Last(kept[n - 1]) = Space)
          THEN kept[n - 1] ELSE Append(kept[n - 1], t[n])
    IN  kept
Collapsed(t) == Kept(t)[Len(t)]

\* The symbols of a character are those of its letter and a separator.
MorseCode(c) == IF c = Space THEN <<X>> ELSE Append(MorseTable[c], X)

\* How many symbols the first n characters of a line have.
Ends(line) ==
    LET ends[n \in 0..Len(line)] ==
          IF n = 0 THEN 0 ELSE ends[n - 1] + Len(MorseCode(line[n]))
    IN  ends

\* The line has a separator of its own.
Symbols(line) == 1 + Ends(line)[Len(line)]

\* The texts that can come back: what is kept of the line ends with a letter.
Line == Collapsed(Front(text))
MorseLine ==
    /\ text # <<>> /\ Last(text) = Newline
    /\ \A i \in 1..(Len(text) - 1) : text[i] = Space \/ InMorse(text[i])
WholeLine == Line # <<>> /\ Last(Line) # Space

\* What comes back of a character: the decoder does not see the end of a code of
\* six symbols when the byte behind them was not zero before it began.
Legible(c) == IF dirty /\ c # Space /\ Len(MorseTable[c]) = 6 THEN Space ELSE c
LegibleLine == [i \in DOMAIN Line |-> Legible(Line[i])]

\* When the byte of memory behind the three symbols of a letter is zero, which
\* nothing in the code sees to: symbols are written by threes and what is left over
\* is not, so a line comes back with a space, as it is, or without its last letter,
\* and each of its characters as far as it is legible.
MorseRoundTrip ==
    Decoded("f") /\ KeyDistinct /\ MorseLine /\ WholeLine /\ tail = <<>> =>
        LET left == Symbols(Line) % 3
        IN  output = CASE left = 0 -> Append(LegibleLine, Space)
                       [] left = 1 -> LegibleLine
                       [] left = 2 -> Front(LegibleLine)

=============================================================================
