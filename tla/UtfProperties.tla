--------------------------- MODULE UtfProperties ---------------------------
(* What is claimed of the converters.  What the bytes of a text are is said *)
(* here by what they stand for, not by how they are made.                   *)
EXTENDS Utf, FiniteSets

CodePoint == {cp \in Nat : cp <= 1114111}
Mark == 65279
\* What is kept of the first k characters when the marks are left out.
Kept(text) ==
    LET kept[k \in 0..Len(text)] ==
            IF k = 0 THEN <<>>
            ELSE IF text[k] = Mark THEN kept[k - 1] ELSE Append(kept[k - 1], text[k])
    IN  kept
NoMarks(text) == Kept(text)[Len(text)]

\* The value of a UTF-16 unit of the bytes a and b.
Value(enc, a, b) == IF enc = "UTF16LE" THEN a + 256 * b ELSE 256 * a + b
HighSurrogate == 55296..56319
LowSurrogate == 56320..57343
Continuation == 128..191

\* The bytes s are the code point cp.
DenotesUtf8(s, cp) ==
    \/ Len(s) = 1 /\ s[1] \in 0..127 /\ cp = s[1]
    \/ /\ Len(s) = 2 /\ s[1] \in 194..223 /\ s[2] \in Continuation
       /\ cp = (s[1] - 192) * 64 + (s[2] - 128)
    \/ /\ Len(s) = 3 /\ s[1] \in 224..239 /\ s[2] \in Continuation /\ s[3] \in Continuation
       /\ cp = (s[1] - 224) * 4096 + (s[2] - 128) * 64 + (s[3] - 128)
       /\ cp >= 2048 /\ cp \notin HighSurrogate \cup LowSurrogate
    \/ /\ Len(s) = 4 /\ s[1] \in 240..244
       /\ s[2] \in Continuation /\ s[3] \in Continuation /\ s[4] \in Continuation
       /\ cp = (s[1] - 240) * 262144 + (s[2] - 128) * 4096 + (s[3] - 128) * 64 + (s[4] - 128)
       /\ cp >= 65536 /\ cp <= 1114111
DenotesUtf16(enc, s, cp) ==
    \/ Len(s) = 2 /\ cp = Value(enc, s[1], s[2]) /\ cp \notin HighSurrogate \cup LowSurrogate
    \/ /\ Len(s) = 4
       /\ Value(enc, s[1], s[2]) \in HighSurrogate /\ Value(enc, s[3], s[4]) \in LowSurrogate
       /\ cp = 65536 + (Value(enc, s[1], s[2]) - 55296) * 1024
               + (Value(enc, s[3], s[4]) - 56320)
Denotes(enc, s, cp) == IF enc = "UTF8" THEN DenotesUtf8(s, cp) ELSE DenotesUtf16(enc, s, cp)

\* In UTF-8 the code points below the n-th of these take n bytes at most.
Bounds == <<128, 2048, 65536, 1114112>>
WidthUtf8(cp) == CHOOSE n \in 1..4 : cp < Bounds[n] /\ (n > 1 => cp >= Bounds[n - 1])
Width(enc, cp) ==
    IF enc = "UTF8" THEN WidthUtf8(cp) ELSE IF cp < 65536 THEN 2 ELSE 4

\* How many bytes the first k characters of a text take.
Offset(enc, text) ==
    LET off[k \in 0..Len(text)] == IF k = 0 THEN 0 ELSE off[k - 1] + Width(enc, text[k])
    IN  off

\* The bytes are the text.
Spells(enc, bytes, text) ==
    LET off == Offset(enc, text)
    IN  /\ Len(bytes) = off[Len(text)]
        /\ \A k \in 1..Len(text) :
              Denotes(enc, SubSeq(bytes, off[k - 1] + 1, off[k]), text[k])

\* A user's file is the mark and the text.
Content == <<Mark>> \o user.text
ASSUME FilesAssumption ==
    \A f \in Files :
        /\ f.enc \in Encodings /\ f.text \in Seq(CodePoint)
        /\ Spells(f.enc, f.whole, <<Mark>> \o f.text)

Prefix(k) == SubSeq(Content, 1, k)
Place(k) == Offset(from, Content)[k]
Places == 0..Len(Content)

\* What the program writes for the characters it has read: the mark anew, and
\* with them the one of the file unless that is UTF-16.
Rendering(text) == <<Mark>> \o (IF from = "UTF8" THEN text ELSE NoMarks(text))

FirstRun == pc = "convert" /\ runs = 1 /\ inFile = Source /\ from # to
Whole == user.cut = Len(user.whole)

\* The characters whose first or second unit the program takes for no surrogate.
Misread(cp) == (cp >= 65536 /\ cp <= 66559) \/ (cp >= 1113088 /\ cp <= 1114111)
MisreadIn(text) == \E k \in DOMAIN text : Misread(text[k])

\* The types of the variables: what is written is bytes.
TypeOK ==
    /\ user.cut \in 0..Len(user.whole)
    /\ \A n \in DOMAIN disk : disk[n] \in Seq(Byte)
    /\ pc \in {"idle", "parse", "convert", "exit", "crashed"}
    /\ commands \in Seq(Commands) /\ runs <= MaxRuns
    /\ args \in Seq(Words) /\ {inFile, outFile} \subseteq Words \cup {NULL}
    /\ file \in Seq(Byte) /\ out \in Seq(Byte)
    /\ {from, to} \subseteq Encodings \cup {"none"}
    /\ pos \in Nat
    /\ pc = "convert" => pos <= Len(file) /\ {from, to} \subseteq Encodings
    /\ buf \in [1..4 -> Byte] /\ stray \in BOOLEAN

\* From UTF-8, of any text: the program is always between two characters, and
\* has written exactly those before it.
FromUtf8Exact ==
    FirstRun /\ Whole /\ from = "UTF8" =>
        \E k \in Places : pos = Place(k) /\ Spells(to, out, Rendering(Prefix(k)))

\* From UTF-16 as well, but for the marks within the text and the characters that
\* are misread; into the other form of UTF-16 it may be between the units of one,
\* and all this only as long as uninitialized memory is not taken for a surrogate.
FromUtf16Exact ==
    FirstRun /\ Whole /\ from # "UTF8" /\ ~stray
        /\ (to = "UTF8" => ~MisreadIn(user.text))
    => /\ \A k \in Places : pos = Place(k) => Spells(to, out, Rendering(Prefix(k)))
       /\ to = "UTF8" => \E k \in Places : pos = Place(k)

\* A file that is cut off within a character comes out as the characters before
\* it and no more than one other.
CutCostsOneCharacter ==
    FirstRun /\ ~stray /\ (from # "UTF8" /\ to = "UTF8" => ~MisreadIn(user.text))
    => \E k \in Places :
           /\ Place(k) <= pos
           /\ k < Len(Content) => pos <= Place(k + 1)
           /\ LET n == Offset(to, Rendering(Prefix(k)))[Len(Rendering(Prefix(k)))]
              IN  /\ n <= Len(out) /\ Len(out) <= n + 4
                  /\ Spells(to, SubSeq(out, 1, n), Rendering(Prefix(k)))

\* A conversion, whichever way, has written exactly the characters it has read:
\* widths, bit layouts and surrogate pairs agree on both sides, and the bytes a
\* short read leaves in the buffer cost no more than the character that is cut off.
ConversionExact == FromUtf8Exact /\ FromUtf16Exact /\ CutCostsOneCharacter

LineEnds == {10, 160, 2560, 40960}
BeforeLineEnd(text) ==
    LET ends == {k \in DOMAIN text : text[k] \in LineEnds}
    IN  IF ends = {} THEN text
        ELSE SubSeq(text, 1, (CHOOSE k \in ends : \A j \in ends : k <= j) - 1)

\* What the output file of a run held before the first.
OldBytes(name) == IF name \in DOMAIN Before THEN Before[name] ELSE <<>>

\* The bytes begin with the text, and what follows is the rest of an old file.
BeginsWith(enc, bytes, text, old) ==
    LET n == Offset(enc, text)[Len(text)]
    IN  /\ Len(bytes) >= n /\ Spells(enc, SubSeq(bytes, 1, n), text)
        /\ \A i \in (n + 1)..Len(bytes) : i <= Len(old) /\ bytes[i] = old[i]

\* What a whole run makes of the user's file.
Converted == IF from = "UTF8" THEN Rendering(Content)
             ELSE <<Mark>> \o NoMarks(BeforeLineEnd(user.text))

\* A run leaves all of the text in its output file, up to the first line end if it
\* comes from UTF-16; whatever else is in there was there before, at its place.
OutputComplete ==
    pc = "idle" /\ runs = 1 /\ Whole /\ inFile = Source /\ from # to /\ ~stray
        /\ (from # "UTF8" /\ to = "UTF8" => ~MisreadIn(user.text))
    => BeginsWith(to, disk[outFile], Converted, OldBytes(outFile))

-----------------------------------------------------------------------------
(* The arguments *)

\* A -e is an option, not the encoding of the one before it, if an odd number of
\* them in a row ends with it.
IsFlag(c, i) ==
    /\ c[i] = "-e"
    /\ LET words == {j \in 0..(i - 1) : j = 0 \/ c[j] # "-e"}
           last == CHOOSE j \in words : \A k \in words : k <= j
       IN  (i - last) % 2 = 1
NameSlots(c) ==
    {i \in DOMAIN c : c[i] \notin Options /\ (i > 1 => ~IsFlag(c, i - 1))}
\* The k-th name, and NULL if there are fewer.
NameOf(c, k) ==
    LET slots == {i \in NameSlots(c) : Cardinality(NameSlots(c) \cap 1..i) = k}
    IN  IF slots = {} THEN NULL ELSE c[CHOOSE i \in slots : TRUE]
LastFlag(c) == {i \in DOMAIN c : IsFlag(c, i) /\ \A j \in DOMAIN c : IsFlag(c, j) => j <= i}
EncodingOf(c) ==
    IF \E i \in LastFlag(c) : c[i + 1] \in Encodings
    THEN c[(CHOOSE i \in LastFlag(c) : TRUE) + 1] ELSE "none"

\* Options and names come in any order: the last encoding counts, and the first two
\* names are the input and the output.  Only a line without an encoding crashes.
ArgsAreMeant ==
    LET c == commands[runs]
    IN  pc \in {"convert", "crashed"} =>
            /\ inFile = NameOf(c, 1) /\ outFile = NameOf(c, 2) /\ to = EncodingOf(c)
            /\ ("-h" \in {c[i] : i \in DOMAIN c} =>
                   \E i \in DOMAIN c : c[i] = "-h" /\ i > 1 /\ IsFlag(c, i - 1))
            /\ pc = "crashed" <=> to = "none"

\* There and back by way of UTF-8, or from UTF-8: the text up to its first line
\* end comes back, without the marks that were in it, and nothing else if the file
\* in between was a new one.
RoundTrip ==
    LET way == NameOf(commands[1], 2)
        text == (IF to = "UTF8" THEN <<Mark>> ELSE <<Mark, Mark>>)
                    \o NoMarks(BeforeLineEnd(user.text))
        n == Offset(to, text)[Len(text)]
    IN  pc = "idle" /\ runs = 2 /\ Whole /\ ~MisreadIn(user.text)
            /\ to = user.enc /\ from # to /\ "UTF8" \in {from, to}
            /\ NameOf(commands[1], 1) = Source /\ inFile = way
        => /\ Len(out) >= n /\ Spells(to, SubSeq(out, 1, n), text)
           /\ way \notin DOMAIN Before => Len(out) = n

=============================================================================
