-------------------------------- MODULE Utf --------------------------------
(***************************************************************************)
(* The converters of hw2/src: a file in UTF-8 or one of the two forms of   *)
(* UTF-16, told by its byte order mark, is read a character at a time and  *)
(* written in another form, on a little-endian machine.                    *)
(*                                                                         *)
(* One action is one turn of a conversion loop.  A file may be cut off     *)
(* anywhere, a read then fills only a part of its buffer, and what the     *)
(* buffer held before is used for the rest.  The output file may have been *)
(* there before: it is opened without O_TRUNC and keeps its end.           *)
(*                                                                         *)
(* The program is run again and again, on the files of a disk; nothing     *)
(* else writes to them, so what a run writes is put there when it is over. *)
(***************************************************************************)
EXTENDS Integers, Sequences

CONSTANTS
    Files,     \* the files a user may have: a text, its form, all its bytes, and how
               \* many of them are there
    Source,    \* the name of that file
    Before,    \* what is on the disk besides, for each name its bytes
    Words,     \* the words that may be arguments
    Commands,  \* the arguments the program may be run with
    NULL,      \* no name
    Stack,     \* what the uninitialized buffer of a run may hold, four bytes
    MaxRuns    \* bound: how often the program is run

Byte == 0..255
Encodings == {"UTF8", "UTF16LE", "UTF16BE"}
\* Of the arguments that begin with a dash, -x stands for the ones not known.
Options == {"-e", "-h", "-x"}

ASSUME UtfAssumption ==
    /\ \A f \in Files : f.whole \in Seq(Byte) /\ f.cut \in 0..Len(f.whole)
    /\ \A n \in DOMAIN Before : Before[n] \in Seq(Byte)
    /\ Commands \subseteq Seq(Words) /\ NULL \notin Words
    /\ Stack \subseteq [1..4 -> Byte]
    /\ MaxRuns \in Nat

VARIABLES
    user,   \* history: the user's file
    disk,   \* the bytes of every file that is there
    pc,     \* "idle", "parse", "convert", "exit", or "crashed"
    commands,         \* history: the arguments of each run
    args,             \* those of this run from optind on
    inFile, outFile,
    file,   \* what is read
    from, to,
    pos,    \* how much of it was read
    buf,    \* the glyph that is read
    out,    \* what has been written
    stray   \* history: a second unit was read because of what lower_bytes held

\* What a conversion leaves alone.
arguments == <<commands, args, inFile, outFile>>
vars == <<user, disk, pc, arguments, file, from, to, pos, buf, out, stray>>

\* How often the program was run.
runs == Len(commands)

Appended(d, name, bytes) ==
    [n \in DOMAIN d \cup {name} |->
        IF n # name THEN d[n] ELSE (IF n \in DOMAIN d THEN d[n] ELSE <<>>) \o bytes]
\* The disk once the bytes are written to a file from its beginning on.
Written(d, name, bytes) ==
    [n \in DOMAIN d \cup {name} |->
        IF n # name THEN d[n]
        ELSE bytes \o (IF n \in DOMAIN d THEN SubSeq(d[n], Len(bytes) + 1, Len(d[n])) ELSE <<>>)]

Init ==
    /\ pc = "idle"
    /\ user \in Files
    /\ disk = [n \in DOMAIN Before \cup {Source} |->
                 IF n = Source THEN SubSeq(user.whole, 1, user.cut) ELSE Before[n]]
    /\ commands = <<>> /\ args = <<>>
    /\ inFile = NULL /\ outFile = NULL
    /\ file = <<>>
    /\ from = "none" /\ to = "none"
    /\ pos = 0
    /\ buf = [i \in 1..4 |-> 0]
    /\ out = <<>>
    /\ stray = FALSE

-----------------------------------------------------------------------------
(* Reading *)

\* read of n bytes at p into the buffer after its first k bytes: there may be
\* fewer, and the others stay what they were.
Filled(b, k, p, n) ==
    [i \in 1..4 |-> IF i \in (k + 1)..(k + n) /\ p + i - k <= Len(file)
                    THEN file[p + i - k] ELSE b[i]]

\* reverse_bytes of the two bytes from the i-th on.
Reversed(b, i) == [b EXCEPT ![i] = b[i + 1], ![i + 1] = b[i]]

\* upper_bytes and lower_bytes, as the machine sees them.
Upper(b) == b[1] + 256 * b[2]
Lower(b) == b[3] + 256 * b[4]

\* The offset of the file after a read of n bytes at p.
After(p, n) == IF p + n < Len(file) THEN p + n ELSE Len(file)

-----------------------------------------------------------------------------
(* UTF-8 *)

SizeBelow(cp) ==
    IF cp < 127 THEN 1 ELSE IF cp < 2047 THEN 2 ELSE IF cp < 65535 THEN 3 ELSE 4
Size(cp) ==
    IF cp <= 127 THEN 1 ELSE IF cp <= 2047 THEN 2 ELSE IF cp <= 65535 THEN 3 ELSE 4

Unmasked(cp, shift) == 128 + (cp \div shift)
\* A byte 10xx xxxx with six bits of the code point.
Six(cp, shift) == 128 + ((cp \div shift) % 64)

EncodeUtf8(cp) ==
    IF Size(cp) = 1 THEN <<cp>>
    ELSE IF Size(cp) = 2 THEN <<192 + ((cp \div 64) % 32), Six(cp, 1)>>
    ELSE IF Size(cp) = 3 THEN <<224 + ((cp \div 4096) % 16), Six(cp, 64), Six(cp, 1)>>
    ELSE <<240 + ((cp \div 262144) % 8), Six(cp, 4096), Six(cp, 64), Six(cp, 1)>>

RemainingByFour(first) ==
    IF first \div 16 >= 14 THEN 2 ELSE IF first \div 32 = 6 THEN 1 ELSE 0
\* remaining_utf8_bytes looks at the top five, four and three bits.
Remaining(first) ==
    IF first \div 8 = 30 THEN 3
    ELSE IF first \div 16 = 14 THEN 2
    ELSE IF first \div 32 = 6 THEN 1
    ELSE 0

DecodeUtf8(n, b) ==
    IF n = 1 THEN b[1]
    ELSE IF n = 2 THEN (b[1] % 32) * 64 + (b[2] % 64)
    ELSE IF n = 3 THEN (b[1] % 16) * 4096 + (b[2] % 64) * 64 + (b[3] % 64)
    ELSE (b[1] % 8) * 262144 + (b[2] % 64) * 4096 + (b[3] % 64) * 64 + (b[4] % 64)

-----------------------------------------------------------------------------
(* UTF-16 *)

\* The bytes of a unit.
LowFirst(u) == <<u % 256, (u \div 256) % 256>>
HighFirst(u) == <<(u \div 256) % 256, u % 256>>
Unit(enc, u) == IF enc = "UTF16LE" THEN LowFirst(u) ELSE HighFirst(u)

PairAbove(cp) == cp > 65536
\* is_code_point_surrogate.
NeedsPair(cp) == cp >= 65536

EncodeUtf16(enc, cp) ==
    IF NeedsPair(cp)
    THEN LET rest == cp - 65536
         IN  Unit(enc, (rest \div 1024) + 55296) \o Unit(enc, (rest % 1024) + 56320)
    ELSE Unit(enc, cp)

\* The bounds themselves, D800, DBFF, DC00 and DFFF, are not taken for surrogates.
IsUpperSurrogate(u) == u > 55296 /\ u < 56319
IsLowerSurrogate(u) == u > 56320 /\ u < 57343

\* utf16_glyph_to_code_point.
DecodeUtf16(b) ==
    IF IsUpperSurrogate(Upper(b))
    THEN (Upper(b) - 55296) * 1024 + ((Lower(b) - 56320) % 1024) + 65536
    ELSE Upper(b)

-----------------------------------------------------------------------------
(* The beginning of a run *)

\* The byte order mark of each form, in the file and, of UTF-16, as the reversed
\* constant of the program.
Bom(enc) ==
    IF enc = "UTF8" THEN <<239, 187, 191>>
    ELSE IF enc = "UTF16LE" THEN <<255, 254>> ELSE <<254, 255>>
ReversedBom(enc) == IF enc = "UTF16LE" THEN 65279 ELSE 65534

\* The program is run.
Run ==
    /\ pc = "idle" /\ runs < MaxRuns
    /\ args' \in Commands
    /\ commands' = Append(commands, args')
    /\ inFile' = NULL /\ outFile' = NULL /\ to' = "none"
    /\ pc' = "parse" /\ stray' = FALSE
    /\ UNCHANGED <<user, disk, file, from, pos, buf, out>>

NextArg == pc = "parse" /\ args # <<>>

\* parse_args: getopt takes the word after -e, whatever it is.
Encoding ==
    /\ NextArg /\ Head(args) = "-e" /\ Len(args) >= 2
    /\ to' = IF args[2] \in Encodings THEN args[2] ELSE "none"
    /\ args' = SubSeq(args, 3, Len(args))
    /\ UNCHANGED <<user, disk, pc, commands, inFile, outFile, file, from, pos, buf, out, stray>>

\* -h, an argument not known, or -e at the end.
Usage ==
    /\ NextArg /\ Head(args) \in Options /\ (Head(args) = "-e" => Len(args) = 1)
    /\ pc' = "exit"
    /\ UNCHANGED <<user, disk, arguments, file, from, to, pos, buf, out, stray>>

LastName ==
    /\ NextArg /\ Head(args) \notin Options
    /\ args' = Tail(args)
    /\ inFile' = IF inFile = NULL THEN Head(args) ELSE inFile
    /\ outFile' = IF inFile # NULL THEN Head(args) ELSE outFile
    /\ UNCHANGED <<user, disk, pc, commands, file, from, to, pos, buf, out, stray>>
\* getopt stops at a word that is no option; it is the first or second file, or
\* one too many.
Name ==
    /\ NextArg /\ Head(args) \notin Options
    /\ args' = Tail(args)
    /\ inFile' = IF inFile = NULL THEN Head(args) ELSE inFile
    /\ outFile' = IF inFile # NULL /\ outFile = NULL THEN Head(args) ELSE outFile
    /\ UNCHANGED <<user, disk, pc, commands, file, from, to, pos, buf, out, stray>>

Parsed == pc = "parse" /\ args = <<>>

\* check_bom: three bytes are read also where the mark has two.
StartsWith(enc) ==
    /\ inFile \in DOMAIN disk /\ Len(disk[inFile]) >= 3
    /\ SubSeq(disk[inFile], 1, Len(Bom(enc))) = Bom(enc)

\* No input, or one that is not there, too short or without a mark, or no output.
Refuse ==
    /\ Parsed
    /\ (\A e \in Encodings : ~StartsWith(e)) \/ outFile = NULL
    /\ pc' = "exit"
    /\ UNCHANGED <<user, disk, arguments, file, from, to, pos, buf, out, stray>>

Opens(enc) ==
    /\ Parsed /\ StartsWith(enc) /\ outFile # NULL
    /\ from' = enc
    /\ disk' = Written(disk, outFile, <<>>)
    /\ UNCHANGED <<user, arguments, to, stray>>

\* Without an encoding get_encoding_function returns NULL, which is called when
\* the output file was made.
Crash(enc) ==
    /\ Opens(enc) /\ to = "none"
    /\ pc' = "crashed"
    /\ UNCHANGED <<file, pos, buf, out>>

\* The mark the conversion function writes.  The lseek that should pass over the
\* mark of the file names its arguments in the wrong order and leaves the file
\* where it is.  Bound: no file is converted onto itself.
Start(enc) ==
    /\ Opens(enc) /\ to # "none" /\ inFile # outFile
    /\ file' = disk[inFile]
    /\ pos' = 0
    /\ out' = IF enc = to THEN <<>> ELSE Bom(to)
    /\ buf' \in Stack
    /\ pc' = "convert"

Reads == pc = "convert" /\ pos < Len(file)

\* The run is over, and the bytes are in its output file.
Done(bytes) == pc' = "idle" /\ disk' = Written(disk, outFile, bytes)

\* transcribe: sendfile of the whole file.
Transcribe ==
    /\ pc = "convert" /\ from = to
    /\ out' = file /\ pos' = Len(file)
    /\ Done(file)
    /\ UNCHANGED <<user, arguments, file, from, to, buf, stray>>

\* Nothing is left to read.
AtEnd ==
    /\ pc = "convert" /\ from # to
    /\ pos = Len(file)
    /\ Done(out)
    /\ UNCHANGED <<user, arguments, file, from, to, pos, buf, out, stray>>

\* from_utf8_to_utf16le and ...be.
FromUtf8 ==
    /\ Reads /\ from = "UTF8" /\ to # "UTF8"
    /\ LET first == Filled(buf, 0, pos, 1)
           more == Remaining(first[1])
           glyph == Filled(first, 1, pos + 1, more)
       IN  /\ buf' = glyph
           /\ pos' = After(pos + 1, more)
           /\ out' = out \o EncodeUtf16(to, DecodeUtf8(more + 1, glyph))
    /\ UNCHANGED <<user, disk, pc, arguments, file, from, to, stray>>

LineFeed(u) == u = 10
\* A000, 0A00, 00A0 and 000A, whichever way round their bytes are.
Stops(u) == u \in {40960, 2560, 160, 10}

\* from_utf16le_to_utf16be and its opposite: marks are left out, a line end ends
\* the conversion, and whether a second unit is read depends on what lower_bytes
\* held before.
SwapUnits ==
    /\ Reads /\ {from, to} = {"UTF16LE", "UTF16BE"}
    /\ LET one == Reversed(Filled(buf, 0, pos, 2), 1)
           two == Reversed(Filled(one, 2, pos + 2, 2), 3)
       IN  \/ /\ Upper(one) = ReversedBom(to)
              /\ buf' = one /\ pos' = After(pos, 2)
              /\ UNCHANGED <<pc, disk, out, stray>>
           \/ /\ Upper(one) # ReversedBom(to) /\ Stops(Upper(one))
              /\ buf' = one /\ pos' = After(pos, 2)
              /\ Done(out)
              /\ UNCHANGED <<out, stray>>
           \/ /\ Upper(one) # ReversedBom(to) /\ ~Stops(Upper(one))
              /\ ~IsLowerSurrogate(Lower(one))
              /\ buf' = one /\ pos' = After(pos, 2)
              /\ out' = out \o SubSeq(one, 1, 2)
              /\ UNCHANGED <<pc, disk, stray>>
           \/ /\ Upper(one) # ReversedBom(to) /\ ~Stops(Upper(one))
              /\ IsLowerSurrogate(Lower(one))
              /\ buf' = two /\ pos' = After(pos, 4)
              /\ out' = out \o two /\ stray' = TRUE
              /\ UNCHANGED <<pc, disk>>
    /\ UNCHANGED <<user, arguments, file, from, to>>

\* The units of UTF16BE are reversed before they are used.
InOrder(b, i) == IF from = "UTF16BE" THEN Reversed(b, i) ELSE b

\* from_utf16le_to_utf8 and from_utf16be_to_utf8.
ToUtf8 ==
    /\ Reads /\ from # "UTF8" /\ to = "UTF8"
    /\ LET raw == Filled(buf, 0, pos, 2)
           one == InOrder(raw, 1)
           two == InOrder(Filled(one, 2, pos + 2, 2), 3)
           pair == IsUpperSurrogate(Upper(one))
       IN  \/ /\ Upper(raw) = ReversedBom(from)
              /\ buf' = raw /\ pos' = After(pos, 2)
              /\ UNCHANGED <<pc, disk, out>>
           \/ /\ Upper(raw) # ReversedBom(from) /\ Stops(Upper(raw))
              /\ buf' = raw /\ pos' = After(pos, 2)
              /\ Done(out)
              /\ UNCHANGED out
           \/ /\ Upper(raw) # ReversedBom(from) /\ ~Stops(Upper(raw))
              /\ buf' = IF pair THEN two ELSE one
              /\ pos' = After(pos, IF pair THEN 4 ELSE 2)
              /\ out' = out \o EncodeUtf8(DecodeUtf16(buf'))
              /\ UNCHANGED <<pc, disk>>
    /\ UNCHANGED <<user, arguments, file, from, to, stray>>

Next ==
    \/ Run \/ Encoding \/ Usage \/ Name \/ Refuse
    \/ \E enc \in Encodings : Crash(enc) \/ Start(enc)
    \/ Transcribe \/ FromUtf8 \/ SwapUnits \/ ToUtf8 \/ AtEnd

Spec == Init /\ [][Next]_vars

=============================================================================
