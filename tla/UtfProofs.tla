----------------------------- MODULE UtfProofs -----------------------------
(***************************************************************************)
(* What holds of the converters for every code point, every file and       *)
(* whatever the buffer holds: the types, that the bytes which are made for  *)
(* a code point are those that stand for it, and that one turn of a loop    *)
(* reads a character whole and writes it whole.  From there to whole runs: *)
(* what has been written at any time is the text as far as it was read,    *)
(* what is converted, and into what, is what the line of a run says, and a *)
(* text that is converted to another form and back comes back.             *)
(***************************************************************************)
EXTENDS UtfProperties, Induction, SequenceTheorems, TLAPS

Word == {u \in Nat : u < 65536}
Scalar == {cp \in Nat : cp <= 1114111 /\ cp \notin HighSurrogate \cup LowSurrogate}

-----------------------------------------------------------------------------
(* Code points and their bytes *)

\* Every scalar value is written in UTF-8 as the standard has it.
THEOREM EncodesUtf8 == \A cp \in Scalar : DenotesUtf8(EncodeUtf8(cp), cp)
<1> SUFFICES ASSUME NEW cp \in Scalar PROVE DenotesUtf8(EncodeUtf8(cp), cp)
  OBVIOUS
<1>1. CASE cp <= 127
  BY <1>1, SMTT(20) DEF Scalar, DenotesUtf8, EncodeUtf8, Size
<1>2. CASE cp > 127 /\ cp <= 2047
  BY <1>2, SMTT(20) DEF Scalar, DenotesUtf8, EncodeUtf8, Size, Six, Continuation
<1>3. CASE cp > 2047 /\ cp <= 65535
  BY <1>3, SMTT(60) DEF Scalar, DenotesUtf8, EncodeUtf8, Size, Six, Continuation, HighSurrogate, LowSurrogate
<1>4. CASE cp > 65535
  BY <1>4, SMTT(60) DEF Scalar, DenotesUtf8, EncodeUtf8, Size, Six, Continuation
<1> QED
  BY <1>1, <1>2, <1>3, <1>4, SMTT(20) DEF Scalar

\* A unit's bytes, in either order, have its value.
LEMMA UnitHasValue ==
    ASSUME NEW enc \in {"UTF16LE", "UTF16BE"}, NEW u \in Word
    PROVE  /\ Unit(enc, u) \in Seq(Byte) /\ Len(Unit(enc, u)) = 2
           /\ Value(enc, Unit(enc, u)[1], Unit(enc, u)[2]) = u
<1> DEFINE l == u % 256
           h == (u \div 256) % 256
<1>1. l \in Byte /\ h \in Byte /\ u = l + 256 * h
  BY SMTT(20) DEF Byte, Word
<1>2. Unit(enc, u) = IF enc = "UTF16LE" THEN <<l, h>> ELSE <<h, l>>
  BY SMTT(20) DEF Unit, LowFirst, HighFirst
<1> HIDE DEF l, h
<1>3. Unit(enc, u) \in Seq(Byte) /\ Len(Unit(enc, u)) = 2
  <2>1. \A x, y \in Byte : <<x, y>> \in Seq(Byte) /\ Len(<<x, y>>) = 2
    BY SMTT(20)
  <2> QED
    BY <1>1, <1>2, <2>1, ZenonT(30)
<1>4. Value(enc, Unit(enc, u)[1], Unit(enc, u)[2]) = l + 256 * h
  BY <1>1, <1>2, SMTT(20) DEF Value, Byte
<1> QED
  BY <1>1, <1>3, <1>4, SMTT(20)

LEMMA TwoUnits ==
    ASSUME NEW a \in Seq(Byte), NEW b \in Seq(Byte), Len(a) = 2, Len(b) = 2
    PROVE  /\ a \o b \in Seq(Byte) /\ Len(a \o b) = 4
           /\ (a \o b)[1] = a[1] /\ (a \o b)[2] = a[2]
           /\ (a \o b)[3] = b[1] /\ (a \o b)[4] = b[2]
<1>1. /\ a \o b \in Seq(Byte) /\ Len(a \o b) = Len(a) + Len(b)
      /\ \A i \in 1..Len(a) + Len(b) : (a \o b)[i] = IF i <= Len(a) THEN a[i] ELSE b[i - Len(a)]
  BY ConcatProperties, Zenon
<1>2. \A i \in 1..4 : (a \o b)[i] = IF i <= 2 THEN a[i] ELSE b[i - 2]
  BY <1>1, SMTT(20)
<1> QED
  BY <1>1, <1>2, SMTT(20)

\* And in either form of UTF-16.
THEOREM EncodesUtf16 ==
    \A enc \in {"UTF16LE", "UTF16BE"} : \A cp \in Scalar :
        DenotesUtf16(enc, EncodeUtf16(enc, cp), cp)
<1> SUFFICES ASSUME NEW enc \in {"UTF16LE", "UTF16BE"}, NEW cp \in Scalar
             PROVE  DenotesUtf16(enc, EncodeUtf16(enc, cp), cp)
  OBVIOUS
<1>1. CASE cp < 65536
  <2>1. Len(Unit(enc, cp)) = 2 /\ Value(enc, Unit(enc, cp)[1], Unit(enc, cp)[2]) = cp
    BY <1>1, UnitHasValue, SMTT(20) DEF Scalar, Word
  <2> QED
    BY <1>1, <2>1, SMTT(20) DEF DenotesUtf16, EncodeUtf16, NeedsPair, Scalar
<1>2. CASE cp >= 65536
  <2> DEFINE high == ((cp - 65536) \div 1024) + 55296
             low == ((cp - 65536) % 1024) + 56320
             s == Unit(enc, high) \o Unit(enc, low)
  <2>1. /\ high \in HighSurrogate /\ low \in LowSurrogate
        /\ high \in Word /\ low \in Word
        /\ cp = 65536 + (high - 55296) * 1024 + (low - 56320)
    BY <1>2, SMTT(20) DEF Scalar, HighSurrogate, LowSurrogate, Word
  <2>2. EncodeUtf16(enc, cp) = s
    BY <1>2, SMTT(20) DEF EncodeUtf16, NeedsPair, Scalar
  <2> HIDE DEF high, low
  <2>3. /\ Len(s) = 4
        /\ Value(enc, s[1], s[2]) = high /\ Value(enc, s[3], s[4]) = low
    <3>1. /\ Unit(enc, high) \in Seq(Byte) /\ Len(Unit(enc, high)) = 2
          /\ Value(enc, Unit(enc, high)[1], Unit(enc, high)[2]) = high
          /\ Unit(enc, low) \in Seq(Byte) /\ Len(Unit(enc, low)) = 2
          /\ Value(enc, Unit(enc, low)[1], Unit(enc, low)[2]) = low
      BY <2>1, UnitHasValue, SMTT(20)
    <3>2. /\ Len(s) = 4
          /\ s[1] = Unit(enc, high)[1] /\ s[2] = Unit(enc, high)[2]
          /\ s[3] = Unit(enc, low)[1] /\ s[4] = Unit(enc, low)[2]
      BY <3>1, TwoUnits, SMTT(20)
    <3> QED
      BY <3>1, <3>2, SMTT(20)
  <2> HIDE DEF s
  <2> QED
    BY <2>1, <2>2, <2>3, SMTT(20) DEF DenotesUtf16
<1> QED
  BY <1>1, <1>2, SMTT(20) DEF Scalar

LEMMA FirstOfOne == ASSUME NEW a \in 0..127 PROVE Remaining(a) = 0
BY SMTT(20) DEF Remaining
LEMMA FirstOfTwo == ASSUME NEW a \in 194..223 PROVE Remaining(a) = 1 /\ a % 32 = a - 192
BY SMTT(20) DEF Remaining
LEMMA FirstOfThree == ASSUME NEW a \in 224..239 PROVE Remaining(a) = 2 /\ a % 16 = a - 224
BY SMTT(20) DEF Remaining
LEMMA FirstOfFour == ASSUME NEW a \in 240..244 PROVE Remaining(a) = 3 /\ a % 8 = a - 240
BY SMTT(20) DEF Remaining
LEMMA ContinuationByte == ASSUME NEW a \in Continuation PROVE a % 64 = a - 128
BY SMTT(20) DEF Continuation

\* A character in UTF-8 is read whole and as the code point it is: the first byte
\* tells how many follow.
THEOREM DecodesUtf8 ==
    ASSUME NEW s \in Seq(Byte), NEW cp \in Scalar, DenotesUtf8(s, cp),
           NEW b \in [1..4 -> Byte], \A i \in 1..Len(s) : b[i] = s[i]
    PROVE  Remaining(b[1]) = Len(s) - 1 /\ DecodeUtf8(Len(s), b) = cp
<1>1. CASE /\ Len(s) = 1 /\ s[1] \in 0..127 /\ cp = s[1]
  <2>1. b[1] = s[1]
    BY <1>1, SMTT(20)
  <2>2. Remaining(s[1]) = 0
    BY <1>1, FirstOfOne, Zenon
  <2>3. DecodeUtf8(1, b) = b[1]
    BY SMTT(20) DEF DecodeUtf8
  <2> QED
    BY <1>1, <2>1, <2>2, <2>3, SMTT(20)
<1>2. CASE /\ Len(s) = 2 /\ s[1] \in 194..223
           /\ s[2] \in Continuation
           /\ cp = (s[1] - 192) * 64 + (s[2] - 128)
  <2>1. b[1] = s[1] /\ b[2] = s[2]
    BY <1>2, SMTT(20)
  <2>2. Remaining(s[1]) = 1 /\ s[1] % 32 = s[1] - 192
    BY <1>2, FirstOfTwo, Zenon
  <2>3. s[2] % 64 = s[2] - 128
    BY <1>2, ContinuationByte, SMTT(20)
  <2>4. DecodeUtf8(2, b) = (b[1] % 32) * 64 + (b[2] % 64)
    BY SMTT(20) DEF DecodeUtf8
  <2> QED
    BY <1>2, <2>1, <2>2, <2>3, <2>4, SMTT(20)
<1>3. CASE /\ Len(s) = 3 /\ s[1] \in 224..239
           /\ s[2] \in Continuation
           /\ s[3] \in Continuation
           /\ cp = (s[1] - 224) * 4096 + (s[2] - 128) * 64 + (s[3] - 128)
  <2>1. b[1] = s[1] /\ b[2] = s[2] /\ b[3] = s[3]
    BY <1>3, SMTT(20)
  <2>2. Remaining(s[1]) = 2 /\ s[1] % 16 = s[1] - 224
    BY <1>3, FirstOfThree, SMTT(40)
  <2>3. s[2] % 64 = s[2] - 128 /\ s[3] % 64 = s[3] - 128
    BY <1>3, ContinuationByte, SMTT(20)
  <2>4. DecodeUtf8(3, b) = (b[1] % 16) * 4096 + (b[2] % 64) * 64 + (b[3] % 64)
    BY SMTT(20) DEF DecodeUtf8
  <2> QED
    BY <1>3, <2>1, <2>2, <2>3, <2>4, SMTT(20)
<1>4. CASE /\ Len(s) = 4 /\ s[1] \in 240..244
           /\ s[2] \in Continuation
           /\ s[3] \in Continuation
           /\ s[4] \in Continuation
           /\ cp = (s[1] - 240) * 262144 + (s[2] - 128) * 4096 + (s[3] - 128) * 64 + (s[4] - 128)
  <2>1. b[1] = s[1] /\ b[2] = s[2] /\ b[3] = s[3] /\ b[4] = s[4]
    BY <1>4, SMTT(20)
  <2>2. Remaining(s[1]) = 3 /\ s[1] % 8 = s[1] - 240
    BY <1>4, FirstOfFour, SMTT(20)
  <2>3. s[2] % 64 = s[2] - 128 /\ s[3] % 64 = s[3] - 128 /\ s[4] % 64 = s[4] - 128
    BY <1>4, ContinuationByte, SMTT(20)
  <2>4. DecodeUtf8(4, b) = (b[1] % 8) * 262144 + (b[2] % 64) * 4096 + (b[3] % 64) * 64 + (b[4] % 64)
    BY SMTT(20) DEF DecodeUtf8
  <2> QED
    BY <1>4, <2>1, <2>2, <2>3, <2>4, SMTT(20)
<1> QED
  BY <1>1, <1>2, <1>3, <1>4, SMTT(20) DEF DenotesUtf8

\* Whatever number is encoded, bytes are what comes of it.
LEMMA SixType == ASSUME NEW cp \in Nat PROVE \A shift \in {1, 64, 4096} : Six(cp, shift) \in Byte
BY SMTT(20) DEF Six, Byte

LEMMA EncodeUtf8Type == ASSUME NEW cp \in Nat PROVE EncodeUtf8(cp) \in Seq(Byte)
<1>1. \A a, b, c, d \in Byte :
        /\ <<a>> \in Seq(Byte) /\ <<a, b>> \in Seq(Byte)
        /\ <<a, b, c>> \in Seq(Byte) /\ <<a, b, c, d>> \in Seq(Byte)
  BY SMTT(20)
<1>2. /\ 192 + ((cp \div 64) % 32) \in Byte
      /\ 224 + ((cp \div 4096) % 16) \in Byte
      /\ 240 + ((cp \div 262144) % 8) \in Byte
  BY SMTT(20) DEF Byte
<1>3. Size(cp) = 1 => cp \in Byte
  BY SMTT(20) DEF Size, Byte
<1>4. Six(cp, 1) \in Byte /\ Six(cp, 64) \in Byte /\ Six(cp, 4096) \in Byte
  BY SixType, SMTT(20)
<1> QED
  BY <1>1, <1>2, <1>3, <1>4, SMTT(20) DEF EncodeUtf8

LEMMA UnitType ==
    ASSUME NEW enc, NEW u \in Nat
    PROVE  Unit(enc, u) \in Seq(Byte)
<1>1. u % 256 \in Byte /\ (u \div 256) % 256 \in Byte
  BY SMTT(20) DEF Byte
<1>2. \A a, b \in Byte : <<a, b>> \in Seq(Byte)
  BY SMTT(20)
<1> QED
  BY <1>1, <1>2, ZenonT(30) DEF Unit, LowFirst, HighFirst

LEMMA EncodeUtf16Type ==
    ASSUME NEW enc, NEW cp \in Nat
    PROVE  EncodeUtf16(enc, cp) \in Seq(Byte)
<1>1. CASE cp < 65536
  BY <1>1, UnitType, SMTT(20) DEF EncodeUtf16, NeedsPair
<1>2. CASE cp >= 65536
  <2> DEFINE high == ((cp - 65536) \div 1024) + 55296
             low == ((cp - 65536) % 1024) + 56320
  <2>1. high \in Nat /\ low \in Nat
    BY <1>2, SMTT(20)
  <2>2. EncodeUtf16(enc, cp) = Unit(enc, high) \o Unit(enc, low)
    BY <1>2, SMTT(20) DEF EncodeUtf16, NeedsPair
  <2> HIDE DEF high, low
  <2>3. Unit(enc, high) \in Seq(Byte) /\ Unit(enc, low) \in Seq(Byte)
    BY <2>1, UnitType, Zenon
  <2> QED
    BY <2>2, <2>3, ConcatProperties, Zenon
<1> QED
  BY <1>1, <1>2, SMTT(20)

-----------------------------------------------------------------------------
(* One turn of a loop *)

\* What a read that is not cut short leaves in the buffer.
LEMMA FilledWhole ==
    ASSUME file \in Seq(Byte), NEW b \in [1..4 -> Byte], NEW k \in 0..3, NEW n \in 0..3,
           NEW p \in Nat, p + n <= Len(file), k + n <= 4
    PROVE  /\ Filled(b, k, p, n) \in [1..4 -> Byte]
           /\ \A i \in 1..n : Filled(b, k, p, n)[k + i] = file[p + i]
           /\ \A i \in 1..k : Filled(b, k, p, n)[i] = b[i]
BY SMTT(20) DEF Filled

\* A turn of the loop that reads UTF-8, at a place where the bytes of a scalar
\* value lie, passes over exactly those and writes the same scalar value, whatever
\* was in the buffer before.
THEOREM FromUtf8Turn ==
    ASSUME TypeOK, FromUtf8,
           NEW cp \in Scalar, NEW s \in Seq(Byte), DenotesUtf8(s, cp),
           pos + Len(s) <= Len(file), \A i \in 1..Len(s) : file[pos + i] = s[i]
    PROVE  /\ pos' = pos + Len(s)
           /\ \E t \in Seq(Byte) : out' = out \o t /\ DenotesUtf16(to, t, cp)
<1> DEFINE first == Filled(buf, 0, pos, 1)
           more == Remaining(first[1])
           glyph == Filled(first, 1, pos + 1, more)
<1>1. /\ out' = out \o EncodeUtf16(to, DecodeUtf8(more + 1, glyph))
      /\ pos' = After(pos + 1, more)
      /\ to # "UTF8" /\ pos < Len(file)
      /\ to \in Encodings
  BY Zenon DEF FromUtf8, Reads, TypeOK
<1>2. /\ file \in Seq(Byte) /\ pos \in Nat /\ buf \in [1..4 -> Byte]
      /\ Len(s) \in 1..4
  BY SMTT(20) DEF TypeOK, DenotesUtf8
<1>3. first \in [1..4 -> Byte] /\ first[1] = s[1]
  <2>1. 0 \in 0..3 /\ 1 \in 0..3 /\ pos + 1 <= Len(file) /\ 0 + 1 <= 4
    BY <1>1, <1>2, SMTT(20)
  <2>2. first \in [1..4 -> Byte] /\ \A i \in 1..1 : first[0 + i] = file[pos + i]
    BY <1>2, <2>1, FilledWhole, Zenon
  <2> HIDE DEF first
  <2> QED
    BY <1>2, <2>2, SMTT(40)
<1>4. more = Len(s) - 1
  <2> DEFINE c == [i \in 1..4 |-> IF i <= Len(s) THEN s[i] ELSE 0]
  <2>1. c \in [1..4 -> Byte] /\ \A i \in 1..Len(s) : c[i] = s[i]
    <3>1. 0 \in Byte
      BY SMTT(20) DEF Byte
    <3>2. \A i \in 1..Len(s) : s[i] \in Byte
      BY ElementOfSeq, Zenon
    <3>3. \A i \in 1..4 : (IF i <= Len(s) THEN s[i] ELSE 0) \in Byte
      BY <1>2, <3>1, <3>2, SMTT(20)
    <3>4. \A i \in 1..Len(s) : i \in 1..4 /\ i <= Len(s)
      <4>1. \A m \in 1..4 : \A i \in 1..m : i \in 1..4 /\ i <= m
        BY SMTT(20)
      <4> QED
        BY <1>2, <4>1, Zenon
    <3> QED
      BY <3>3, <3>4, Zenon
  <2> HIDE DEF c
  <2>2. Remaining(c[1]) = Len(s) - 1
    BY <2>1, DecodesUtf8, SMTT(40)
  <2> QED
    BY <1>2, <1>3, <2>1, <2>2, SMTT(20)
<1> HIDE DEF first, more
<1>5. glyph \in [1..4 -> Byte] /\ \A i \in 1..Len(s) : glyph[i] = s[i]
  <2>1. /\ glyph \in [1..4 -> Byte]
        /\ \A i \in 1..(Len(s) - 1) : glyph[1 + i] = file[pos + 1 + i]
        /\ glyph[1] = first[1]
    <3>1. /\ 1 \in 0..3 /\ more \in 0..3 /\ pos + 1 \in Nat
          /\ pos + 1 + more <= Len(file) /\ 1 + more <= 4
      <4>1. Len(file) \in Nat /\ pos \in Nat /\ Len(s) \in 1..4
        BY <1>2, LenProperties, Zenon
      <4>2. more \in 0..3 /\ 1 + more = Len(s)
        BY <1>4, <4>1, SMTT(20)
      <4>3. pos + (1 + more) <= Len(file)
        BY <4>2, Zenon
      <4> QED
        BY <4>1, <4>2, <4>3, SMTT(20)
    <3>2. /\ glyph \in [1..4 -> Byte]
          /\ \A i \in 1..more : glyph[1 + i] = file[pos + 1 + i]
          /\ \A i \in 1..1 : glyph[i] = first[i]
      BY <1>2, <1>3, <3>1, FilledWhole, ZenonT(30)
    <3> HIDE DEF glyph
    <3> QED
      BY <1>4, <3>2, SMTT(20)
  <2> HIDE DEF glyph
  <2>2. ASSUME NEW i \in 1..Len(s) PROVE glyph[i] = s[i]
    <3>1. CASE i = 1
      BY <1>3, <2>1, <3>1, SMTT(20)
    <3>2. CASE i > 1
      <4>1. i - 1 \in 1..(Len(s) - 1) /\ 1 + (i - 1) = i /\ pos + 1 + (i - 1) = pos + i
        BY <1>2, <3>2, SMTT(20)
      <4>2. glyph[1 + (i - 1)] = file[pos + 1 + (i - 1)]
        BY <2>1, <4>1, Zenon
      <4> QED
        BY <4>1, <4>2, SMTT(20)
    <3> QED
      BY <3>1, <3>2, SMTT(20)
  <2> QED
    BY <2>1, <2>2, Zenon
<1> HIDE DEF glyph
<1>6. DecodeUtf8(more + 1, glyph) = cp
  BY <1>2, <1>4, <1>5, DecodesUtf8, SMTT(20)
<1>7. pos' = pos + Len(s)
  BY <1>1, <1>2, <1>4, SMTT(20) DEF After
<1>8. out' = out \o EncodeUtf16(to, cp) /\ DenotesUtf16(to, EncodeUtf16(to, cp), cp)
  BY <1>1, <1>6, EncodesUtf16, SMTT(20) DEF Encodings
<1>9. EncodeUtf16(to, cp) \in Seq(Byte)
  BY EncodeUtf16Type, SMTT(20) DEF Scalar
<1> QED
  BY <1>7, <1>8, <1>9, Zenon


LEMMA UpperValue ==
    ASSUME NEW x \in Byte, NEW y \in Byte, NEW enc \in {"UTF16LE", "UTF16BE"},
           Value(enc, x, y) # Mark, ~Stops(Value(enc, x, y))
    PROVE  x + 256 * y # ReversedBom(enc) /\ ~Stops(x + 256 * y)
<1>1. CASE enc = "UTF16LE"
  BY <1>1, SMTT(20) DEF Value, Mark, Stops, ReversedBom, Byte
<1>2. CASE enc = "UTF16BE"
  BY <1>2, SMTT(20) DEF Value, Mark, Stops, ReversedBom, Byte
<1> QED
  BY <1>1, <1>2, Zenon

LEMMA InOrderValue ==
    ASSUME NEW b \in [1..4 -> Byte], from \in {"UTF16LE", "UTF16BE"}
    PROVE  /\ InOrder(b, 1) \in [1..4 -> Byte] /\ InOrder(b, 3) \in [1..4 -> Byte]
           /\ Upper(InOrder(b, 1)) = Value(from, b[1], b[2])
           /\ Upper(InOrder(b, 3)) = Upper(b)
           /\ Lower(InOrder(b, 3)) = Value(from, b[3], b[4])
<1>1. b[1] \in Nat /\ b[2] \in Nat /\ b[3] \in Nat /\ b[4] \in Nat
  BY SMTT(20) DEF Byte
<1>2. CASE from = "UTF16LE"
  BY <1>1, <1>2, SMTT(20) DEF InOrder, Upper, Lower, Value
<1>3. CASE from = "UTF16BE"
  <2>1. /\ InOrder(b, 1) = [b EXCEPT ![1] = b[2], ![2] = b[1]]
        /\ InOrder(b, 3) = [b EXCEPT ![3] = b[4], ![4] = b[3]]
    BY <1>3, SMTT(20) DEF InOrder, Reversed
  <2>2. InOrder(b, 1) \in [1..4 -> Byte] /\ InOrder(b, 3) \in [1..4 -> Byte]
    BY <2>1, SMTT(20)
  <2>3. /\ InOrder(b, 1)[1] = b[2] /\ InOrder(b, 1)[2] = b[1]
        /\ InOrder(b, 3)[1] = b[1] /\ InOrder(b, 3)[2] = b[2]
        /\ InOrder(b, 3)[3] = b[4] /\ InOrder(b, 3)[4] = b[3]
    BY <2>1, SMTT(20)
  <2> QED
    BY <1>1, <1>3, <2>2, <2>3, SMTT(20) DEF Upper, Lower, Value
<1> QED
  BY <1>2, <1>3, Zenon

\* A turn of a loop that reads UTF-16 and writes UTF-8, at a place where the units
\* of a scalar value lie which is no mark, no line end and none of those that are
\* misread, passes over exactly those and writes the same scalar value.
THEOREM ToUtf8Turn ==
    ASSUME TypeOK, ToUtf8, from \in {"UTF16LE", "UTF16BE"},
           NEW cp \in Scalar, cp # Mark, ~Stops(cp), ~Misread(cp),
           NEW s \in Seq(Byte), DenotesUtf16(from, s, cp),
           pos + Len(s) <= Len(file), \A i \in 1..Len(s) : file[pos + i] = s[i]
    PROVE  /\ pos' = pos + Len(s)
           /\ \E t \in Seq(Byte) : out' = out \o t /\ DenotesUtf8(t, cp)
<1> DEFINE raw == Filled(buf, 0, pos, 2)
           one == InOrder(raw, 1)
           more == Filled(one, 2, pos + 2, 2)
           two == InOrder(more, 3)
           high == Value(from, s[1], s[2])
<1>1. /\ file \in Seq(Byte) /\ pos \in Nat /\ buf \in [1..4 -> Byte]
      /\ Len(s) \in {2, 4} /\ Len(file) \in Nat
  BY LenProperties, SMTT(20) DEF TypeOK, DenotesUtf16
<1>s. \/ Len(s) = 2 /\ high = cp /\ high \notin HighSurrogate
      \/ Len(s) = 4 /\ high \in HighSurrogate
  BY SMTT(20) DEF DenotesUtf16, Scalar
<1>2. s[1] \in Byte /\ s[2] \in Byte
  BY <1>1, ElementOfSeq, SMTT(20)
<1>3. raw \in [1..4 -> Byte] /\ raw[1] = s[1] /\ raw[2] = s[2]
  <2>1. 0 \in 0..3 /\ 2 \in 0..3 /\ pos + 2 <= Len(file) /\ 0 + 2 <= 4
    <3>1. CASE Len(s) = 2
      BY <1>1, <3>1, SMTT(20)
    <3>2. CASE Len(s) = 4
      BY <1>1, <3>2, SMTT(20)
    <3> QED
      BY <1>1, <3>1, <3>2, SMTT(20)
  <2>2. raw \in [1..4 -> Byte] /\ \A i \in 1..2 : raw[0 + i] = file[pos + i]
    BY <1>1, <2>1, FilledWhole, ZenonT(30)
  <2> HIDE DEF raw
  <2>3. raw[1] = file[pos + 1] /\ raw[2] = file[pos + 2]
    BY <2>2, SMTT(20)
  <2>4. 1 \in 1..Len(s) /\ 2 \in 1..Len(s)
    <3>1. \A n \in {2, 4} : 1 \in 1..n /\ 2 \in 1..n
      BY SMTT(20)
    <3> QED
      BY <1>1, <3>1, Zenon
  <2> QED
    BY <2>2, <2>3, <2>4, Zenon
<1> HIDE DEF raw
<1>4. one \in [1..4 -> Byte] /\ Upper(one) = high
  BY <1>3, InOrderValue, Zenon
<1>5. Upper(raw) # ReversedBom(from) /\ ~Stops(Upper(raw))
  <2>1. high # Mark /\ ~Stops(high)
    <3>1. ASSUME NEW u \in HighSurrogate PROVE u # Mark /\ ~Stops(u)
      <4>1. u \in Nat /\ u >= 55296 /\ u <= 56319
        BY SMTT(20) DEF HighSurrogate
      <4> QED
        BY <4>1, SMTT(20) DEF Stops, Mark
    <3> QED
      BY <1>s, <3>1, Zenon
  <2>2. s[1] + 256 * s[2] # ReversedBom(from) /\ ~Stops(s[1] + 256 * s[2])
    BY <1>2, <2>1, UpperValue, SMTT(20)
  <2> QED
    BY <1>3, <2>2, Zenon DEF Upper
<1>6. /\ buf' = IF IsUpperSurrogate(Upper(one)) THEN two ELSE one
      /\ pos' = After(pos, IF IsUpperSurrogate(Upper(one)) THEN 4 ELSE 2)
      /\ out' = out \o EncodeUtf8(DecodeUtf16(buf'))
  BY <1>5, Zenon DEF ToUtf8, raw
<1> HIDE DEF one, high
<1>7. ASSUME DecodeUtf16(buf') = cp PROVE \E t \in Seq(Byte) : out' = out \o t /\ DenotesUtf8(t, cp)
  <2>1. EncodeUtf8(cp) \in Seq(Byte)
    BY EncodeUtf8Type, SMTT(20) DEF Scalar
  <2> QED
    BY <1>6, <1>7, <2>1, EncodesUtf8, Zenon
<1>8. CASE Len(s) = 2
  <2>1. high = cp /\ ~IsUpperSurrogate(high)
    <3>1. high = cp /\ high \notin HighSurrogate /\ high \in Nat
      BY <1>8, <1>s, SMTT(20) DEF Scalar
    <3> QED
      BY <3>1, SMTT(20) DEF HighSurrogate, IsUpperSurrogate
  <2>2. buf' = one /\ pos' = After(pos, 2)
    BY <1>4, <1>6, <2>1, Zenon
  <2>3. pos' = pos + 2
    BY <1>1, <1>8, <2>2, SMTT(20) DEF After
  <2>4. DecodeUtf16(buf') = cp
    <3>1. DecodeUtf16(one) = Upper(one)
      BY <1>4, <2>1, SMTT(20) DEF DecodeUtf16
    <3> QED
      BY <1>4, <2>1, <2>2, <3>1, Zenon
  <2> QED
    BY <1>7, <1>8, <2>3, <2>4, Zenon
<1>9. CASE Len(s) = 4
  <2> DEFINE low == Value(from, s[3], s[4])
  <2>1. /\ high \in HighSurrogate /\ low \in LowSurrogate
        /\ cp = 65536 + (high - 55296) * 1024 + (low - 56320)
    BY <1>9, SMTT(20) DEF DenotesUtf16, high
  <2> HIDE DEF low
  <2>2. IsUpperSurrogate(high)
    BY <2>1, SMTT(20) DEF HighSurrogate, LowSurrogate, IsUpperSurrogate, Misread
  <2>3. buf' = two /\ pos' = After(pos, 4)
    BY <1>4, <1>6, <2>2, Zenon
  <2>4. pos' = pos + 4
    BY <1>1, <1>9, <2>3, SMTT(20) DEF After
  <2>5. more \in [1..4 -> Byte] /\ Upper(more) = high /\ more[3] = s[3] /\ more[4] = s[4]
    <3>1. /\ 2 \in 0..3 /\ pos + 2 \in Nat /\ pos + 2 + 2 <= Len(file) /\ 2 + 2 <= 4
      BY <1>1, <1>9, SMTT(20)
    <3>2. /\ more \in [1..4 -> Byte]
          /\ \A i \in 1..2 : more[2 + i] = file[pos + 2 + i]
          /\ \A i \in 1..2 : more[i] = one[i]
      BY <1>1, <1>4, <3>1, FilledWhole, ZenonT(30)
    <3> HIDE DEF more
    <3>3. more[3] = file[pos + 3] /\ more[4] = file[pos + 4]
      BY <1>1, <3>2, SMTT(20)
    <3>4. file[pos + 3] = s[3] /\ file[pos + 4] = s[4]
      BY <1>9, SMTT(20)
    <3>5. more[1] = one[1] /\ more[2] = one[2]
      BY <3>2, SMTT(20)
    <3> QED
      BY <1>4, <3>2, <3>3, <3>4, <3>5, Zenon DEF Upper
  <2> HIDE DEF more
  <2>6. Upper(two) = high /\ Lower(two) = low
    BY <2>5, InOrderValue, Zenon DEF low
  <2>7. DecodeUtf16(two) = (high - 55296) * 1024 + ((low - 56320) % 1024) + 65536
    BY <2>2, <2>6, SMTT(20) DEF DecodeUtf16
  <2>8. (low - 56320) % 1024 = low - 56320
    BY <2>1, SMTT(20) DEF LowSurrogate
  <2>9. DecodeUtf16(buf') = cp
    BY <2>1, <2>3, <2>7, <2>8, SMTT(20) DEF HighSurrogate, LowSurrogate
  <2> QED
    BY <1>7, <1>9, <2>4, <2>9, Zenon
<1>10. Len(s) = 2 \/ Len(s) = 4
  BY <1>s, Zenon
<1> QED
  BY <1>8, <1>9, <1>10, Zenon

-----------------------------------------------------------------------------
(* Types *)

Buffer == [1..4 -> Byte]

LEMMA FilledType ==
    ASSUME file \in Seq(Byte), NEW b \in Buffer, NEW k \in Nat, NEW p \in Nat, NEW n \in Nat
    PROVE  Filled(b, k, p, n) \in Buffer
<1> SUFFICES ASSUME NEW i \in 1..4
             PROVE  (IF i \in (k + 1)..(k + n) /\ p + i - k <= Len(file)
                     THEN file[p + i - k] ELSE b[i]) \in Byte
  BY Zenon DEF Filled, Buffer
<1>1. CASE i \in (k + 1)..(k + n) /\ p + i - k <= Len(file)
  <2>1. p + i - k \in 1..Len(file)
    BY <1>1, LenProperties, SMTT(20)
  <2>2. file[p + i - k] \in Byte
    BY <2>1, ElementOfSeq, Zenon
  <2> QED
    BY <1>1, <2>2, Zenon
<1>2. CASE ~(i \in (k + 1)..(k + n) /\ p + i - k <= Len(file))
  BY <1>2, Zenon DEF Buffer
<1> QED
  BY <1>1, <1>2

LEMMA ReversedType == ASSUME NEW b \in Buffer, NEW i \in 1..3 PROVE Reversed(b, i) \in Buffer
<1>1. i \in 1..4 /\ i + 1 \in 1..4
  BY SMTT(20)
<1>2. b[i] \in Byte /\ b[i + 1] \in Byte
  BY <1>1, Zenon DEF Buffer
<1> QED
  BY <1>1, <1>2, SMTT(20) DEF Reversed, Buffer

LEMMA AfterType ==
    ASSUME file \in Seq(Byte), NEW p \in Nat, NEW n \in Nat
    PROVE  After(p, n) \in Nat /\ After(p, n) <= Len(file)
<1>1. Len(file) \in Nat
  BY LenProperties, Zenon
<1> QED
  BY <1>1, SMTT(20) DEF After

LEMMA DecodeType ==
    ASSUME NEW b \in Buffer
    PROVE  DecodeUtf16(b) \in Nat /\ \A n \in Nat : DecodeUtf8(n, b) \in Nat
<1>1. b[1] \in Nat /\ b[2] \in Nat /\ b[3] \in Nat /\ b[4] \in Nat
  <2>1. 1 \in 1..4 /\ 2 \in 1..4 /\ 3 \in 1..4 /\ 4 \in 1..4
    BY SMTT(20)
  <2>2. b[1] \in Byte /\ b[2] \in Byte /\ b[3] \in Byte /\ b[4] \in Byte
    BY <2>1, Zenon DEF Buffer
  <2> QED
    BY <2>2, SMTT(20) DEF Byte
<1>2. Upper(b) \in Nat /\ Lower(b) \in Nat
  BY <1>1, SMTT(20) DEF Upper, Lower
<1>3. DecodeUtf16(b) \in Nat
  BY <1>2, SMTT(20) DEF DecodeUtf16, IsUpperSurrogate
<1>4. ASSUME NEW n \in Nat PROVE DecodeUtf8(n, b) \in Nat
  BY <1>1, SMTT(20) DEF DecodeUtf8
<1> QED
  BY <1>3, <1>4, Zenon


LEMMA BomType == ASSUME NEW enc PROVE Bom(enc) \in Seq(Byte)
<1>1. {239, 187, 191, 254, 255} \subseteq Byte
  BY SMTT(20) DEF Byte
<1>2. \A a, b, c \in Byte : <<a, b>> \in Seq(Byte) /\ <<a, b, c>> \in Seq(Byte)
  BY SMTT(20)
<1> QED
  BY <1>1, <1>2, SMTT(20) DEF Bom

LEMMA FirstTwo == ASSUME NEW b \in Buffer PROVE b \in Seq(Byte) /\ SubSeq(b, 1, 2) \in Seq(Byte)
<1>1. 4 \in Nat
  BY SMTT(20)
<1>2. b \in Seq(Byte)
  BY <1>1, SeqDef, Zenon DEF Buffer
<1>3. Len(b) = 4
  BY <1>2, SMTT(20) DEF Buffer
<1> QED
  BY <1>2, <1>3, SMTT(20)

\* Writing bytes to a file leaves bytes in all of them.
LEMMA WrittenType ==
    ASSUME NEW d, \A n \in DOMAIN d : d[n] \in Seq(Byte), NEW name, NEW bytes \in Seq(Byte)
    PROVE  LET e == Written(d, name, bytes) IN \A n \in DOMAIN e : e[n] \in Seq(Byte)
<1> DEFINE e == Written(d, name, bytes)
<1>1. ASSUME NEW n \in DOMAIN e PROVE e[n] \in Seq(Byte)
  <2>1. n \in DOMAIN d \/ n = name
    BY <1>1, Zenon DEF Written
  <2>2. e[n] = IF n # name THEN d[n]
               ELSE bytes \o (IF n \in DOMAIN d THEN SubSeq(d[n], Len(bytes) + 1, Len(d[n])) ELSE <<>>)
    BY <1>1, Zenon DEF Written
  <2>3. CASE n # name
    BY <2>1, <2>2, <2>3, Zenon
  <2>4. CASE n = name /\ n \in DOMAIN d
    <3> DEFINE rest == SubSeq(d[n], Len(bytes) + 1, Len(d[n]))
    <3>1. d[n] \in Seq(Byte) /\ Len(bytes) \in Nat
      BY <2>4, LenProperties, Zenon
    <3>2. rest \in Seq(Byte)
      BY <3>1, SMTT(20)
    <3>3. bytes \o rest \in Seq(Byte)
      BY <3>2, ConcatProperties, Zenon
    <3> QED
      BY <2>2, <2>4, <3>3, Zenon
  <2>5. CASE n = name /\ n \notin DOMAIN d
    <3>1. bytes \o <<>> \in Seq(Byte)
      BY SMTT(20)
    <3> QED
      BY <2>2, <2>5, <3>1, Zenon
  <2> QED
    BY <2>3, <2>4, <2>5
<1> QED
  BY <1>1, Zenon

LEMMA TypeInit == Init => TypeOK
<1> SUFFICES ASSUME Init PROVE TypeOK
  OBVIOUS
<1>1. /\ user \in Files /\ user.whole \in Seq(Byte) /\ user.cut \in 0..Len(user.whole)
      /\ MaxRuns \in Nat
  BY UtfAssumption, Zenon DEF Init
<1>2. \A n \in DOMAIN disk : disk[n] \in Seq(Byte)
  <2>1. Len(user.whole) \in Nat
    BY <1>1, LenProperties, Zenon
  <2>2. SubSeq(user.whole, 1, user.cut) \in Seq(Byte)
    BY <1>1, <2>1, SMTT(20)
  <2>3. \A n \in DOMAIN Before : Before[n] \in Seq(Byte)
    BY UtfAssumption, Zenon
  <2>4. disk = [n \in DOMAIN Before \cup {Source} |->
                   IF n = Source THEN SubSeq(user.whole, 1, user.cut) ELSE Before[n]]
    BY Zenon DEF Init
  <2> QED
    BY <2>2, <2>3, <2>4, Zenon
<1>3. buf \in [1..4 -> Byte]
  <2>1. 0 \in Byte
    BY SMTT(20) DEF Byte
  <2> QED
    BY <2>1, Zenon DEF Init
<1>i. /\ file = <<>> /\ out = <<>> /\ pos = 0 /\ pc = "idle" /\ stray = FALSE
      /\ inFile = NULL /\ outFile = NULL
  BY Zenon DEF Init
<1>4. file \in Seq(Byte) /\ out \in Seq(Byte)
  <2>1. <<>> \in Seq(Byte)
    BY SMTT(20)
  <2> QED
    BY <1>i, <2>1, Zenon
<1>5. commands \in Seq(Commands) /\ runs <= MaxRuns /\ args \in Seq(Words)
  <2>1. commands = <<>> /\ args = <<>>
    BY Zenon DEF Init
  <2>2. Len(commands) = 0
    BY <2>1, SMTT(20)
  <2> QED
    BY <1>1, <2>1, <2>2, SMTT(20) DEF runs
<1>6. pos \in Nat /\ pc = "idle" /\ stray \in BOOLEAN
  <2>1. 0 \in Nat
    BY SMTT(20)
  <2> QED
    BY <1>i, <2>1, Zenon
<1>7. {inFile, outFile} \subseteq Words \cup {NULL}
  BY <1>i, Zenon
<1>8. from = "none" /\ to = "none"
  BY DEF Init
<1> QED
  BY <1>1, <1>2, <1>3, <1>4, <1>5, <1>6, <1>7, <1>8, SMTT(20) DEF TypeOK

LEMMA TypeNext == TypeOK /\ [Next]_vars => TypeOK'
<1> SUFFICES ASSUME TypeOK, [Next]_vars PROVE TypeOK'
  OBVIOUS
<1>t. /\ user.cut \in 0..Len(user.whole)
      /\ \A n \in DOMAIN disk : disk[n] \in Seq(Byte)
      /\ pc \in {"idle", "parse", "convert", "exit", "crashed"}
      /\ commands \in Seq(Commands) /\ runs <= MaxRuns
      /\ args \in Seq(Words) /\ {inFile, outFile} \subseteq Words \cup {NULL}
      /\ file \in Seq(Byte) /\ out \in Seq(Byte)
      /\ {from, to} \subseteq Encodings \cup {"none"}
      /\ pos \in Nat
      /\ pc = "convert" => pos <= Len(file) /\ {from, to} \subseteq Encodings
      /\ buf \in Buffer /\ stray \in BOOLEAN
      /\ Len(file) \in Nat
  BY LenProperties, Zenon DEF TypeOK, Buffer
<1>1. CASE UNCHANGED vars
  BY <1>1, Zenon DEF vars, arguments, runs, TypeOK
<1>2. CASE Run
  <2>1. args' \in Commands /\ args' \in Seq(Words) /\ commands' = Append(commands, args')
    BY <1>2, UtfAssumption, Zenon DEF Run
  <2>2. commands' \in Seq(Commands) /\ Len(commands') = Len(commands) + 1 /\ Len(commands) \in Nat
    BY <1>t, <2>1, AppendProperties, LenProperties, Zenon
  <2>3. /\ Len(commands) < MaxRuns /\ MaxRuns \in Nat
        /\ inFile' = NULL /\ outFile' = NULL /\ to' = "none" /\ pc' = "parse" /\ stray' = FALSE
        /\ UNCHANGED <<user, disk, file, from, pos, buf, out>>
    BY <1>2, UtfAssumption, Zenon DEF Run, runs
  <2>4. Len(commands') <= MaxRuns
    BY <2>2, <2>3, SMTT(20)
  <2>5. {inFile', outFile'} \subseteq Words \cup {NULL}
    BY <2>3, Zenon
  <2> QED
    BY <1>t, <2>1, <2>2, <2>3, <2>4, <2>5, Zenon DEF TypeOK, Buffer, runs
<1>3. CASE Encoding
  <2>1. args' \in Seq(Words)
    <3>1. Len(args) \in Nat
      BY <1>t, LenProperties, Zenon
    <3>2. SubSeq(args, 3, Len(args)) \in Seq(Words)
      BY <1>t, <3>1, SMTT(20)
    <3> QED
      BY <1>3, <3>2, Zenon DEF Encoding
  <2>2. to' \in Encodings \cup {"none"} /\ pc = "parse"
    BY <1>3, Zenon DEF Encoding, NextArg
  <2>3. UNCHANGED <<user, disk, pc, commands, inFile, outFile, file, from, pos, buf, out, stray>>
    BY <1>3, Zenon DEF Encoding
  <2> QED
    BY <1>t, <2>1, <2>2, <2>3, SMTT(20) DEF TypeOK, Buffer, runs
<1>4. CASE Name
  <2>1. args # <<>> /\ args' = Tail(args)
    BY <1>4, Zenon DEF Name, NextArg
  <2>2. Head(args) \in Words /\ Tail(args) \in Seq(Words)
    BY <1>t, <2>1, HeadTailProperties, Zenon
  <2>3. {inFile', outFile'} \subseteq Words \cup {NULL}
    BY <1>4, <1>t, <2>2, Zenon DEF Name
  <2>4. UNCHANGED <<user, disk, pc, commands, file, from, to, pos, buf, out, stray>>
    BY <1>4, Zenon DEF Name
  <2> QED
    BY <1>t, <2>1, <2>2, <2>3, <2>4, Zenon DEF TypeOK, Buffer, runs
<1>5. CASE Usage \/ Refuse
  <2>1. pc' = "exit" /\ UNCHANGED <<user, disk, commands, args, inFile, outFile, file, from, to, pos, buf,
                                    out, stray>>
    BY <1>5, Zenon DEF Usage, Refuse, arguments
  <2> QED
    BY <1>t, <2>1, SMTT(20) DEF TypeOK, Buffer, runs
<1>6. ASSUME NEW enc \in Encodings, Crash(enc) \/ Start(enc) PROVE TypeOK'
  <2>1. /\ \A n \in DOMAIN disk' : disk'[n] \in Seq(Byte)
        /\ from' = enc /\ UNCHANGED <<user, commands, args, inFile, outFile, to, stray>>
    <3>1. disk' = Written(disk, outFile, <<>>)
      BY <1>6, Zenon DEF Crash, Start, Opens
    <3>2. <<>> \in Seq(Byte)
      BY SMTT(20)
    <3>3. \A n \in DOMAIN disk' : disk'[n] \in Seq(Byte)
      BY <1>t, <3>1, <3>2, WrittenType, Zenon
    <3> QED
      BY <1>6, <3>3, Zenon DEF Crash, Start, Opens, arguments
  <2>2. CASE Crash(enc)
    <3>1. pc' = "crashed" /\ UNCHANGED <<file, pos, buf, out>>
      BY <2>2, Zenon DEF Crash
    <3> QED
      BY <1>t, <2>1, <3>1, SMTT(20) DEF TypeOK, Buffer, runs
  <2>3. CASE Start(enc)
    <3>1. file' \in Seq(Byte) /\ Len(file') \in Nat
      <4>1. inFile \in DOMAIN disk /\ file' = disk[inFile]
        BY <2>3, Zenon DEF Start, Opens, StartsWith
      <4> QED
        BY <1>t, <4>1, LenProperties, Zenon
    <3>2. out' \in Seq(Byte)
      <4>1. <<>> \in Seq(Byte)
        BY SMTT(20)
      <4> QED
        BY <2>3, <4>1, BomType, Zenon DEF Start
    <3>3. pos' \in Nat /\ pos' <= Len(file') /\ pc' = "convert"
      BY <2>3, <3>1, SMTT(20) DEF Start
    <3>4. buf' \in [1..4 -> Byte] /\ to \in Encodings
      BY <2>3, <1>t, UtfAssumption, Zenon DEF Start
    <3> QED
      BY <1>t, <2>1, <3>1, <3>2, <3>3, <3>4, Zenon DEF TypeOK, runs
  <2> QED
    BY <1>6, <2>2, <2>3
<1>d. ASSUME NEW bytes \in Seq(Byte), Done(bytes)
      PROVE  pc' = "idle" /\ \A n \in DOMAIN disk' : disk'[n] \in Seq(Byte)
  <2>1. pc' = "idle" /\ disk' = Written(disk, outFile, bytes)
    BY <1>d, Zenon DEF Done
  <2> QED
    BY <1>t, <2>1, WrittenType, Zenon
<1>7. CASE Transcribe \/ AtEnd
  <2>1. /\ Done(file) \/ Done(out)
        /\ (out' = file /\ pos' = Len(file)) \/ (out' = out /\ pos' = pos)
        /\ UNCHANGED <<user, commands, args, inFile, outFile, file, from, to, buf, stray>>
    BY <1>7, Zenon DEF Transcribe, AtEnd, arguments
  <2>2. pc' = "idle" /\ \A n \in DOMAIN disk' : disk'[n] \in Seq(Byte)
    BY <1>t, <1>d, <2>1, Zenon
  <2>3. pos' \in Nat /\ out' \in Seq(Byte)
    BY <1>t, <2>1, Zenon
  <2> QED
    BY <1>t, <2>1, <2>2, <2>3, SMTT(20) DEF TypeOK, Buffer, runs
<1>8. CASE FromUtf8
  <2> DEFINE first == Filled(buf, 0, pos, 1)
             more == Remaining(first[1])
             glyph == Filled(first, 1, pos + 1, more)
             bytes == EncodeUtf16(to, DecodeUtf8(more + 1, glyph))
  <2>1. more \in Nat /\ more + 1 \in Nat
    BY SMTT(20) DEF Remaining
  <2>2. first \in Buffer
    BY <1>t, FilledType, SMTT(20)
  <2> HIDE DEF first, more
  <2>3. glyph \in Buffer
    BY <1>t, <2>1, <2>2, FilledType, SMTT(20)
  <2> HIDE DEF glyph
  <2>4. bytes \in Seq(Byte)
    BY <2>1, <2>3, DecodeType, EncodeUtf16Type, Zenon
  <2> HIDE DEF bytes
  <2>5. After(pos + 1, more) \in Nat /\ After(pos + 1, more) <= Len(file)
    <3>1. pos + 1 \in Nat
      BY <1>t, SMTT(20)
    <3> QED
      BY <1>t, <2>1, <3>1, AfterType, Zenon
  <2>6. out' = out \o bytes /\ buf' = glyph /\ pos' = After(pos + 1, more)
        /\ UNCHANGED <<user, disk, pc, commands, args, inFile, outFile, file, from, to, stray>>
    BY <1>8, Zenon DEF FromUtf8, arguments, first, more, glyph, bytes
  <2>7. out' \in Seq(Byte)
    BY <1>t, <2>4, <2>6, ConcatProperties, Zenon
  <2> QED
    BY <1>t, <2>3, <2>5, <2>6, <2>7, Zenon DEF TypeOK, Buffer, runs
<1>9. CASE SwapUnits
  <2> DEFINE one == Reversed(Filled(buf, 0, pos, 2), 1)
             two == Reversed(Filled(one, 2, pos + 2, 2), 3)
  <2>1. one \in Buffer
    <3>1. Filled(buf, 0, pos, 2) \in Buffer
      BY <1>t, FilledType, SMTT(20)
    <3> QED
      BY <3>1, ReversedType, SMTT(20)
  <2> HIDE DEF one
  <2>2. two \in Buffer
    <3>1. pos + 2 \in Nat
      BY <1>t, SMTT(20)
    <3>2. Filled(one, 2, pos + 2, 2) \in Buffer
      BY <1>t, <2>1, <3>1, FilledType, SMTT(20)
    <3> QED
      BY <3>2, ReversedType, SMTT(20)
  <2> HIDE DEF two
  <2>3. /\ After(pos, 2) \in Nat /\ After(pos, 2) <= Len(file)
        /\ After(pos, 4) \in Nat /\ After(pos, 4) <= Len(file)
    <3>1. 2 \in Nat /\ 4 \in Nat
      BY SMTT(20)
    <3> QED
      BY <1>t, <3>1, AfterType, Zenon
  <2>4. out \o SubSeq(one, 1, 2) \in Seq(Byte) /\ out \o two \in Seq(Byte)
    <3>1. SubSeq(one, 1, 2) \in Seq(Byte) /\ two \in Seq(Byte)
      BY <2>1, <2>2, FirstTwo, Zenon
    <3> QED
      BY <1>t, <3>1, ConcatProperties, Zenon
  <2>5. /\ \/ /\ buf' = one /\ pos' = After(pos, 2)
              /\ UNCHANGED <<pc, disk, out, stray>>
           \/ /\ buf' = one /\ pos' = After(pos, 2)
              /\ Done(out)
              /\ UNCHANGED <<out, stray>>
           \/ /\ buf' = one /\ pos' = After(pos, 2)
              /\ out' = out \o SubSeq(one, 1, 2)
              /\ UNCHANGED <<pc, disk, stray>>
           \/ /\ buf' = two /\ pos' = After(pos, 4)
              /\ out' = out \o two /\ stray' = TRUE
              /\ UNCHANGED <<pc, disk>>
        /\ UNCHANGED <<user, commands, args, inFile, outFile, file, from, to>>
    BY <1>9, Zenon DEF SwapUnits, arguments, one, two
  <2>6. buf' \in Buffer /\ out' \in Seq(Byte) /\ stray' \in BOOLEAN
    BY <1>t, <2>1, <2>2, <2>4, <2>5, Zenon
  <2>7. pos' \in Nat /\ pos' <= Len(file)
    BY <2>3, <2>5, Zenon
  <2>8. (pc' = pc \/ pc' = "idle") /\ \A n \in DOMAIN disk' : disk'[n] \in Seq(Byte)
    <3>1. (pc' = pc /\ disk' = disk) \/ Done(out)
      BY <2>5, Zenon
    <3> QED
      BY <1>t, <1>d, <3>1, Zenon
  <2> QED
    BY <1>t, <2>5, <2>6, <2>7, <2>8, SMTT(20) DEF TypeOK, Buffer, runs
<1>10. CASE ToUtf8
  <2> DEFINE raw == Filled(buf, 0, pos, 2)
             one == InOrder(raw, 1)
             two == InOrder(Filled(one, 2, pos + 2, 2), 3)
  <2>1. raw \in Buffer
    BY <1>t, FilledType, SMTT(20)
  <2> HIDE DEF raw
  <2>2. one \in Buffer
    BY <2>1, ReversedType, SMTT(20) DEF InOrder
  <2> HIDE DEF one
  <2>3. two \in Buffer
    <3>1. pos + 2 \in Nat
      BY <1>t, SMTT(20)
    <3>2. Filled(one, 2, pos + 2, 2) \in Buffer
      BY <1>t, <2>2, <3>1, FilledType, SMTT(20)
    <3> QED
      BY <3>2, ReversedType, SMTT(20) DEF InOrder
  <2> HIDE DEF two
  <2>4. /\ After(pos, 2) \in Nat /\ After(pos, 2) <= Len(file)
        /\ After(pos, 4) \in Nat /\ After(pos, 4) <= Len(file)
    <3>1. 2 \in Nat /\ 4 \in Nat
      BY SMTT(20)
    <3> QED
      BY <1>t, <3>1, AfterType, Zenon
  <2>5. /\ \/ /\ buf' = raw /\ pos' = After(pos, 2)
              /\ UNCHANGED <<pc, disk, out>>
           \/ /\ buf' = raw /\ pos' = After(pos, 2)
              /\ Done(out)
              /\ UNCHANGED out
           \/ /\ buf' = IF IsUpperSurrogate(Upper(one)) THEN two ELSE one
              /\ pos' = After(pos, IF IsUpperSurrogate(Upper(one)) THEN 4 ELSE 2)
              /\ out' = out \o EncodeUtf8(DecodeUtf16(buf'))
              /\ UNCHANGED <<pc, disk>>
        /\ UNCHANGED <<user, commands, args, inFile, outFile, file, from, to, stray>>
    BY <1>10, Zenon DEF ToUtf8, arguments, raw, one, two
  <2>6. buf' \in Buffer
    BY <2>1, <2>2, <2>3, <2>5, Zenon
  <2>7. out' \in Seq(Byte)
    <3>1. EncodeUtf8(DecodeUtf16(buf')) \in Seq(Byte)
      BY <2>6, DecodeType, EncodeUtf8Type, Zenon
    <3>2. out \o EncodeUtf8(DecodeUtf16(buf')) \in Seq(Byte)
      BY <1>t, <3>1, ConcatProperties, Zenon
    <3>3. out' = out \/ out' = out \o EncodeUtf8(DecodeUtf16(buf'))
      BY <2>5, Zenon
    <3> QED
      BY <1>t, <3>2, <3>3, Zenon
  <2>8. pos' \in Nat /\ pos' <= Len(file)
    <3>1. pos' = After(pos, 2) \/ pos' = After(pos, 4)
      BY <2>5, Zenon
    <3> QED
      BY <2>4, <3>1, Zenon
  <2>9. (pc' = pc \/ pc' = "idle") /\ \A n \in DOMAIN disk' : disk'[n] \in Seq(Byte)
    <3>1. (pc' = pc /\ disk' = disk) \/ Done(out)
      BY <2>5, Zenon
    <3> QED
      BY <1>t, <1>d, <3>1, Zenon
  <2> QED
    BY <1>t, <2>5, <2>6, <2>7, <2>8, <2>9, SMTT(20) DEF TypeOK, Buffer, runs
<1> QED
  BY <1>1, <1>2, <1>3, <1>4, <1>5, <1>6, <1>7, <1>8, <1>9, <1>10, Zenon DEF Next

\* Every reachable state is well typed: what is written is bytes and a loop never
\* is beyond the end of its file, for any files and any contents of the buffer.
THEOREM TypeCorrect == Spec => []TypeOK
BY TypeInit, TypeNext, PTL DEF Spec


-----------------------------------------------------------------------------
(* Whole runs *)

\* The bytes s of the code point cp lie at the place the program has come to.
LiesHere(s, cp) ==
    /\ Denotes(from, s, cp)
    /\ pos + Len(s) <= Len(file) /\ \A i \in 1..Len(s) : file[pos + i] = s[i]

\* From UTF-16 marks are left out, line ends end the run and some are misread.
Spared(cp) == cp # Mark /\ ~Stops(cp) /\ ~Misread(cp)

\* A step passes over a character whole and writes it whole.
KeepsCharacter ==
    \A cp \in Scalar : \A s \in Seq(Byte) :
        LiesHere(s, cp) /\ (from = "UTF8" \/ Spared(cp)) =>
            /\ pos' = pos + Len(s)
            /\ \E t \in Seq(Byte) : out' = out \o t /\ Denotes(to, t, cp)

LEMMA TurnKeepsCharacter ==
    TypeOK /\ [Next]_vars => [FromUtf8 \/ ToUtf8 => KeepsCharacter]_vars
<1> SUFFICES ASSUME TypeOK, FromUtf8 \/ ToUtf8,
                    NEW cp \in Scalar, NEW s \in Seq(Byte), LiesHere(s, cp),
                    from = "UTF8" \/ Spared(cp)
             PROVE  /\ pos' = pos + Len(s)
                    /\ \E t \in Seq(Byte) : out' = out \o t /\ Denotes(to, t, cp)
  BY Zenon DEF KeepsCharacter
<1>1. CASE FromUtf8
  <2>1. from = "UTF8" /\ to # "UTF8"
    BY <1>1, Zenon DEF FromUtf8
  <2>2. /\ DenotesUtf8(s, cp)
        /\ pos + Len(s) <= Len(file) /\ \A i \in 1..Len(s) : file[pos + i] = s[i]
    BY <2>1, Zenon DEF LiesHere, Denotes
  <2>3. /\ pos' = pos + Len(s)
        /\ \E t \in Seq(Byte) : out' = out \o t /\ DenotesUtf16(to, t, cp)
    BY <1>1, <2>2, FromUtf8Turn, Zenon
  <2> QED
    BY <2>1, <2>3, Zenon DEF Denotes
<1>2. CASE ToUtf8
  <2>1. from \in {"UTF16LE", "UTF16BE"} /\ from # "UTF8" /\ to = "UTF8"
    BY <1>2, SMTT(20) DEF ToUtf8, Reads, TypeOK, Encodings
  <2>2. /\ DenotesUtf16(from, s, cp) /\ cp # Mark /\ ~Stops(cp) /\ ~Misread(cp)
        /\ pos + Len(s) <= Len(file) /\ \A i \in 1..Len(s) : file[pos + i] = s[i]
    BY <2>1, Zenon DEF LiesHere, Denotes, Spared
  <2>3. /\ pos' = pos + Len(s)
        /\ \E t \in Seq(Byte) : out' = out \o t /\ DenotesUtf8(t, cp)
    BY <1>2, <2>1, <2>2, ToUtf8Turn, Zenon
  <2> QED
    BY <2>1, <2>3, Zenon DEF Denotes
<1> QED
  BY <1>1, <1>2, Zenon

\* In every run, of any file and whatever the buffer holds, each turn of a loop from
\* or to UTF-8 that finds a character at its place passes over exactly its bytes and
\* writes the bytes of the same one, but for the exceptions from UTF-16.
THEOREM CharactersKept == Spec => [][FromUtf8 \/ ToUtf8 => KeepsCharacter]_vars
BY TypeCorrect, TurnKeepsCharacter, PTL DEF Spec

-----------------------------------------------------------------------------
(* Spelling *)

LEMMA WidthType ==
    ASSUME NEW enc, NEW cp \in CodePoint
    PROVE  /\ Width(enc, cp) \in 1..4
           /\ enc # "UTF8" => Width(enc, cp) = IF cp < 65536 THEN 2 ELSE 4
           /\ enc = "UTF8" => Width(enc, cp) = IF cp < 128 THEN 1 ELSE IF cp < 2048 THEN 2
                                               ELSE IF cp < 65536 THEN 3 ELSE 4
<1> DEFINE w == IF cp < 128 THEN 1 ELSE IF cp < 2048 THEN 2 ELSE IF cp < 65536 THEN 3 ELSE 4
<1>1. /\ Bounds[1] = 128 /\ Bounds[2] = 2048 /\ Bounds[3] = 65536 /\ Bounds[4] = 1114112
      /\ cp \in Nat /\ cp <= 1114111
  BY SMTT(20) DEF CodePoint, Bounds
<1> DEFINE Fits(n) == cp < Bounds[n] /\ (n > 1 => cp >= Bounds[n - 1])
<1>2. w \in 1..4 /\ Fits(w)
  BY <1>1, SMTT(20)
<1>3. \A n \in 1..4 : Fits(n) => n = w
  BY <1>1, SMTT(20)
<1>4. WidthUtf8(cp) = CHOOSE n \in 1..4 : Fits(n)
  BY Zenon DEF WidthUtf8
<1>5. WidthUtf8(cp) = w
  <2> HIDE DEF Fits, w
  <2> QED
    BY <1>2, <1>3, <1>4, Zenon
<1> QED
  BY <1>2, <1>5, SMTT(20) DEF Width

\* The surrogates, as numbers.
LEMMA Surrogates ==
    \A u : /\ u \in HighSurrogate <=> u \in Int /\ 55296 <= u /\ u <= 56319
           /\ u \in LowSurrogate <=> u \in Int /\ 56320 <= u /\ u <= 57343
<1>1. \A u : u \in HighSurrogate <=> u \in Int /\ 55296 <= u /\ u <= 56319
  BY SMTT(60) DEF HighSurrogate
<1>2. \A u : u \in LowSurrogate <=> u \in Int /\ 56320 <= u /\ u <= 57343
  BY SMTT(60) DEF LowSurrogate
<1> HIDE DEF HighSurrogate, LowSurrogate
<1> QED
  BY <1>1, <1>2, SMTT(60)

LEMMA NotSurrogate ==
    ASSUME NEW cp \in Nat, cp <= 1114111, cp < 55296 \/ cp >= 57344
    PROVE  cp \in Scalar /\ cp \in CodePoint
BY Surrogates, SMTT(20) DEF Scalar, CodePoint

\* The bytes that stand for a code point are as many as its width.
LEMMA WidthIsLength ==
    ASSUME NEW enc, NEW s \in Seq(Byte), NEW cp, Denotes(enc, s, cp)
    PROVE  cp \in Scalar /\ cp \in CodePoint /\ Len(s) = Width(enc, cp)
<1>1. CASE enc = "UTF8"
  <2>1. DenotesUtf8(s, cp)
    BY <1>1, Zenon DEF Denotes
  <2> SUFFICES /\ cp \in Scalar /\ cp \in CodePoint
               /\ Len(s) = IF cp < 128 THEN 1 ELSE IF cp < 2048 THEN 2
                           ELSE IF cp < 65536 THEN 3 ELSE 4
    BY <1>1, WidthType, SMTT(20)
  <2>2. CASE Len(s) = 1
    <3> DEFINE a == s[1]
    <3>1. a \in 0..127 /\ cp = a
      BY <2>1, <2>2, SMTT(20) DEF DenotesUtf8
    <3> HIDE DEF a
    <3>2. cp \in Nat /\ cp < 128
      BY <3>1, SMTT(20)
    <3>3. cp \in Scalar /\ cp \in CodePoint
      BY <3>2, NotSurrogate, SMTT(20)
    <3> QED
      BY <3>2, <3>3, <2>2, SMTT(20)
  <2>3. CASE Len(s) = 2
    <3> DEFINE a == s[1]
               b == s[2]
    <3>1. a \in 194..223 /\ b \in Continuation /\ cp = (a - 192) * 64 + (b - 128)
      BY <2>1, <2>3, SMTT(20) DEF DenotesUtf8
    <3> HIDE DEF a, b
    <3>2. a \in Int /\ 194 <= a /\ a <= 223 /\ b \in Int /\ 128 <= b /\ b <= 191
      BY <3>1, SMTT(20) DEF Continuation
    <3>4. cp \in Nat /\ cp >= 128 /\ cp < 2048
      BY <3>1, <3>2, SMTT(20)
    <3>5. cp \in Scalar /\ cp \in CodePoint
      BY <3>4, NotSurrogate, SMTT(20)
    <3> QED
      BY <3>4, <3>5, <2>3, SMTT(20)
  <2>4. CASE Len(s) = 3
    <3> DEFINE a == s[1]
               b == s[2]
               c == s[3]
    <3>1. /\ a \in 224..239 /\ b \in Continuation /\ c \in Continuation
          /\ cp = (a - 224) * 4096 + (b - 128) * 64 + (c - 128)
          /\ cp >= 2048 /\ cp \notin HighSurrogate \cup LowSurrogate
      BY <2>1, <2>4, SMTT(20) DEF DenotesUtf8
    <3> HIDE DEF a, b, c
    <3>2. /\ a \in Int /\ 224 <= a /\ a <= 239 /\ b \in Int /\ 128 <= b /\ b <= 191
          /\ c \in Int /\ 128 <= c /\ c <= 191
      BY <3>1, SMTT(20) DEF Continuation
    <3>4. cp \in Nat /\ cp < 65536
      BY <3>1, <3>2, SMTT(20)
    <3> QED
      BY <3>1, <3>4, <2>4, SMTT(20) DEF Scalar, CodePoint
  <2>5. CASE Len(s) = 4
    <3> DEFINE a == s[1]
               b == s[2]
               c == s[3]
               d == s[4]
    <3>1. /\ a \in 240..244 /\ b \in Continuation /\ c \in Continuation /\ d \in Continuation
          /\ cp = (a - 240) * 262144 + (b - 128) * 4096 + (c - 128) * 64 + (d - 128)
          /\ cp >= 65536 /\ cp <= 1114111
      BY <2>1, <2>5, SMTT(20) DEF DenotesUtf8
    <3> HIDE DEF a, b, c, d
    <3>2. a \in Int /\ b \in Int /\ c \in Int /\ d \in Int
      BY <3>1, SMTT(20) DEF Continuation
    <3>4. cp \in Nat /\ cp >= 65536
      BY <3>1, <3>2, SMTT(20)
    <3>5. cp \in Scalar /\ cp \in CodePoint
      BY <3>1, <3>4, NotSurrogate, SMTT(20)
    <3> QED
      BY <3>4, <3>5, <2>5, SMTT(20)
  <2>6. Len(s) \in {1, 2, 3, 4}
    BY <2>1, SMTT(20) DEF DenotesUtf8
  <2> QED
    BY <2>2, <2>3, <2>4, <2>5, <2>6, SMTT(20)
<1>2. CASE enc # "UTF8"
  <2>1. DenotesUtf16(enc, s, cp)
    BY <1>2, Zenon DEF Denotes
  <2> SUFFICES /\ cp \in Scalar /\ cp \in CodePoint
               /\ Len(s) = IF cp < 65536 THEN 2 ELSE 4
    BY <1>2, WidthType, SMTT(20)
  <2>2. CASE Len(s) = 2
    <3> DEFINE a == s[1]
               b == s[2]
    <3>1. a \in Byte /\ b \in Byte
      BY <2>2, ElementOfSeq, SMTT(20)
    <3>2. cp = Value(enc, a, b) /\ cp \notin HighSurrogate \cup LowSurrogate
      BY <2>1, <2>2, SMTT(20) DEF DenotesUtf16
    <3> HIDE DEF a, b
    <3>3. a \in Int /\ 0 <= a /\ a <= 255 /\ b \in Int /\ 0 <= b /\ b <= 255
      BY <3>1, SMTT(20) DEF Byte
    <3>4. cp \in Nat /\ cp < 65536
      BY <3>2, <3>3, SMTT(20) DEF Value
    <3> QED
      BY <3>2, <3>4, <2>2, SMTT(20) DEF Scalar, CodePoint
  <2>3. CASE Len(s) = 4
    <3> DEFINE high == Value(enc, s[1], s[2])
               low == Value(enc, s[3], s[4])
    <3>1. /\ high \in HighSurrogate /\ low \in LowSurrogate
          /\ cp = 65536 + (high - 55296) * 1024 + (low - 56320)
      BY <2>1, <2>3, SMTT(20) DEF DenotesUtf16
    <3> HIDE DEF high, low
    <3>2. cp \in Nat /\ cp >= 65536 /\ cp <= 1114111
      BY <3>1, Surrogates, SMTT(20)
    <3>3. cp \in Scalar /\ cp \in CodePoint
      BY <3>2, NotSurrogate, SMTT(20)
    <3> QED
      BY <3>2, <3>3, <2>3, SMTT(20)
  <2>4. Len(s) \in {2, 4}
    BY <2>1, SMTT(20) DEF DenotesUtf16
  <2> QED
    BY <2>2, <2>3, <2>4, SMTT(20)
<1> QED
  BY <1>1, <1>2, SMTT(20)

\* What Offset is defined to be.
LEMMA OffsetSteps ==
    ASSUME NEW enc, NEW text \in Seq(CodePoint)
    PROVE  /\ Offset(enc, text) \in [0..Len(text) -> Nat]
           /\ Offset(enc, text)[0] = 0
           /\ \A k \in 1..Len(text) :
                 Offset(enc, text)[k] = Offset(enc, text)[k - 1] + Width(enc, text[k])
<1> DEFINE N == Len(text)
           step == [n \in 1..N |-> [x \in Nat |-> x + Width(enc, text[n])]]
<1>1. N \in Nat /\ \A n \in 1..N : Width(enc, text[n]) \in Nat
  <2>1. N \in Nat /\ \A n \in 1..N : text[n] \in CodePoint
    BY LenProperties, ElementOfSeq, Zenon
  <2>2. 1..4 \subseteq Nat
    BY SMTT(20)
  <2> QED
    BY <2>1, <2>2, WidthType, SMTT(20)
<1> HIDE DEF N
<1>2. step \in [1..N -> [Nat -> Nat]]
  <2>1. \A n \in 1..N : \A x \in Nat : x + Width(enc, text[n]) \in Nat
    BY <1>1, SMTT(20)
  <2> QED
    BY <2>1, Zenon
<1>3. \A n \in 1..N : \A x \in Nat : step[n][x] = x + Width(enc, text[n])
  BY Zenon
<1> HIDE DEF step
<1>4. PICK f \in [0..N -> Nat] : f[0] = 0 /\ \A n \in 1..N : f[n] = step[n][f[n - 1]]
  <2> DEFINE S == Nat
             c == 0
  <2>1. c \in S /\ step \in [1..N -> [S -> S]]
    BY <1>2
  <2>2. N \in Nat
    BY <1>1
  <2> HIDE DEF S, c
  <2>3. \E f \in [0..N -> S] : f[0] = c /\ \A n \in 1..N : f[n] = step[n][f[n - 1]]
    BY <2>1, <2>2, FunctionBySteps, SMTT(20)
  <2> QED
    BY <2>3, Zenon DEF S, c
<1> DEFINE F(g) == [k \in 0..N |-> IF k = 0 THEN 0 ELSE g[k - 1] + Width(enc, text[k])]
<1>5. f = F(f)
  <2>1. \A k \in 0..N : k # 0 => k \in 1..N /\ k - 1 \in 0..N
    BY <1>1, SMTT(20)
  <2>2. \A k \in 0..N : f[k] = IF k = 0 THEN 0 ELSE f[k - 1] + Width(enc, text[k])
    BY <1>3, <1>4, <2>1, Zenon
  <2> QED
    BY <1>4, <2>2, Zenon
<1>6. Offset(enc, text) = CHOOSE g : g = F(g)
  BY Zenon DEF Offset, N
<1> DEFINE off == Offset(enc, text)
<1>7. off = F(off)
  <2> HIDE DEF F
  <2> QED
    BY <1>5, <1>6, Zenon
<1> HIDE DEF off
<1>8. /\ DOMAIN off = 0..N /\ off = [k \in 0..N |-> off[k]]
      /\ off[0] = 0
      /\ \A k \in 1..N : off[k] = off[k - 1] + Width(enc, text[k])
  <2>1. 0 \in 0..N /\ \A k \in 1..N : k \in 0..N /\ k # 0
    BY <1>1, SMTT(20)
  <2>2. off = [k \in 0..N |-> IF k = 0 THEN 0 ELSE off[k - 1] + Width(enc, text[k])]
    BY <1>7, Zenon
  <2>3. \A k \in 0..N : off[k] = IF k = 0 THEN 0 ELSE off[k - 1] + Width(enc, text[k])
    BY <2>2, Zenon
  <2>4. DOMAIN off = 0..N /\ off = [k \in DOMAIN off |-> off[k]]
    BY <2>2, Zenon
  <2> QED
    BY <2>1, <2>3, <2>4, Zenon
<1>9. \A k \in 0..N : off[k] \in Nat
  <2> DEFINE T == {k \in 0..N : off[k] \in Nat}
  <2>1. 0 \in T
    BY <1>1, <1>8, SMTT(20)
  <2>2. ASSUME NEW k \in 0..(N - 1), k \in T PROVE k + 1 \in T
    <3>1. k + 1 \in 1..N /\ k + 1 \in 0..N /\ (k + 1) - 1 = k
      BY <1>1, SMTT(20)
    <3>2. off[k + 1] = off[k] + Width(enc, text[k + 1]) /\ Width(enc, text[k + 1]) \in Nat
      BY <1>1, <1>8, <3>1, Zenon
    <3>3. off[k] \in Nat
      BY <2>2, Zenon
    <3>4. off[k + 1] \in Nat
      BY <3>2, <3>3, SMTT(20)
    <3> QED
      BY <3>1, <3>4, Zenon
  <2>3. 0..N \subseteq T
    <3> HIDE DEF T
    <3>1. \A n \in 0..(N - 1) : n \in T => n + 1 \in T
      BY <2>2, Zenon
    <3>2. 0 \in Nat
      OBVIOUS
    <3> QED
      BY <1>1, <2>1, <3>1, <3>2, NatSetInduction, Zenon
  <2> QED
    BY <2>3, Zenon
<1> QED
  BY <1>8, <1>9, Zenon DEF off, N

\* The part of a sequence after the first p places up to the q-th.
LEMMA Piece ==
    ASSUME NEW S, NEW s \in Seq(S), NEW p \in Nat, NEW q \in Nat, p <= q, q <= Len(s)
    PROVE  /\ SubSeq(s, p + 1, q) \in Seq(S) /\ Len(SubSeq(s, p + 1, q)) = q - p
           /\ \A i \in 1..(q - p) : SubSeq(s, p + 1, q)[i] = s[p + i]
<1> DEFINE m == p + 1
<1>1. Len(s) \in Nat /\ m \in Int /\ m = p + 1
  BY LenProperties, SMTT(20)
<1> HIDE DEF m
<1>2. \A i \in m..q : s[i] \in S
  <2>1. \A i \in m..q : i \in 1..Len(s)
    BY <1>1, SMTT(20)
  <2> QED
    BY <2>1, ElementOfSeq, Zenon
<1>3. /\ SubSeq(s, m, q) \in Seq(S)
      /\ Len(SubSeq(s, m, q)) = IF m <= q THEN q - m + 1 ELSE 0
      /\ \A i \in 1..(q - m + 1) : SubSeq(s, m, q)[i] = s[m + i - 1]
  BY <1>1, <1>2, SubSeqProperties, SMTT(20)
<1>4. Len(SubSeq(s, m, q)) = q - p
  BY <1>1, <1>3, SMTT(20)
<1>5. \A i \in 1..(q - p) : SubSeq(s, m, q)[i] = s[p + i]
  <2>1. q - m + 1 = q - p /\ \A i \in 1..(q - p) : m + i - 1 = p + i
    BY <1>1, SMTT(20)
  <2> QED
    BY <1>3, <2>1, Zenon
<1> QED
  BY <1>1, <1>3, <1>4, <1>5, Zenon

\* Parts of two sequences that are joined.
LEMMA PieceBefore ==
    ASSUME NEW S, NEW s \in Seq(S), NEW t \in Seq(S), NEW p \in Nat, NEW q \in Nat,
           p < q, q <= Len(s)
    PROVE  SubSeq(s \o t, p + 1, q) = SubSeq(s, p + 1, q)
<1> DEFINE m == p + 1
<1>1. m \in 1..Len(s) /\ q \in 1..Len(s)
  BY LenProperties, SMTT(20)
<1> HIDE DEF m
<1>2. SubSeq(s \o t, m, q) = SubSeq(s, m, q)
  BY <1>1, SubSeqOfConcat1, Zenon
<1> QED
  BY <1>2, Zenon DEF m

LEMMA PieceBehind ==
    ASSUME NEW S, NEW s \in Seq(S), NEW t \in Seq(S), Len(t) > 0
    PROVE  SubSeq(s \o t, Len(s) + 1, Len(s) + Len(t)) = t
<1> DEFINE m == Len(s) + 1
           n == Len(s) + Len(t)
<1>1. Len(s) \in Nat /\ Len(t) \in Nat
  BY LenProperties, Zenon
<1>2. /\ m \in m..n /\ n \in m..n /\ m - Len(s) = 1 /\ n - Len(s) = Len(t)
  BY <1>1, SMTT(20)
<1>3. m \in Len(s) + 1..Len(s) + Len(t) /\ n \in Len(s) + 1..Len(s) + Len(t)
  BY <1>2, Zenon
<1> HIDE DEF m, n
<1>4. SubSeq(s \o t, m, n) = SubSeq(t, m - Len(s), n - Len(s))
  BY <1>3, SubSeqOfConcat2, Zenon
<1>5. SubSeq(s \o t, m, n) = t
  BY <1>2, <1>4, SubSeqFull, Zenon
<1> QED
  BY <1>5, Zenon DEF m, n

\* Later characters lie behind earlier ones.
LEMMA OffsetsGrow ==
    ASSUME NEW enc, NEW text \in Seq(CodePoint)
    PROVE  \A j \in 0..Len(text) : \A i \in 0..(j - 1) :
              Offset(enc, text)[i] < Offset(enc, text)[j]
<1> DEFINE N == Len(text)
           off == Offset(enc, text)
           T == {j \in 0..N : \A i \in 0..(j - 1) : off[i] < off[j]}
<1>1. /\ off \in [0..N -> Nat]
      /\ \A k \in 1..N : off[k] = off[k - 1] + Width(enc, text[k])
  BY OffsetSteps, Zenon
<1>2. N \in Nat /\ \A k \in 1..N : text[k] \in CodePoint
  BY LenProperties, ElementOfSeq, Zenon
<1>3. \A k \in 1..N : Width(enc, text[k]) \in 1..4
  BY <1>2, WidthType, SMTT(20)
<1> HIDE DEF N, off
<1>4. 0 \in T
  BY <1>2, SMTT(20)
<1>5. ASSUME NEW j \in 0..(N - 1), j \in T PROVE j + 1 \in T
  <2>1. j + 1 \in 1..N /\ j + 1 \in 0..N /\ j \in 0..N /\ (j + 1) - 1 = j
    BY <1>2, SMTT(20)
  <2>2. off[j + 1] = off[j] + Width(enc, text[j + 1]) /\ Width(enc, text[j + 1]) \in 1..4
    BY <1>1, <1>3, <2>1, Zenon
  <2>3. off[j] < off[j + 1] /\ off[j] \in Nat /\ off[j + 1] \in Nat
    BY <1>1, <2>1, <2>2, SMTT(20)
  <2>4. ASSUME NEW i \in 0..j PROVE off[i] < off[j + 1]
    <3>1. CASE i = j
      BY <2>3, <3>1, SMTT(20)
    <3>2. CASE i # j
      <4>1. i \in 0..(j - 1) /\ i \in 0..N
        BY <3>2, <1>2, SMTT(20)
      <4>2. off[i] < off[j] /\ off[i] \in Nat
        BY <1>1, <1>5, <4>1, Zenon
      <4> QED
        BY <2>3, <4>2, SMTT(20)
    <3> QED
      BY <3>1, <3>2, Zenon
  <2> QED
    BY <2>1, <2>4, Zenon
<1>6. 0..N \subseteq T
  <2> HIDE DEF T
  <2>1. \A n \in 0..(N - 1) : n \in T => n + 1 \in T
    BY <1>5, Zenon
  <2>2. 0 \in Nat
    OBVIOUS
  <2> QED
    BY <1>2, <1>4, <2>1, <2>2, NatSetInduction, Zenon
<1> QED
  BY <1>6, Zenon DEF N, off

\* Where a character lies depends on nothing but those before it.
LEMMA OffsetsAgree ==
    ASSUME NEW enc, NEW a \in Seq(CodePoint), NEW b \in Seq(CodePoint),
           Len(a) <= Len(b), \A i \in 1..Len(a) : b[i] = a[i]
    PROVE  \A k \in 0..Len(a) : Offset(enc, b)[k] = Offset(enc, a)[k]
<1> DEFINE N == Len(a)
           M == Len(b)
           offA == Offset(enc, a)
           offB == Offset(enc, b)
           T == {k \in 0..N : offB[k] = offA[k]}
<1>1. /\ offA[0] = 0 /\ \A k \in 1..N : offA[k] = offA[k - 1] + Width(enc, a[k])
      /\ offB[0] = 0 /\ \A k \in 1..M : offB[k] = offB[k - 1] + Width(enc, b[k])
  BY OffsetSteps, Zenon
<1>2. N \in Nat /\ M \in Nat /\ N <= M /\ \A i \in 1..N : b[i] = a[i]
  BY LenProperties, Zenon
<1> HIDE DEF N, M, offA, offB
<1>3. 0 \in T
  BY <1>1, <1>2, SMTT(20)
<1>4. ASSUME NEW k \in 0..(N - 1), k \in T PROVE k + 1 \in T
  <2>1. k + 1 \in 1..N /\ k + 1 \in 1..M /\ k + 1 \in 0..N /\ (k + 1) - 1 = k
    BY <1>2, SMTT(20)
  <2>2. /\ offA[k + 1] = offA[k] + Width(enc, a[k + 1])
        /\ offB[k + 1] = offB[k] + Width(enc, b[k + 1])
        /\ offB[k] = offA[k] /\ b[k + 1] = a[k + 1]
    BY <1>1, <1>2, <1>4, <2>1, Zenon
  <2> QED
    BY <2>1, <2>2, Zenon
<1>5. 0..N \subseteq T
  <2> HIDE DEF T
  <2>1. \A n \in 0..(N - 1) : n \in T => n + 1 \in T
    BY <1>4, Zenon
  <2>2. 0 \in Nat
    OBVIOUS
  <2> QED
    BY <1>2, <1>3, <2>1, <2>2, NatSetInduction, Zenon
<1> QED
  BY <1>5, Zenon DEF N, M, offA, offB

\* The bytes of each character of a text that is spelled.
LEMMA CharacterBytes ==
    ASSUME NEW enc, NEW text \in Seq(CodePoint), NEW bytes \in Seq(Byte),
           Spells(enc, bytes, text), NEW k \in Nat, k < Len(text)
    PROVE  \E s \in Seq(Byte) :
              /\ Denotes(enc, s, text[k + 1])
              /\ Offset(enc, text)[k] \in Nat
              /\ Offset(enc, text)[k + 1] = Offset(enc, text)[k] + Len(s)
              /\ Offset(enc, text)[k + 1] <= Len(bytes)
              /\ \A i \in 1..Len(s) : bytes[Offset(enc, text)[k] + i] = s[i]
<1> DEFINE off == Offset(enc, text)
           j == k + 1
           p == off[k]
           q == off[j]
           s == SubSeq(bytes, p + 1, q)
           N == Len(text)
<1>1. /\ off \in [0..N -> Nat]
      /\ \A i \in 1..N : off[i] = off[i - 1] + Width(enc, text[i])
  BY OffsetSteps, Zenon
<1>2. Len(bytes) = off[N] /\ \A i \in 1..N : Denotes(enc, SubSeq(bytes, off[i - 1] + 1, off[i]), text[i])
  BY Zenon DEF Spells
<1>3. \A i \in 0..N : \A l \in 0..(i - 1) : off[l] < off[i]
  BY OffsetsGrow, Zenon
<1>4. N \in Nat /\ Len(bytes) \in Nat
  BY LenProperties, Zenon
<1>5. j \in 1..N /\ j - 1 = k /\ k \in 0..N /\ j \in 0..N /\ N \in 0..N /\ (j # N => j \in 0..(N - 1))
  BY <1>4, SMTT(20)
<1> HIDE DEF off, N, j
<1>6. text[j] \in CodePoint
  BY <1>5, ElementOfSeq, Zenon DEF N
<1>7. q = p + Width(enc, text[j]) /\ p \in Nat /\ q \in Nat /\ off[N] \in Nat
  BY <1>1, <1>5, Zenon
<1>8. Denotes(enc, s, text[j])
  BY <1>2, <1>5, Zenon
<1>9. j = N \/ q < off[N]
  BY <1>3, <1>5, Zenon
<1> HIDE DEF p, q
<1>10. Width(enc, text[j]) \in 1..4
  BY <1>6, WidthType, SMTT(20)
<1>11. p <= q /\ q <= Len(bytes)
  <2>1. p <= q
    BY <1>7, <1>10, SMTT(20)
  <2>2. q <= off[N]
    <3>1. CASE j = N
      BY <1>7, <3>1, SMTT(20) DEF q
    <3> QED
      BY <1>7, <1>9, <3>1, SMTT(20)
  <2> QED
    BY <1>2, <2>1, <2>2, Zenon
<1>12. s \in Seq(Byte) /\ Len(s) = q - p /\ \A i \in 1..(q - p) : s[i] = bytes[p + i]
  BY <1>7, <1>11, Piece, SMTT(20)
<1> HIDE DEF s
<1>13. q = p + Len(s)
  BY <1>7, <1>12, SMTT(20)
<1>14. \A i \in 1..Len(s) : bytes[p + i] = s[i]
  BY <1>12, Zenon
<1> QED
  BY <1>7, <1>8, <1>11, <1>12, <1>13, <1>14, Zenon DEF p, q, off, j

\* A character more.
LEMMA SpellsGrows ==
    ASSUME NEW enc, NEW text \in Seq(CodePoint), NEW bytes \in Seq(Byte),
           Spells(enc, bytes, text),
           NEW s \in Seq(Byte), NEW cp, Denotes(enc, s, cp)
    PROVE  Append(text, cp) \in Seq(CodePoint) /\ Spells(enc, bytes \o s, Append(text, cp))
<1> DEFINE more == Append(text, cp)
           off == Offset(enc, text)
           next == Offset(enc, more)
           N == Len(text)
           all == bytes \o s
<1>1. cp \in CodePoint /\ Len(s) = Width(enc, cp)
  BY WidthIsLength, Zenon
<1>2. /\ more \in Seq(CodePoint) /\ Len(more) = N + 1 /\ more[N + 1] = cp
      /\ \A i \in 1..N : more[i] = text[i]
  <2>1. /\ Append(text, cp) \in Seq(CodePoint)
        /\ Len(Append(text, cp)) = Len(text) + 1
    BY <1>1, AppendProperties, SMTT(20)
  <2>2. Append(text, cp)[Len(text) + 1] = cp
    BY <1>1, AppendProperties, SMTT(20)
  <2>3. \A i \in 1..Len(text) : Append(text, cp)[i] = text[i]
    BY <1>1, AppendProperties, SMTT(20)
  <2> QED
    BY <2>1, <2>2, <2>3, Zenon
<1>3. N \in Nat /\ Len(bytes) \in Nat /\ Len(s) \in Nat
  BY LenProperties, Zenon
<1> HIDE DEF more
<1>4. /\ next \in [0..Len(more) -> Nat] /\ next[0] = 0
      /\ \A k \in 1..Len(more) : next[k] = next[k - 1] + Width(enc, more[k])
  BY <1>2, OffsetSteps, Zenon
<1>5. \A k \in 0..N : next[k] = off[k]
  <2>1. Len(text) <= Len(more)
    BY <1>2, <1>3, SMTT(20)
  <2> QED
    BY <1>2, <2>1, OffsetsAgree, Zenon
<1>6. Len(bytes) = off[N] /\ \A k \in 1..N : Denotes(enc, SubSeq(bytes, off[k - 1] + 1, off[k]), text[k])
  BY Zenon DEF Spells
<1>7. \A k \in 1..N : off[k - 1] \in Nat /\ off[k - 1] < off[k] /\ off[k] \in Nat /\ off[k] <= off[N]
  <2> SUFFICES ASSUME NEW k \in 1..N
               PROVE  off[k - 1] \in Nat /\ off[k - 1] < off[k] /\ off[k] \in Nat /\ off[k] <= off[N]
    OBVIOUS
  <2>1. off \in [0..N -> Nat] /\ \A j \in 0..N : \A i \in 0..(j - 1) : off[i] < off[j]
    BY OffsetSteps, OffsetsGrow, Zenon
  <2> HIDE DEF off, N
  <2>2. k \in 0..N /\ k - 1 \in 0..N /\ N \in 0..N /\ k - 1 \in 0..(k - 1) /\ (k # N => k \in 0..(N - 1))
    BY <1>3, SMTT(20)
  <2>3. off[k - 1] \in Nat /\ off[k - 1] < off[k] /\ off[k] \in Nat /\ off[N] \in Nat
    BY <2>1, <2>2, Zenon
  <2>4. k = N \/ off[k] < off[N]
    BY <2>1, <2>2, Zenon
  <2> QED
    BY <2>3, <2>4, SMTT(20)
<1> HIDE DEF off, next, N
<1>8. all \in Seq(Byte) /\ Len(all) = Len(bytes) + Len(s)
  BY ConcatProperties, Zenon
<1>9. next[N + 1] = Len(bytes) + Len(s) /\ next[N] = Len(bytes)
  <2>1. N + 1 \in 1..Len(more) /\ (N + 1) - 1 = N /\ N \in 0..N
    BY <1>2, <1>3, SMTT(20)
  <2>2. next[N + 1] = next[N] + Width(enc, more[N + 1]) /\ next[N] = off[N]
    BY <1>4, <1>5, <2>1, Zenon
  <2> QED
    BY <1>1, <1>2, <1>6, <2>2, Zenon
<1>10. ASSUME NEW k \in 1..(N + 1)
       PROVE  Denotes(enc, SubSeq(all, next[k - 1] + 1, next[k]), more[k])
  <2>1. CASE k = N + 1
    <3>1. k - 1 = N
      BY <1>3, <2>1, SMTT(20)
    <3>2. SubSeq(all, Len(bytes) + 1, Len(bytes) + Len(s)) = s
      <4>1. Len(s) \in 1..4
        BY <1>1, WidthType, SMTT(20)
      <4>2. \A n \in 1..4 : n > 0
        BY SMTT(20)
      <4>3. Len(s) > 0
        BY <4>1, <4>2, Zenon
      <4> QED
        BY <4>3, PieceBehind, Zenon
    <3> QED
      BY <1>2, <1>9, <2>1, <3>1, <3>2, Zenon
  <2>2. CASE k # N + 1
    <3>1. k \in 1..N /\ k \in 0..N /\ k - 1 \in 0..N
      BY <1>3, <2>2, SMTT(20)
    <3>2. /\ next[k] = off[k] /\ next[k - 1] = off[k - 1] /\ more[k] = text[k]
          /\ off[k - 1] \in Nat /\ off[k - 1] < off[k] /\ off[k] \in Nat /\ off[k] <= Len(bytes)
      BY <1>2, <1>5, <1>6, <1>7, <3>1, Zenon DEF N
    <3>4. SubSeq(all, off[k - 1] + 1, off[k]) = SubSeq(bytes, off[k - 1] + 1, off[k])
      BY <3>2, PieceBefore, Zenon
    <3> QED
      BY <1>6, <3>1, <3>2, <3>4, Zenon
  <2> QED
    BY <2>1, <2>2, Zenon
<1>11. Len(all) = next[Len(more)]
  BY <1>2, <1>8, <1>9, Zenon DEF N
<1>12. Len(more) = N + 1
  BY <1>2, Zenon DEF N
<1>13. Spells(enc, all, more)
  BY <1>10, <1>11, <1>12, Zenon DEF Spells, next
<1> QED
  BY <1>2, <1>13, Zenon DEF more

-----------------------------------------------------------------------------
(* What is left when the marks are taken out *)

Keeping(t, cp) == IF cp = Mark THEN t ELSE Append(t, cp)

LEMMA KeepingType ==
    ASSUME NEW t \in Seq(CodePoint), NEW cp \in CodePoint
    PROVE  Keeping(t, cp) \in Seq(CodePoint)
BY AppendProperties, Zenon DEF Keeping

LEMMA KeptSteps ==
    ASSUME NEW text \in Seq(CodePoint)
    PROVE  /\ Kept(text) \in [0..Len(text) -> Seq(CodePoint)]
           /\ Kept(text)[0] = <<>>
           /\ \A k \in 1..Len(text) : Kept(text)[k] = Keeping(Kept(text)[k - 1], text[k])
<1> DEFINE N == Len(text)
           S == Seq(CodePoint)
           step == [n \in 1..N |-> [x \in S |-> Keeping(x, text[n])]]
<1>1. N \in Nat /\ \A n \in 1..N : text[n] \in CodePoint
  BY LenProperties, ElementOfSeq, Zenon
<1>c. <<>> \in S
  OBVIOUS
<1> HIDE DEF N
<1>t. \A n \in 1..N : \A x \in S : Keeping(x, text[n]) \in S
  BY <1>1, KeepingType, Zenon
<1>2. step \in [1..N -> [S -> S]]
  BY <1>t, Zenon
<1>3. \A n \in 1..N : \A x \in S : step[n][x] = Keeping(x, text[n])
  BY Zenon
<1> HIDE DEF step, S
<1>4. PICK f \in [0..N -> S] : f[0] = <<>> /\ \A n \in 1..N : f[n] = step[n][f[n - 1]]
  <2> DEFINE c == <<>>
  <2>1. c \in S /\ step \in [1..N -> [S -> S]]
    BY <1>c, <1>2, Zenon
  <2>3. N \in Nat
    BY <1>1, Zenon
  <2> HIDE DEF c
  <2>2. \E f \in [0..N -> S] : f[0] = c /\ \A n \in 1..N : f[n] = step[n][f[n - 1]]
    BY <2>1, <2>3, FunctionBySteps, SMTT(20)
  <2> QED
    BY <2>2, Zenon DEF c
<1> DEFINE F(g) == [k \in 0..N |-> IF k = 0 THEN <<>>
                                   ELSE IF text[k] = Mark THEN g[k - 1]
                                   ELSE Append(g[k - 1], text[k])]
<1>z. 0 \in 0..N /\ \A k \in 1..N : k \in 0..N /\ k # 0 /\ k - 1 \in 0..N
  BY <1>1, SMTT(20)
<1>n. \A k \in 0..N : k # 0 => k \in 1..N /\ k - 1 \in 0..N
  BY <1>1, SMTT(20)
<1>5. f = F(f)
  <2>1. \A k \in 0..N : f[k] = IF k = 0 THEN <<>> ELSE Keeping(f[k - 1], text[k])
    BY <1>3, <1>4, <1>n, Zenon
  <2>2. \A k \in 0..N : f[k] = IF k = 0 THEN <<>>
                               ELSE IF text[k] = Mark THEN f[k - 1]
                               ELSE Append(f[k - 1], text[k])
    BY <2>1, Zenon DEF Keeping
  <2> QED
    BY <1>4, <2>2, Zenon
<1>6. Kept(text) = CHOOSE g : g = F(g)
  BY Zenon DEF Kept, N
<1> DEFINE kept == Kept(text)
<1>7. kept = F(kept)
  <2> HIDE DEF F
  <2> QED
    BY <1>5, <1>6, Zenon
<1> HIDE DEF kept
<1>8. /\ DOMAIN kept = 0..N /\ kept = [k \in 0..N |-> kept[k]]
      /\ kept[0] = <<>>
      /\ \A k \in 1..N : kept[k] = Keeping(kept[k - 1], text[k])
  <2>2. kept = [k \in 0..N |-> IF k = 0 THEN <<>>
                               ELSE IF text[k] = Mark THEN kept[k - 1]
                               ELSE Append(kept[k - 1], text[k])]
    BY <1>7, Zenon
  <2>3. \A k \in 0..N : kept[k] = IF k = 0 THEN <<>>
                                  ELSE IF text[k] = Mark THEN kept[k - 1]
                                  ELSE Append(kept[k - 1], text[k])
    BY <2>2, Zenon
  <2>4. DOMAIN kept = 0..N /\ kept = [k \in DOMAIN kept |-> kept[k]]
    BY <2>2, Zenon
  <2> QED
    BY <1>z, <2>3, <2>4, Zenon DEF Keeping
<1>9. \A k \in 0..N : kept[k] \in S
  <2> DEFINE T == {k \in 0..N : kept[k] \in S}
  <2>1. 0 \in T
    BY <1>c, <1>z, <1>8, Zenon
  <2>2. ASSUME NEW k \in 0..(N - 1), k \in T PROVE k + 1 \in T
    <3>1. k + 1 \in 1..N /\ k + 1 \in 0..N /\ (k + 1) - 1 = k
      BY <1>1, SMTT(20)
    <3>2. kept[k + 1] = Keeping(kept[k], text[k + 1])
      BY <1>8, <3>1, Zenon
    <3> QED
      BY <1>t, <2>2, <3>1, <3>2, Zenon
  <2>3. 0..N \subseteq T
    <3> HIDE DEF T
    <3>1. \A n \in 0..(N - 1) : n \in T => n + 1 \in T
      BY <2>2, Zenon
    <3>2. 0 \in Nat
      OBVIOUS
    <3> QED
      BY <1>1, <2>1, <3>1, <3>2, NatSetInduction, Zenon
  <2> QED
    BY <2>3, Zenon
<1> QED
  BY <1>8, <1>9, Zenon DEF kept, N, S

LEMMA NoMarksGrows ==
    ASSUME NEW text \in Seq(CodePoint), NEW cp \in CodePoint
    PROVE  /\ NoMarks(text) \in Seq(CodePoint)
           /\ NoMarks(Append(text, cp)) = Keeping(NoMarks(text), cp)
<1> DEFINE more == Append(text, cp)
           N == Len(text)
           a == Kept(text)
           b == Kept(more)
           T == {k \in 0..N : b[k] = a[k]}
<1>1. more \in Seq(CodePoint) /\ Len(more) = N + 1
  BY AppendProperties, SMTT(20)
<1>2. more[N + 1] = cp
  BY AppendProperties, SMTT(20)
<1>3. \A i \in 1..N : more[i] = text[i]
  BY AppendProperties, SMTT(20)
<1>4. N \in Nat
  BY LenProperties, Zenon
<1> HIDE DEF more
<1>5. /\ a \in [0..N -> Seq(CodePoint)] /\ a[0] = <<>>
      /\ \A k \in 1..N : a[k] = Keeping(a[k - 1], text[k])
      /\ b[0] = <<>> /\ \A k \in 1..(N + 1) : b[k] = Keeping(b[k - 1], more[k])
  BY <1>1, KeptSteps, Zenon
<1> HIDE DEF N, a, b
<1>6. 0..N \subseteq T
  <2>1. 0 \in T
    BY <1>4, <1>5, SMTT(20)
  <2>2. ASSUME NEW k \in 0..(N - 1), k \in T PROVE k + 1 \in T
    <3>1. k + 1 \in 1..N /\ k + 1 \in 1..(N + 1) /\ k + 1 \in 0..N /\ (k + 1) - 1 = k
      BY <1>4, SMTT(20)
    <3>2. /\ a[k + 1] = Keeping(a[k], text[k + 1]) /\ b[k + 1] = Keeping(b[k], more[k + 1])
          /\ b[k] = a[k] /\ more[k + 1] = text[k + 1]
      BY <1>3, <1>5, <2>2, <3>1, Zenon
    <3> QED
      BY <3>1, <3>2, Zenon
  <2> HIDE DEF T
  <2>3. \A n \in 0..(N - 1) : n \in T => n + 1 \in T
    BY <2>2, Zenon
  <2>4. 0 \in Nat
    OBVIOUS
  <2> QED
    BY <1>4, <2>1, <2>3, <2>4, NatSetInduction, Zenon
<1>7. N \in 0..N /\ N + 1 \in 1..(N + 1) /\ (N + 1) - 1 = N
  BY <1>4, SMTT(20)
<1>8. b[N] = a[N] /\ b[N + 1] = Keeping(b[N], more[N + 1]) /\ a[N] \in Seq(CodePoint)
  BY <1>5, <1>6, <1>7, Zenon
<1>9. NoMarks(text) = a[N] /\ NoMarks(more) = b[N + 1]
  BY <1>1, Zenon DEF NoMarks, a, b, N
<1> QED
  BY <1>2, <1>8, <1>9, Zenon DEF more

-----------------------------------------------------------------------------
(* The user's file *)

\* What there is of it.
Stored == SubSeq(user.whole, 1, user.cut)

\* Until the first run has opened its files the user's is as it was, a run that
\* converts it has read all of it and knows its form, and the history of a run is
\* its own.
FileInv ==
    /\ user \in Files
    /\ pc # "idle" => commands # <<>>
    /\ commands = <<>> \/ (runs = 1 /\ pc = "parse") =>
           Source \in DOMAIN disk /\ disk[Source] = Stored
    /\ pc = "convert" /\ runs = 1 /\ inFile = Source => from = user.enc /\ file = Stored
    /\ pc = "parse" => ~stray
    /\ pc = "convert" /\ stray => from # "UTF8"

LEMMA ContentType ==
    ASSUME user \in Files
    PROVE  /\ user.enc \in Encodings /\ user.whole \in Seq(Byte) /\ user.cut \in 0..Len(user.whole)
           /\ user.text \in Seq(CodePoint)
           /\ Content \in Seq(CodePoint) /\ Len(Content) = Len(user.text) + 1
           /\ Content[1] = Mark /\ \A k \in 1..Len(user.text) : Content[k + 1] = user.text[k]
           /\ Spells(user.enc, user.whole, Content)
<1>1. /\ user.enc \in Encodings /\ user.text \in Seq(CodePoint)
      /\ Spells(user.enc, user.whole, Content)
  BY FilesAssumption, Zenon DEF Content
<1>2. user.whole \in Seq(Byte) /\ user.cut \in 0..Len(user.whole)
  BY UtfAssumption, Zenon
<1>3. Mark \in CodePoint /\ <<Mark>> \in Seq(CodePoint) /\ Len(<<Mark>>) = 1 /\ <<Mark>>[1] = Mark
  <2>1. Mark \in CodePoint
    BY SMTT(20) DEF Mark, CodePoint
  <2> QED
    BY <2>1, SMTT(20)
<1> DEFINE m == <<Mark>>
           t == user.text
<1>4. m \in Seq(CodePoint) /\ Len(m) = 1 /\ m[1] = Mark /\ t \in Seq(CodePoint) /\ Content = m \o t
  BY <1>1, <1>3, Zenon DEF Content
<1> HIDE DEF m, t
<1>5. /\ m \o t \in Seq(CodePoint) /\ Len(m \o t) = Len(m) + Len(t)
      /\ \A i \in 1..Len(m) + Len(t) : (m \o t)[i] = IF i <= Len(m) THEN m[i] ELSE t[i - Len(m)]
  <2>1. m \in Seq(CodePoint) /\ t \in Seq(CodePoint)
    BY <1>4, Zenon
  <2> QED
    BY <2>1, ConcatProperties, Zenon
<1>6. Len(t) \in Nat
  BY <1>4, LenProperties, Zenon
<1>7. Len(m) + Len(t) = Len(t) + 1
  BY <1>4, <1>6, SMTT(20)
<1>8. 1 \in 1..(Len(t) + 1) /\ 1 <= 1
      /\ \A k \in 1..Len(t) : k + 1 \in 1..(Len(t) + 1) /\ ~(k + 1 <= 1) /\ (k + 1) - 1 = k
  BY <1>6, SMTT(20)
<1>9. /\ Content \in Seq(CodePoint) /\ Len(Content) = Len(t) + 1
      /\ Content[1] = Mark /\ \A k \in 1..Len(t) : Content[k + 1] = t[k]
  BY <1>4, <1>5, <1>7, <1>8, Zenon
<1> QED
  BY <1>1, <1>2, <1>9, Zenon DEF t

\* The bytes of the mark.
LEMMA MarkBytes ==
    ASSUME NEW enc, NEW s \in Seq(Byte), Denotes(enc, s, Mark)
    PROVE  /\ enc = "UTF8" => s[1] = 239
           /\ enc = "UTF16LE" => Len(s) = 2 /\ s[1] = 255 /\ s[2] = 254
           /\ enc = "UTF16BE" => Len(s) = 2 /\ s[1] = 254 /\ s[2] = 255
<1>0. Len(s) = IF enc = "UTF8" THEN 3 ELSE 2
  <2> DEFINE cp == Mark
  <2>1. Len(s) = Width(enc, cp) /\ cp \in CodePoint
    BY WidthIsLength, Zenon
  <2>2. cp = 65279
    BY SMTT(20) DEF Mark
  <2> HIDE DEF cp
  <2> QED
    BY <2>1, <2>2, WidthType, SMTT(20)
<1> DEFINE a == s[1]
           b == s[2]
           c == s[3]
<1>1. a \in Byte /\ b \in Byte
  BY <1>0, ElementOfSeq, SMTT(20)
<1>2. CASE enc = "UTF8"
  <2>1. /\ a \in 224..239 /\ b \in Continuation /\ c \in Continuation
        /\ 65279 = (a - 224) * 4096 + (b - 128) * 64 + (c - 128)
    BY <1>0, <1>2, SMTT(20) DEF Denotes, DenotesUtf8, Mark
  <2> HIDE DEF a, b, c
  <2>2. /\ a \in Int /\ 224 <= a /\ a <= 239 /\ b \in Int /\ 128 <= b /\ b <= 191
        /\ c \in Int /\ 128 <= c /\ c <= 191
    BY <2>1, SMTT(20) DEF Continuation
  <2>3. a = 239
    BY <2>1, <2>2, SMTT(20)
  <2> QED
    BY <1>2, <2>3, SMTT(20) DEF a
<1>3. CASE enc # "UTF8"
  <2>1. 65279 = Value(enc, a, b)
    BY <1>0, <1>3, SMTT(20) DEF Denotes, DenotesUtf16, Mark
  <2> HIDE DEF a, b
  <2>2. a \in Int /\ 0 <= a /\ a <= 255 /\ b \in Int /\ 0 <= b /\ b <= 255
    BY <1>1, SMTT(20) DEF Byte
  <2>3. enc = "UTF16LE" => a = 255 /\ b = 254
    BY <2>1, <2>2, SMTT(20) DEF Value
  <2>4. enc = "UTF16BE" => a = 254 /\ b = 255
    BY <2>1, <2>2, SMTT(20) DEF Value
  <2> QED
    BY <1>0, <1>3, <2>3, <2>4, SMTT(20) DEF a, b
<1> QED
  BY <1>2, <1>3, SMTT(20)

\* The mark tells the form of a file.
LEMMA FormIsTold ==
    ASSUME user \in Files, NEW enc \in Encodings, Len(Stored) >= 3,
           SubSeq(Stored, 1, Len(Bom(enc))) = Bom(enc)
    PROVE  enc = user.enc
<1>1. /\ user.enc \in Encodings /\ user.whole \in Seq(Byte) /\ user.cut \in 0..Len(user.whole)
      /\ Content \in Seq(CodePoint) /\ 1 \in 1..Len(Content)
      /\ Content[1] = Mark /\ Spells(user.enc, user.whole, Content)
  <2>1. Len(user.text) \in Nat /\ Len(Content) = Len(user.text) + 1
    BY ContentType, LenProperties, Zenon
  <2>2. 1 \in 1..Len(Content)
    BY <2>1, SMTT(20)
  <2> QED
    BY <2>2, ContentType, Zenon
<1> DEFINE first == user.whole[1]
<1>2. first = IF user.enc = "UTF8" THEN 239 ELSE IF user.enc = "UTF16LE" THEN 255 ELSE 254
  <2> DEFINE k == 0
             off == Offset(user.enc, Content)
  <2>1. k \in Nat /\ k < Len(Content) /\ k + 1 = 1
    BY <1>1, LenProperties, SMTT(20)
  <2>2. off[k] = 0
    BY <1>1, OffsetSteps, Zenon
  <2> HIDE DEF k
  <2>3. PICK s \in Seq(Byte) :
           Denotes(user.enc, s, Content[k + 1]) /\ \A i \in 1..Len(s) : user.whole[off[k] + i] = s[i]
    <3> DEFINE e == user.enc
               w == user.whole
    <3>1. k < Len(Content) /\ k \in Nat /\ w \in Seq(Byte) /\ Spells(e, w, Content)
      BY <1>1, <2>1, Zenon
    <3>2. Content \in Seq(CodePoint)
      BY <1>1, Zenon
    <3> HIDE DEF e, w
    <3>3. \E s \in Seq(Byte) :
              /\ Denotes(e, s, Content[k + 1])
              /\ Offset(e, Content)[k] \in Nat
              /\ Offset(e, Content)[k + 1] = Offset(e, Content)[k] + Len(s)
              /\ Offset(e, Content)[k + 1] <= Len(w)
              /\ \A i \in 1..Len(s) : w[Offset(e, Content)[k] + i] = s[i]
      BY <3>1, <3>2, CharacterBytes, SMTT(20)
    <3> QED
      BY <3>3, Zenon DEF e, w
  <2>4. Denotes(user.enc, s, Mark)
    BY <1>1, <2>1, <2>3, Zenon
  <2> HIDE DEF off
  <2>5. 1 \in 1..Len(s) /\ off[k] + 1 = 1
    <3>1. Len(s) = Width(user.enc, Mark) /\ Mark \in CodePoint
      BY <2>4, WidthIsLength, Zenon
    <3>2. Len(s) \in 1..4
      BY <3>1, WidthType, SMTT(20)
    <3>3. 0 + 1 = 1 /\ \A n \in 1..4 : 1 \in 1..n
      BY SMTT(20)
    <3> QED
      BY <2>2, <3>2, <3>3, Zenon
  <2>6. first = s[1]
    BY <2>3, <2>5, SMTT(20)
  <2> HIDE DEF first
  <2> QED
    BY <1>1, <2>4, <2>6, MarkBytes, SMTT(20) DEF Encodings
<1>3. first = Bom(enc)[1]
  <2> DEFINE n == Len(Bom(enc))
  <2>1. Stored \in Seq(Byte) /\ Len(Stored) \in Nat
    BY <1>1, SMTT(20) DEF Stored
  <2>2. n \in {2, 3}
    BY SMTT(20) DEF Bom
  <2> HIDE DEF n
  <2>3. SubSeq(Stored, 1, n)[1] = Stored[1]
    BY <2>1, <2>2, SMTT(20)
  <2>4. Stored[1] = first
    <3>1. user.cut \in Nat /\ user.cut >= 1 /\ user.cut <= Len(user.whole)
      BY <1>1, SMTT(20) DEF Stored
    <3> QED
      BY <1>1, <3>1, SMTT(20) DEF Stored
  <2> QED
    BY <2>3, <2>4, Zenon DEF n
<1>4. Bom(enc)[1] = IF enc = "UTF8" THEN 239 ELSE IF enc = "UTF16LE" THEN 255 ELSE 254
  BY SMTT(20) DEF Bom
<1> HIDE DEF first
<1> QED
  BY <1>1, <1>2, <1>3, <1>4, SMTT(20) DEF Encodings

LEMMA FileInit == Init => FileInv
<1> SUFFICES ASSUME Init PROVE FileInv
  OBVIOUS
<1>1. /\ user \in Files /\ pc = "idle" /\ commands = <<>>
      /\ disk = [n \in DOMAIN Before \cup {Source} |->
                   IF n = Source THEN SubSeq(user.whole, 1, user.cut) ELSE Before[n]]
  BY Zenon DEF Init
<1>2. Source \in DOMAIN disk /\ disk[Source] = Stored
  BY <1>1, Zenon DEF Stored
<1> QED
  BY <1>1, <1>2, Zenon DEF FileInv

\* A turn keeps all but these.
LEMMA FileTurn ==
    ASSUME FileInv, pc = "convert", pc' \in {"convert", "idle"},
           UNCHANGED <<user, commands, inFile, from, file>>,
           stray' => stray \/ from # "UTF8"
    PROVE  FileInv'
BY Zenon DEF FileInv, Stored, runs

LEMMA FileNext == TypeOK /\ FileInv /\ [Next]_vars => FileInv'
<1> SUFFICES ASSUME TypeOK, FileInv, [Next]_vars PROVE FileInv'
  OBVIOUS
<1>1. CASE UNCHANGED vars
  BY <1>1, Zenon DEF vars, arguments, runs, FileInv, Stored
<1>2. CASE Run
  <2>1. /\ commands' = Append(commands, args') /\ pc = "idle" /\ pc' = "parse" /\ stray' = FALSE
        /\ UNCHANGED <<user, disk>>
    BY <1>2, Zenon DEF Run
  <2>2. commands \in Seq(Commands) /\ args' \in Commands
    BY <1>2, Zenon DEF TypeOK, Run
  <2>3. /\ commands' # <<>> /\ Len(commands') = Len(commands) + 1
        /\ Len(commands) = 0 => commands = <<>>
    BY <2>1, <2>2, SMTT(20)
  <2>4. Len(commands') = 1 => commands = <<>>
    <3>1. Len(commands) \in Nat
      BY <2>2, LenProperties, Zenon
    <3>2. \A n \in Nat : n + 1 = 1 => n = 0
      BY SMTT(20)
    <3> QED
      BY <2>3, <3>1, <3>2, Zenon
  <2> QED
    BY <2>1, <2>3, <2>4, Zenon DEF FileInv, Stored, runs
<1>3. CASE Encoding \/ Name \/ Usage \/ Refuse
  <2>1. /\ pc = "parse" /\ (pc' = pc \/ pc' = "exit")
        /\ UNCHANGED <<user, disk, commands, stray>>
    BY <1>3, Zenon DEF Encoding, Name, Usage, Refuse, NextArg, Parsed, arguments
  <2> QED
    BY <2>1, Zenon DEF FileInv, Stored, runs
<1>4. ASSUME NEW enc \in Encodings, Crash(enc) \/ Start(enc) PROVE FileInv'
  <2>1. /\ pc = "parse" /\ from' = enc /\ UNCHANGED <<user, commands, inFile, stray>>
        /\ StartsWith(enc)
    BY <1>4, Zenon DEF Crash, Start, Opens, Parsed, arguments
  <2>2. \/ pc' = "crashed"
        \/ pc' = "convert" /\ file' = disk[inFile]
    BY <1>4, Zenon DEF Crash, Start
  <2>3. user \in Files /\ ~stray /\ commands # <<>>
    BY <2>1, Zenon DEF FileInv
  <2>4. ASSUME runs = 1, inFile = Source PROVE enc = user.enc /\ disk[inFile] = Stored
    <3>1. disk[inFile] = Stored
      BY <2>1, <2>4, Zenon DEF FileInv
    <3>2. Len(Stored) >= 3 /\ SubSeq(Stored, 1, Len(Bom(enc))) = Bom(enc)
      BY <2>1, <3>1, Zenon DEF StartsWith
    <3> QED
      BY <2>3, <3>1, <3>2, FormIsTold, Zenon
  <2> QED
    BY <2>1, <2>2, <2>3, <2>4, Zenon DEF FileInv, Stored, runs
<1>5. CASE Transcribe \/ AtEnd
  <2>1. /\ pc = "convert" /\ pc' = "idle" /\ stray' = stray
        /\ UNCHANGED <<user, commands, inFile, from, file>>
    BY <1>5, Zenon DEF Transcribe, AtEnd, Done, arguments
  <2> QED
    BY <2>1, FileTurn, Zenon
<1>6. CASE FromUtf8
  BY <1>6, FileTurn, Zenon DEF FromUtf8, Reads, arguments
<1>7. CASE SwapUnits
  <2>1. from # "UTF8"
    BY <1>7, Zenon DEF SwapUnits
  <2> QED
    BY <1>7, <2>1, FileTurn, Zenon DEF SwapUnits, Reads, Done, arguments
<1>8. CASE ToUtf8
  BY <1>8, FileTurn, Zenon DEF ToUtf8, Reads, Done, arguments
<1> QED
  BY <1>1, <1>2, <1>3, <1>4, <1>5, <1>6, <1>7, <1>8, Zenon DEF Next

\* What is known of a first run that converts the user's file.
LEMMA FileIsThere ==
    ASSUME TypeOK, FileInv, FirstRun
    PROVE  /\ user \in Files /\ user.whole \in Seq(Byte) /\ user.cut \in Nat
           /\ user.cut <= Len(user.whole) /\ Len(user.whole) \in Nat
           /\ from \in Encodings /\ to \in Encodings /\ from # to
           /\ Content \in Seq(CodePoint) /\ Len(Content) \in Nat
           /\ Spells(from, user.whole, Content)
           /\ file \in Seq(Byte) /\ Len(file) = user.cut /\ pos \in Nat /\ pos <= Len(file)
           /\ \A i \in 1..Len(file) : file[i] = user.whole[i]
<1>1. /\ user \in Files /\ from = user.enc /\ file = SubSeq(user.whole, 1, user.cut)
  BY Zenon DEF FileInv, FirstRun, Stored
<1>2. /\ from \in Encodings /\ to \in Encodings /\ from # to
      /\ file \in Seq(Byte) /\ pos \in Nat /\ pos <= Len(file)
  BY Zenon DEF TypeOK, FirstRun
<1>3. /\ user.whole \in Seq(Byte) /\ user.cut \in 0..Len(user.whole) /\ Content \in Seq(CodePoint)
      /\ Spells(from, user.whole, Content)
  BY <1>1, ContentType, Zenon
<1>4. Len(user.whole) \in Nat /\ Len(Content) \in Nat
  BY <1>3, LenProperties, Zenon
<1>5. user.cut \in Nat /\ user.cut <= Len(user.whole)
  BY <1>3, <1>4, SMTT(20)
<1> DEFINE w == user.whole
           c == user.cut
           z == 0
           f == SubSeq(w, z + 1, c)
<1>6. w \in Seq(Byte) /\ z \in Nat /\ c \in Nat /\ z <= c /\ c <= Len(w)
  BY <1>3, <1>5, SMTT(20)
<1>7. z + 1 = 1 /\ c - z = c /\ \A i \in 1..c : z + i = i
  BY <1>5, SMTT(20)
<1> HIDE DEF w, c, z
<1>8. Len(f) = c - z /\ \A i \in 1..(c - z) : f[i] = w[z + i]
  BY <1>6, Piece, SMTT(20)
<1>9. f = file
  BY <1>1, <1>7, Zenon DEF w, c
<1> HIDE DEF f
<1>10. Len(file) = c /\ \A i \in 1..c : file[i] = w[i]
  BY <1>7, <1>8, <1>9, Zenon
<1> QED
  BY <1>1, <1>2, <1>3, <1>4, <1>5, <1>10, Zenon DEF w, c

-----------------------------------------------------------------------------
(* What is written *)

LEMMA SpellsNothing ==
    ASSUME NEW enc
    PROVE  Spells(enc, <<>>, <<>>)
<1> DEFINE t == <<>>
<1>1. t \in Seq(CodePoint) /\ Len(t) = 0
  OBVIOUS
<1> HIDE DEF t
<1>2. Offset(enc, t)[0] = 0
  BY <1>1, OffsetSteps, Zenon
<1>3. \A k \in 1..0 : FALSE
  OBVIOUS
<1>4. Spells(enc, t, t)
  BY <1>1, <1>2, <1>3, Zenon DEF Spells
<1> QED
  BY <1>4, Zenon DEF t

LEMMA SpellsMark == ASSUME NEW enc \in Encodings PROVE Spells(enc, Bom(enc), <<Mark>>)
<1> DEFINE b == Bom(enc)
           t == <<>>
           e == <<>>
           m == Mark
<1>1. Denotes(enc, b, m)
  <2>1. CASE enc = "UTF8"
    BY <2>1, SMTT(20) DEF Denotes, DenotesUtf8, Bom, Continuation, HighSurrogate, LowSurrogate, Mark
  <2>2. CASE enc = "UTF16LE"
    BY <2>2, SMTT(20) DEF Denotes, DenotesUtf16, Bom, Value, HighSurrogate, LowSurrogate, Mark
  <2>3. CASE enc = "UTF16BE"
    BY <2>3, SMTT(20) DEF Denotes, DenotesUtf16, Bom, Value, HighSurrogate, LowSurrogate, Mark
  <2> QED
    BY <2>1, <2>2, <2>3, Zenon DEF Encodings
<1>2. b \in Seq(Byte) /\ t \in Seq(CodePoint) /\ e \in Seq(Byte) /\ Spells(enc, e, t)
  <2>1. t \in Seq(CodePoint) /\ e \in Seq(Byte)
    OBVIOUS
  <2> QED
    BY <2>1, BomType, SpellsNothing, Zenon
<1>3. m \in CodePoint
  BY SMTT(20) DEF Mark, CodePoint
<1>4. Append(t, m) = <<m>> /\ e \o b = b
  <2> HIDE DEF m, b
  <2> QED
    BY <1>2, <1>3, SMTT(20)
<1> HIDE DEF b, t, e, m
<1>5. Spells(enc, e \o b, Append(t, m))
  BY <1>1, <1>2, SpellsGrows, SMTT(20)
<1> QED
  BY <1>4, <1>5, Zenon DEF b, m

\* How the rendering of a text grows with it.
LEMMA RenderingGrows ==
    ASSUME NEW t \in Seq(CodePoint), NEW cp \in CodePoint
    PROVE  /\ Rendering(t) \in Seq(CodePoint)
           /\ Rendering(Append(t, cp)) = IF from = "UTF8" THEN Append(Rendering(t), cp)
                                         ELSE Keeping(Rendering(t), cp)
<1> DEFINE m == <<Mark>>
           Kind(x) == IF from = "UTF8" THEN x ELSE NoMarks(x)
           r == Kind(t)
<1>1. m \in Seq(CodePoint)
  <2>1. Mark \in CodePoint
    BY SMTT(20) DEF Mark, CodePoint
  <2> QED
    BY <2>1, SMTT(20)
<1>2. r \in Seq(CodePoint)
  BY NoMarksGrows, Zenon
<1>3. Kind(Append(t, cp)) = IF from = "UTF8" THEN Append(r, cp) ELSE Keeping(r, cp)
  BY NoMarksGrows, Zenon
<1>4. \A x : Rendering(x) = m \o Kind(x)
  BY Zenon DEF Rendering
<1> HIDE DEF m, Kind, r
<1>5. m \o r \in Seq(CodePoint) /\ m \o Append(r, cp) = Append(m \o r, cp)
  <2>1. m \o r \in Seq(CodePoint)
    BY <1>1, <1>2, ConcatProperties, SMTT(20)
  <2>2. m \o Append(r, cp) = Append(m \o r, cp)
    BY <1>1, <1>2, SMTT(20)
  <2> QED
    BY <2>1, <2>2, Zenon
<1>6. Rendering(t) = m \o r
  BY <1>4, Zenon DEF r
<1> QED
  BY <1>3, <1>4, <1>5, <1>6, Zenon DEF Keeping

\* A character that is written where the text before it is.
LEMMA CharacterWritten ==
    ASSUME NEW t \in Seq(CodePoint), NEW cp, NEW w \in Seq(Byte), Spells(to, w, Rendering(t)),
           from = "UTF8" \/ cp # Mark,
           NEW s \in Seq(Byte), Denotes(to, s, cp)
    PROVE  Spells(to, w \o s, Rendering(Append(t, cp)))
<1>1. cp \in CodePoint
  BY WidthIsLength, Zenon
<1>2. /\ Rendering(t) \in Seq(CodePoint) /\ Rendering(Append(t, cp)) = Append(Rendering(t), cp)
  BY <1>1, RenderingGrows, Zenon DEF Keeping
<1> DEFINE r == Rendering(t)
<1>3. r \in Seq(CodePoint) /\ Spells(to, w, r)
  BY <1>2, Zenon
<1> HIDE DEF r
<1>4. Spells(to, w \o s, Append(r, cp))
  BY <1>3, SpellsGrows, SMTT(20)
<1> QED
  BY <1>2, <1>4, Zenon DEF r

\* The text that is read, a character at a time.
LEMMA PrefixGrows ==
    ASSUME Content \in Seq(CodePoint)
    PROVE  /\ Prefix(0) = <<>>
           /\ \A k \in 0..Len(Content) : Prefix(k) \in Seq(CodePoint)
           /\ \A k \in 0..(Len(Content) - 1) :
                 /\ Content[k + 1] \in CodePoint
                 /\ Prefix(k + 1) = Append(Prefix(k), Content[k + 1])
<1> DEFINE t == Content
<1>1. t \in Seq(CodePoint) /\ Len(t) \in Nat
  BY LenProperties, Zenon
<1> HIDE DEF t
<1>2. SubSeq(t, 1, 0) = <<>>
  BY <1>1, SMTT(20)
<1>3. ASSUME NEW k \in 0..Len(t) PROVE SubSeq(t, 1, k) \in Seq(CodePoint)
  BY <1>1, <1>3, SMTT(20)
<1>4. ASSUME NEW k \in 0..(Len(t) - 1)
      PROVE  /\ t[k + 1] \in CodePoint
             /\ SubSeq(t, 1, k + 1) = Append(SubSeq(t, 1, k), t[k + 1])
  <2>1. k + 1 \in 1..Len(t)
    BY <1>1, SMTT(20)
  <2>2. t[k + 1] \in CodePoint
    BY <1>1, <2>1, ElementOfSeq, Zenon
  <2>3. SubSeq(t, 1, k + 1) = Append(SubSeq(t, 1, k), t[k + 1])
    BY <1>1, <2>1, <2>2, SMTT(20)
  <2> QED
    BY <2>2, <2>3, Zenon
<1> QED
  BY <1>2, <1>3, <1>4, Zenon DEF Prefix, t

-----------------------------------------------------------------------------
(* How far a conversion has come *)

\* The first k characters are written, and then the bytes t.
Wrote(k, t) == \E w \in Seq(Byte) : out = w \o t /\ Spells(to, w, Rendering(Prefix(k)))

\* It is behind the k-th character, has swapped the first unit of the next, or has
\* come to the end of a file that is cut off within the next.
Behind(k) == pos = Place(k) /\ Spells(to, out, Rendering(Prefix(k)))
Within(k) ==
    /\ k < Len(Content) /\ from # "UTF8" /\ to # "UTF8" /\ NeedsPair(Content[k + 1])
    /\ pos = Place(k) + 2
    /\ \E t \in Seq(Byte) :
          /\ Len(t) = 2 /\ Wrote(k, t)
          /\ Value(to, t[1], t[2]) = Value(from, file[Place(k) + 1], file[Place(k) + 2])
CutOff(k) ==
    /\ k < Len(Content) /\ Place(k) <= pos /\ pos = Len(file) /\ pos < Place(k + 1)
    /\ \E t \in Seq(Byte) : Len(t) <= 4 /\ Wrote(k, t)
\* A line end ends a conversion from UTF-16: there is none among what was read.
Unended(k) == from # "UTF8" => \A i \in 1..k : ~Stops(Content[i])
Progress(k) == Unended(k) /\ (Behind(k) \/ Within(k) \/ CutOff(k))

\* The runs of which something is claimed.
Clear == FirstRun /\ ~stray /\ (from # "UTF8" /\ to = "UTF8" => ~MisreadIn(user.text))
ProgressInv == Clear => \E k \in Places : Progress(k)

\* The next character of the file.
LEMMA NextCharacter ==
    ASSUME TypeOK, FileInv, FirstRun, NEW k \in Places, pos >= Place(k), pos < Len(file)
    PROVE  /\ k \in Nat /\ k < Len(Content) /\ k + 1 \in Places
           /\ \E s \in Seq(Byte) :
                 /\ Denotes(from, s, Content[k + 1])
                 /\ Place(k) \in Nat /\ Place(k + 1) = Place(k) + Len(s)
                 /\ \A i \in 1..Len(s) :
                       Place(k) + i <= Len(file) => file[Place(k) + i] = s[i]
<1> DEFINE C == Content
           N == Len(C)
           w == user.whole
           off == Offset(from, C)
<1>1. /\ w \in Seq(Byte) /\ Len(w) \in Nat /\ Len(file) <= Len(w) /\ Len(file) \in Nat
      /\ C \in Seq(CodePoint) /\ N \in Nat /\ Spells(from, w, C) /\ pos \in Nat
      /\ \A i \in 1..Len(file) : file[i] = w[i]
  BY FileIsThere, SMTT(20)
<1>2. /\ off \in [0..N -> Nat] /\ Len(w) = off[N]
  BY <1>1, OffsetSteps, Zenon DEF Spells
<1>3. Place(k) = off[k] /\ Place(k + 1) = off[k + 1] /\ k \in 0..N
  BY Zenon DEF Place, Places
<1> HIDE DEF w, C
<1>4. k \in Nat /\ k < N
  <2>1. k # N
    <3>1. off[k] \in Nat /\ off[k] < Len(file)
      BY <1>1, <1>2, <1>3, SMTT(20)
    <3> HIDE DEF off
    <3> QED
      BY <1>1, <1>2, <1>3, <3>1, SMTT(20)
  <2> HIDE DEF N
  <2> QED
    BY <1>1, <1>3, <2>1, SMTT(20)
<1>5. \E s \in Seq(Byte) :
         /\ Denotes(from, s, C[k + 1])
         /\ Offset(from, C)[k] \in Nat
         /\ Offset(from, C)[k + 1] = Offset(from, C)[k] + Len(s)
         /\ Offset(from, C)[k + 1] <= Len(w)
         /\ \A i \in 1..Len(s) : w[Offset(from, C)[k] + i] = s[i]
  <2>1. C \in Seq(CodePoint) /\ w \in Seq(Byte) /\ Spells(from, w, C) /\ k \in Nat /\ k < Len(C)
    BY <1>1, <1>4, Zenon
  <2> QED
    BY <2>1, CharacterBytes, SMTT(20)
<1>6. PICK s \in Seq(Byte) :
         /\ Denotes(from, s, C[k + 1])
         /\ off[k] \in Nat /\ off[k + 1] = off[k] + Len(s)
         /\ \A i \in 1..Len(s) : w[off[k] + i] = s[i]
  BY <1>5, Zenon
<1> HIDE DEF off, N
<1>7. \A i \in 1..Len(s) : off[k] + i <= Len(file) => file[off[k] + i] = s[i]
  <2> DEFINE p == off[k]
  <2>1. \A i \in 1..Len(s) : p + i <= Len(file) => p + i \in 1..Len(file)
    <3>1. p \in Nat /\ Len(file) \in Nat
      BY <1>1, <1>6, Zenon
    <3> HIDE DEF p
    <3> QED
      BY <3>1, SMTT(20)
  <2> QED
    BY <1>1, <1>6, <2>1, Zenon
<1>8. k + 1 \in 0..N
  BY <1>1, <1>4, SMTT(20)
<1> QED
  BY <1>3, <1>4, <1>6, <1>7, <1>8, Zenon DEF C, N, Places

\* What a turn does not touch.
LEMMA SameText ==
    ASSUME UNCHANGED <<user, from, to, file>>
    PROVE  /\ Content' = Content /\ Places' = Places
           /\ \A k : /\ Place(k)' = Place(k) /\ Rendering(Prefix(k))' = Rendering(Prefix(k))
                     /\ Unended(k)' <=> Unended(k)
BY Zenon DEF Content, Places, Place, Rendering, Prefix, Unended

\* Only what was the first run of a conversion still is.
LEMMA SameRun ==
    ASSUME UNCHANGED <<user, commands, inFile, from, to>>, pc = "convert", Clear',
           stray => stray'
    PROVE  Clear
BY Zenon DEF Clear, FirstRun, runs, MisreadIn

LEMMA StartsAtNothing ==
    ASSUME TypeOK, FileInv, FileInv', NEW enc \in Encodings, Start(enc), Clear'
    PROVE  (\E k \in Places : Progress(k))'
<1>1. /\ pos' = 0 /\ out' = (IF enc = to THEN <<>> ELSE Bom(to)) /\ from' = enc /\ to' = to
      /\ to \in Encodings /\ user' \in Files
  BY Zenon DEF Start, Opens, TypeOK, FileInv
<1>2. out' = Bom(to')
  BY <1>1, Zenon DEF Clear, FirstRun
<1>3. Content' \in Seq(CodePoint) /\ Len(Content') \in Nat
  <2>1. \A u \in Files : u.text \in Seq(CodePoint)
    BY FilesAssumption, Zenon
  <2>2. Content' = <<Mark>> \o user'.text
    BY Zenon DEF Content
  <2> DEFINE m == <<Mark>>
             c == user'.text
  <2>3. m \in Seq(CodePoint)
    <3>1. Mark \in CodePoint
      BY SMTT(20) DEF Mark, CodePoint
    <3> QED
      BY <3>1, SMTT(20)
  <2>4. c \in Seq(CodePoint)
    BY <1>1, <2>1, Zenon
  <2> HIDE DEF m, c
  <2>5. m \o c \in Seq(CodePoint) /\ Len(m \o c) \in Nat
    BY <2>3, <2>4, ConcatProperties, LenProperties, SMTT(20)
  <2> QED
    BY <2>2, <2>5, Zenon DEF m, c
<1>4. Place(0)' = 0
  <2> DEFINE C == Content'
  <2>1. C \in Seq(CodePoint)
    BY <1>3, Zenon
  <2> HIDE DEF C
  <2>2. Offset(from', C)[0] = 0
    BY <2>1, OffsetSteps, Zenon
  <2> QED
    BY <2>2, Zenon DEF Place, C
<1>5. Rendering(Prefix(0))' = <<Mark>>
  <2> DEFINE C == Content'
             e == <<>>
             m == <<Mark>>
  <2>1. SubSeq(C, 1, 0) = e
    BY <1>3, SMTT(20)
  <2>2. NoMarks(e) = e
    <3>1. e \in Seq(CodePoint) /\ Len(e) = 0
      OBVIOUS
    <3> HIDE DEF e
    <3>2. Kept(e)[0] = <<>>
      BY <3>1, KeptSteps, Zenon
    <3> QED
      BY <3>1, <3>2, Zenon DEF NoMarks, e
  <2>3. m \o e = m
    <3>1. m \in Seq({Mark})
      <4> DEFINE x == Mark
      <4> HIDE DEF x
      <4>1. <<x>> \in Seq({x})
        BY SMTT(20)
      <4> QED
        BY <4>1, Zenon DEF x
    <3> HIDE DEF m
    <3> QED
      BY <3>1, ConcatEmptySeq, SMTT(20)
  <2>4. Rendering(Prefix(0))' = m \o (IF from' = "UTF8" THEN SubSeq(C, 1, 0) ELSE NoMarks(SubSeq(C, 1, 0)))
    BY Zenon DEF Rendering, Prefix
  <2> HIDE DEF C, m, e
  <2> QED
    BY <2>1, <2>2, <2>3, <2>4, Zenon DEF m
<1>6. Spells(to', out', <<Mark>>)
  BY <1>1, <1>2, SpellsMark, Zenon
<1>7. 0 \in Places'
  <2>1. 0 \in 0..Len(Content')
    BY <1>3, SMTT(20)
  <2> QED
    BY <2>1, Zenon DEF Places
<1>8. Behind(0)'
  BY <1>1, <1>4, <1>5, <1>6, Zenon DEF Behind
<1>9. Unended(0)'
  <2>1. \A i : i \notin 1..0
    BY SMTT(20)
  <2> QED
    BY <2>1, Zenon DEF Unended
<1> QED
  BY <1>7, <1>8, <1>9, Zenon DEF Progress

LEMMA UnendedGrows ==
    ASSUME Content \in Seq(CodePoint), NEW k \in Places, Unended(k),
           from = "UTF8" \/ ~Stops(Content[k + 1])
    PROVE  Unended(k + 1)
<1>1. k \in Nat
  BY LenProperties, SMTT(20) DEF Places
<1>2. \A i \in 1..(k + 1) : i \in 1..k \/ i = k + 1
  BY <1>1, SMTT(20)
<1> QED
  BY <1>2, Zenon DEF Unended

LEMMA Advances ==
    ASSUME Content \in Seq(CodePoint), UNCHANGED <<user, from, to, file>>,
           NEW k \in Places, k < Len(Content), Unended(k), pos' = Place(k + 1),
           NEW w \in Seq(Byte), Spells(to, w, Rendering(Prefix(k))),
           NEW t \in Seq(Byte), Denotes(to, t, Content[k + 1]), out' = w \o t,
           from = "UTF8" \/ (Content[k + 1] # Mark /\ ~Stops(Content[k + 1]))
    PROVE  (\E j \in Places : Progress(j))'
<1>1. k + 1 \in Places /\ k \in 0..Len(Content) /\ k \in 0..(Len(Content) - 1)
  BY LenProperties, SMTT(20) DEF Places
<1>2. Prefix(k) \in Seq(CodePoint) /\ Prefix(k + 1) = Append(Prefix(k), Content[k + 1])
  BY <1>1, PrefixGrows, Zenon
<1> DEFINE x == Prefix(k)
           cp == Content[k + 1]
<1>3. /\ x \in Seq(CodePoint) /\ Spells(to, w, Rendering(x)) /\ Denotes(to, t, cp)
      /\ from = "UTF8" \/ cp # Mark
  BY <1>2, Zenon
<1> HIDE DEF x, cp
<1>4. Spells(to, w \o t, Rendering(Append(x, cp)))
  BY <1>3, CharacterWritten, SMTT(20)
<1>5. Spells(to, w \o t, Rendering(Prefix(k + 1)))
  BY <1>2, <1>4, Zenon DEF x, cp
<1>6. k + 1 \in Places' /\ Behind(k + 1)'
  BY <1>1, <1>5, SameText, Zenon DEF Behind
<1>7. Unended(k + 1)'
  BY UnendedGrows, SameText, Zenon
<1> QED
  BY <1>6, <1>7, Zenon DEF Progress

LEMMA Breaks ==
    ASSUME UNCHANGED <<user, from, to, file>>,
           NEW k \in Places, k < Len(Content), Unended(k),
           Place(k) <= pos', pos' = Len(file), pos' < Place(k + 1),
           NEW w \in Seq(Byte), Spells(to, w, Rendering(Prefix(k))),
           NEW t \in Seq(Byte), Len(t) <= 4, out' = w \o t
    PROVE  (\E j \in Places : Progress(j))'
<1>1. Wrote(k, t)'
  BY SameText, Zenon DEF Wrote
<1>2. k \in Places' /\ Unended(k)' /\ CutOff(k)'
  BY <1>1, SameText, Zenon DEF CutOff
<1> QED
  BY <1>2, Zenon DEF Progress

LEMMA EncodedLengths ==
    ASSUME NEW cp \in Nat
    PROVE  /\ Len(EncodeUtf8(cp)) <= 4
           /\ \A enc : Len(EncodeUtf16(enc, cp)) <= 4
<1>1. Len(EncodeUtf8(cp)) <= 4
  BY SMTT(20) DEF EncodeUtf8
<1>2. \A enc, u : u \in Nat => Unit(enc, u) \in Seq(Byte) /\ Len(Unit(enc, u)) = 2
  <2> SUFFICES ASSUME NEW enc, NEW u \in Nat PROVE Unit(enc, u) \in Seq(Byte) /\ Len(Unit(enc, u)) = 2
    BY Zenon
  <2>1. Unit(enc, u) \in Seq(Byte)
    BY UnitType, Zenon
  <2>2. Len(Unit(enc, u)) = 2
    BY SMTT(20) DEF Unit, LowFirst, HighFirst
  <2> QED
    BY <2>1, <2>2, Zenon
<1>3. ASSUME NEW enc PROVE Len(EncodeUtf16(enc, cp)) <= 4
  <2>1. CASE ~NeedsPair(cp)
    <3>1. EncodeUtf16(enc, cp) = Unit(enc, cp)
      BY <2>1, SMTT(20) DEF EncodeUtf16
    <3>2. Len(EncodeUtf16(enc, cp)) = 2
      BY <1>2, <3>1, Zenon
    <3> QED
      BY <3>2, SMTT(20)
  <2>2. CASE NeedsPair(cp)
    <3> DEFINE high == ((cp - 65536) \div 1024) + 55296
               low == ((cp - 65536) % 1024) + 56320
    <3>1. high \in Nat /\ low \in Nat
      BY <2>2, SMTT(20) DEF NeedsPair
    <3>2. EncodeUtf16(enc, cp) = Unit(enc, high) \o Unit(enc, low)
      BY <2>2, SMTT(20) DEF EncodeUtf16
    <3> HIDE DEF high, low
    <3>3. Len(Unit(enc, high) \o Unit(enc, low)) = 4
      BY <1>2, <3>1, TwoUnits, SMTT(20)
    <3> QED
      BY <3>2, <3>3, SMTT(20)
  <2> QED
    BY <2>1, <2>2, Zenon
<1> QED
  BY <1>1, <1>3, Zenon

\* A turn at a character that is cut off comes to the end of the file, as its first
\* byte still tells how many there should be.
LEMMA FromUtf8Cut ==
    ASSUME TypeOK, FromUtf8,
           NEW cp \in Scalar, NEW s \in Seq(Byte), DenotesUtf8(s, cp),
           pos + Len(s) > Len(file),
           \A i \in 1..Len(s) : pos + i <= Len(file) => file[pos + i] = s[i]
    PROVE  /\ pos' = Len(file)
           /\ \E t \in Seq(Byte) : Len(t) <= 4 /\ out' = out \o t
<1> DEFINE first == Filled(buf, 0, pos, 1)
           more == Remaining(first[1])
           glyph == Filled(first, 1, pos + 1, more)
<1>1. /\ out' = out \o EncodeUtf16(to, DecodeUtf8(more + 1, glyph))
      /\ pos' = After(pos + 1, more)
      /\ pos < Len(file)
  BY Zenon DEF FromUtf8, Reads
<1>2. /\ file \in Seq(Byte) /\ pos \in Nat /\ buf \in [1..4 -> Byte] /\ Len(file) \in Nat
      /\ Len(s) \in 1..4
  <2>1. Len(s) \in 1..4
    BY SMTT(20) DEF DenotesUtf8
  <2> QED
    BY <2>1, LenProperties, Zenon DEF TypeOK
<1>3. first \in [1..4 -> Byte] /\ first[1] = s[1]
  <2>1. 0 \in 0..3 /\ 1 \in 0..3 /\ pos + 1 <= Len(file) /\ 0 + 1 <= 4 /\ 0 + 1 = 1
        /\ 1 \in 1..1 /\ 1 \in 1..Len(s)
    BY <1>1, <1>2, SMTT(20)
  <2>2. first \in [1..4 -> Byte] /\ \A i \in 1..1 : first[0 + i] = file[pos + i]
    BY <1>2, <2>1, FilledWhole, Zenon
  <2> HIDE DEF first
  <2>3. first[1] = file[pos + 1]
    BY <2>1, <2>2, SMTT(20)
  <2> QED
    BY <2>1, <2>2, <2>3, Zenon
<1>4. more = Len(s) - 1
  <2> DEFINE c == [i \in 1..4 |-> IF i <= Len(s) THEN s[i] ELSE 0]
  <2>1. c \in [1..4 -> Byte] /\ \A i \in 1..Len(s) : c[i] = s[i]
    <3>1. 0 \in Byte
      BY SMTT(20) DEF Byte
    <3>2. \A i \in 1..Len(s) : s[i] \in Byte
      BY ElementOfSeq, Zenon
    <3>3. \A i \in 1..4 : (IF i <= Len(s) THEN s[i] ELSE 0) \in Byte
      BY <1>2, <3>1, <3>2, SMTT(20)
    <3>4. \A i \in 1..Len(s) : i \in 1..4 /\ i <= Len(s)
      <4>1. \A m \in 1..4 : \A i \in 1..m : i \in 1..4 /\ i <= m
        BY SMTT(20)
      <4> QED
        BY <1>2, <4>1, Zenon
    <3> QED
      BY <3>3, <3>4, Zenon
  <2> HIDE DEF c
  <2>2. Remaining(c[1]) = Len(s) - 1
    BY <2>1, DecodesUtf8, SMTT(40)
  <2> QED
    BY <1>2, <1>3, <2>1, <2>2, SMTT(20)
<1> HIDE DEF first, more
<1>5. pos' = Len(file)
  BY <1>1, <1>2, <1>4, SMTT(20) DEF After
<1>6. glyph \in Buffer /\ more + 1 \in Nat
  <2>1. more \in Nat /\ more + 1 \in Nat /\ 1 \in Nat /\ pos + 1 \in Nat
    BY <1>2, <1>4, SMTT(20)
  <2> QED
    BY <1>2, <1>3, <2>1, FilledType, Zenon DEF Buffer
<1> DEFINE n == DecodeUtf8(more + 1, glyph)
           t == EncodeUtf16(to, n)
<1>7. n \in Nat
  BY <1>6, DecodeType, Zenon
<1> HIDE DEF n, glyph
<1>8. t \in Seq(Byte) /\ Len(t) <= 4
  BY <1>7, EncodeUtf16Type, EncodedLengths, Zenon
<1> QED
  BY <1>1, <1>5, <1>8, Zenon DEF n

LEMMA FromUtf8Progress ==
    ASSUME TypeOK, FileInv, Clear, FromUtf8, NEW k \in Places, Progress(k)
    PROVE  (\E j \in Places : Progress(j))'
<1>1. /\ from = "UTF8" /\ to # "UTF8" /\ pos < Len(file) /\ FirstRun
      /\ UNCHANGED <<user, from, to, file>>
  BY Zenon DEF FromUtf8, Reads, Clear
<1>2. /\ Content \in Seq(CodePoint) /\ out \in Seq(Byte) /\ pos \in Nat /\ Len(file) \in Nat
  BY <1>1, FileIsThere, LenProperties, Zenon DEF TypeOK
<1>3. Unended(k) /\ Behind(k)
  <2>1. ~CutOff(k)
    <3>1. \A n \in Nat : ~(n < n)
      BY SMTT(20)
    <3> QED
      BY <1>1, <1>2, <3>1, Zenon DEF CutOff
  <2> QED
    BY <1>1, <2>1, Zenon DEF Progress, Within
<1>4. pos = Place(k) /\ Spells(to, out, Rendering(Prefix(k))) /\ pos >= Place(k)
  <2>1. \A n \in Nat : n >= n
    BY SMTT(20)
  <2> QED
    BY <1>2, <1>3, <2>1, Zenon DEF Behind
<1>5. k \in Nat /\ k < Len(Content)
  BY <1>1, <1>4, NextCharacter, Zenon
<1> DEFINE cp == Content[k + 1]
<1>6. PICK s \in Seq(Byte) :
         /\ Denotes(from, s, cp) /\ Place(k + 1) = pos + Len(s)
         /\ \A i \in 1..Len(s) : pos + i <= Len(file) => file[pos + i] = s[i]
  BY <1>1, <1>4, NextCharacter, Zenon
<1>7. DenotesUtf8(s, cp) /\ cp \in Scalar /\ Len(s) \in Nat
  BY <1>1, <1>6, WidthIsLength, LenProperties, Zenon DEF Denotes
<1>8. CASE pos + Len(s) <= Len(file)
  <2>1. \A i \in 1..Len(s) : pos + i <= Len(file)
    BY <1>2, <1>7, <1>8, SMTT(20)
  <2>2. \A i \in 1..Len(s) : file[pos + i] = s[i]
    BY <1>6, <2>1, Zenon
  <2>3. PICK t \in Seq(Byte) : out' = out \o t /\ DenotesUtf16(to, t, cp)
    BY <1>7, <1>8, <2>2, FromUtf8Turn, Zenon
  <2>4. pos' = Place(k + 1)
    BY <1>6, <1>7, <1>8, <2>2, FromUtf8Turn, Zenon
  <2>5. Denotes(to, t, Content[k + 1])
    BY <1>1, <2>3, Zenon DEF Denotes
  <2> QED
    BY <1>1, <1>2, <1>3, <1>4, <1>5, <2>3, <2>4, <2>5, Advances, Zenon
<1>9. CASE ~(pos + Len(s) <= Len(file))
  <2>1. pos + Len(s) > Len(file) /\ pos <= Len(file)
    BY <1>1, <1>2, <1>7, <1>9, SMTT(20)
  <2>2. pos' = Len(file) /\ \E t \in Seq(Byte) : Len(t) <= 4 /\ out' = out \o t
    BY <1>6, <1>7, <2>1, FromUtf8Cut, Zenon
  <2>3. Place(k) <= pos' /\ pos' < Place(k + 1)
    BY <1>2, <1>4, <1>6, <1>7, <2>1, <2>2, SMTT(20)
  <2> QED
    BY <1>1, <1>2, <1>3, <1>4, <1>5, <2>2, <2>3, Breaks, Zenon
<1> QED
  BY <1>8, <1>9, Zenon

\* A unit that is a mark or a line end is one whichever way round its bytes are.
LEMMA UnitKinds ==
    ASSUME NEW x \in Byte, NEW y \in Byte, NEW enc \in {"UTF16LE", "UTF16BE"}
    PROVE  /\ x + 256 * y = ReversedBom(enc) <=> Value(enc, x, y) = Mark
           /\ Stops(x + 256 * y) <=> Stops(Value(enc, x, y))
<1>1. CASE enc = "UTF16LE"
  BY <1>1, SMTT(20) DEF Value, Mark, Stops, ReversedBom, Byte
<1>2. CASE enc = "UTF16BE"
  BY <1>2, SMTT(20) DEF Value, Mark, Stops, ReversedBom, Byte
<1> QED
  BY <1>1, <1>2, Zenon

\* What a read of two bytes puts into upper_bytes.
Raw == Filled(buf, 0, pos, 2)

LEMMA UnitRead ==
    ASSUME file \in Seq(Byte), buf \in [1..4 -> Byte], pos \in Nat, pos + 2 <= Len(file)
    PROVE  /\ Raw \in [1..4 -> Byte] /\ Raw[1] = file[pos + 1] /\ Raw[2] = file[pos + 2]
           /\ file[pos + 1] \in Byte /\ file[pos + 2] \in Byte
<1> DEFINE b == buf
           p == pos
<1>1. /\ p \in Nat /\ b \in [1..4 -> Byte] /\ 0 \in 0..3 /\ 2 \in 0..3 /\ p + 2 <= Len(file)
      /\ 0 + 2 <= 4 /\ 0 + 1 = 1 /\ 0 + 2 = 2 /\ 1 \in 1..2 /\ 2 \in 1..2
  BY SMTT(20)
<1> HIDE DEF b, p
<1>2. Filled(b, 0, p, 2) \in [1..4 -> Byte] /\ \A i \in 1..2 : Filled(b, 0, p, 2)[0 + i] = file[p + i]
  BY <1>1, FilledWhole, ZenonT(40)
<1>3. p + 1 \in 1..Len(file) /\ p + 2 \in 1..Len(file)
  BY <1>1, LenProperties, SMTT(20)
<1>4. file[p + 1] \in Byte /\ file[p + 2] \in Byte
  BY <1>3, ElementOfSeq, Zenon
<1>5. Filled(b, 0, p, 2)[1] = file[p + 1] /\ Filled(b, 0, p, 2)[2] = file[p + 2]
  BY <1>1, <1>2, Zenon
<1> QED
  BY <1>2, <1>4, <1>5, Zenon DEF Raw, b, p

\* The first unit of a character.
LEMMA FirstUnit ==
    ASSUME NEW enc \in {"UTF16LE", "UTF16BE"}, NEW s \in Seq(Byte), NEW cp, DenotesUtf16(enc, s, cp)
    PROVE  /\ Len(s) \in {2, 4} /\ s[1] \in Byte /\ s[2] \in Byte
           /\ Len(s) = 2 => Value(enc, s[1], s[2]) = cp /\ ~NeedsPair(cp)
           /\ Len(s) = 4 => /\ Value(enc, s[1], s[2]) \in HighSurrogate
                            /\ Value(enc, s[1], s[2]) # Mark /\ ~Stops(Value(enc, s[1], s[2]))
                            /\ ~Misread(cp) => IsUpperSurrogate(Value(enc, s[1], s[2]))
                            /\ NeedsPair(cp) /\ cp # Mark /\ ~Stops(cp)
<1> DEFINE a == s[1]
           b == s[2]
           high == Value(enc, a, b)
           low == Value(enc, s[3], s[4])
<1>1. Len(s) \in {2, 4}
  BY SMTT(20) DEF DenotesUtf16
<1>2. a \in Byte /\ b \in Byte
  BY <1>1, ElementOfSeq, SMTT(20)
<1>3. ASSUME Len(s) = 2 PROVE high = cp /\ ~NeedsPair(cp)
  <2>1. high = cp
    BY <1>3, SMTT(20) DEF DenotesUtf16
  <2> HIDE DEF a, b
  <2>2. high < 65536
    BY <1>2, SMTT(20) DEF Byte, Value
  <2> HIDE DEF high
  <2>3. high \in Int
    BY <1>2, SMTT(20) DEF Byte, Value, high
  <2> QED
    BY <2>1, <2>2, <2>3, SMTT(20) DEF NeedsPair
<1>4. ASSUME Len(s) = 4
      PROVE  /\ high \in HighSurrogate /\ high # Mark /\ ~Stops(high)
             /\ ~Misread(cp) => IsUpperSurrogate(high)
             /\ NeedsPair(cp) /\ cp # Mark /\ ~Stops(cp)
  <2>1. /\ high \in HighSurrogate /\ low \in LowSurrogate
        /\ cp = 65536 + (high - 55296) * 1024 + (low - 56320)
    BY <1>4, SMTT(20) DEF DenotesUtf16
  <2> HIDE DEF high, low
  <2>2. /\ high \in Int /\ 55296 <= high /\ high <= 56319
        /\ low \in Int /\ 56320 <= low /\ low <= 57343
    BY <2>1, Surrogates, SMTT(20)
  <2>3. ~Misread(cp) => IsUpperSurrogate(high)
    BY <2>1, <2>2, SMTT(20) DEF Misread, IsUpperSurrogate
  <2>4. high # Mark /\ ~Stops(high) /\ NeedsPair(cp) /\ cp # Mark /\ ~Stops(cp)
    BY <2>1, <2>2, SMTT(20) DEF Mark, Stops, NeedsPair
  <2> QED
    BY <2>1, <2>3, <2>4, SMTT(20)
<1> QED
  BY <1>1, <1>2, <1>3, <1>4, Zenon

\* A mark within a text is passed over.
LEMMA SkipsMark ==
    ASSUME Content \in Seq(CodePoint), UNCHANGED <<user, from, to, file>>, from # "UTF8",
           NEW k \in Places, k < Len(Content), Unended(k), Content[k + 1] = Mark,
           pos' = Place(k + 1), out' = out, Spells(to, out, Rendering(Prefix(k)))
    PROVE  (\E j \in Places : Progress(j))'
<1>1. k + 1 \in Places /\ k \in 0..Len(Content) /\ k \in 0..(Len(Content) - 1)
  BY LenProperties, SMTT(20) DEF Places
<1>2. /\ Prefix(k) \in Seq(CodePoint) /\ Prefix(k + 1) = Append(Prefix(k), Content[k + 1])
      /\ Content[k + 1] \in CodePoint
  BY <1>1, PrefixGrows, Zenon
<1>3. Rendering(Append(Prefix(k), Mark)) = Rendering(Prefix(k))
  BY <1>2, RenderingGrows, Zenon DEF Keeping
<1>4. Spells(to, out, Rendering(Prefix(k + 1)))
  BY <1>2, <1>3, Zenon
<1>5. k + 1 \in Places' /\ Behind(k + 1)'
  BY <1>1, <1>4, SameText, Zenon DEF Behind
<1>6. ~Stops(Mark)
  BY SMTT(20) DEF Stops, Mark
<1>7. Unended(k + 1)'
  BY <1>6, UnendedGrows, SameText, Zenon
<1> QED
  BY <1>5, <1>7, Zenon DEF Progress

\* What a turn to UTF-8 may do.
LEMMA ToUtf8Turns ==
    ASSUME TypeOK, ToUtf8
    PROVE  /\ from \in {"UTF16LE", "UTF16BE"} /\ from # "UTF8" /\ to = "UTF8" /\ pos < Len(file)
           /\ UNCHANGED <<user, from, to, file>>
           /\ Raw \in Buffer /\ InOrder(Raw, 1) \in Buffer
           /\ \/ /\ Upper(Raw) = ReversedBom(from) /\ pos' = After(pos, 2) /\ out' = out
              \/ /\ Upper(Raw) # ReversedBom(from) /\ Stops(Upper(Raw)) /\ pc' = "idle"
              \/ /\ Upper(Raw) # ReversedBom(from) /\ ~Stops(Upper(Raw))
                 /\ pos' = After(pos, IF IsUpperSurrogate(Upper(InOrder(Raw, 1))) THEN 4 ELSE 2)
                 /\ \E t \in Seq(Byte) : Len(t) <= 4 /\ out' = out \o t
<1>1. /\ file \in Seq(Byte) /\ pos \in Nat /\ buf \in Buffer
  BY Zenon DEF TypeOK, Buffer
<1>2. Raw \in Buffer
  BY <1>1, FilledType, SMTT(20) DEF Raw
<1>3. InOrder(Raw, 1) \in Buffer
  BY <1>2, ReversedType, SMTT(20) DEF InOrder
<1>4. from \in {"UTF16LE", "UTF16BE"} /\ from # "UTF8"
  BY SMTT(20) DEF ToUtf8, Reads, TypeOK, Encodings
<1> DEFINE one == InOrder(Raw, 1)
           two == InOrder(Filled(one, 2, pos + 2, 2), 3)
<1>5. two \in Buffer
  <2>1. pos + 2 \in Nat
    BY <1>1, SMTT(20)
  <2>2. Filled(one, 2, pos + 2, 2) \in Buffer
    BY <1>1, <1>3, <2>1, FilledType, SMTT(20)
  <2> QED
    BY <2>2, ReversedType, SMTT(20) DEF InOrder
<1>6. /\ to = "UTF8" /\ pos < Len(file) /\ UNCHANGED <<user, from, to, file>>
      /\ \/ /\ Upper(Raw) = ReversedBom(from) /\ pos' = After(pos, 2) /\ out' = out
         \/ /\ Upper(Raw) # ReversedBom(from) /\ Stops(Upper(Raw)) /\ pc' = "idle"
         \/ /\ Upper(Raw) # ReversedBom(from) /\ ~Stops(Upper(Raw))
            /\ buf' = IF IsUpperSurrogate(Upper(one)) THEN two ELSE one
            /\ pos' = After(pos, IF IsUpperSurrogate(Upper(one)) THEN 4 ELSE 2)
            /\ out' = out \o EncodeUtf8(DecodeUtf16(buf'))
  BY Zenon DEF ToUtf8, Reads, Done, Raw
<1>7. ASSUME NEW b \in Buffer
      PROVE  EncodeUtf8(DecodeUtf16(b)) \in Seq(Byte) /\ Len(EncodeUtf8(DecodeUtf16(b))) <= 4
  BY DecodeType, EncodeUtf8Type, EncodedLengths, Zenon
<1> HIDE DEF two
<1> QED
  BY <1>2, <1>3, <1>4, <1>5, <1>6, <1>7, Zenon

\* The code points of the text itself are behind the mark.
LEMMA NotMisread ==
    ASSUME user \in Files, ~MisreadIn(user.text), NEW k \in Nat, k < Len(Content),
           Content[k + 1] # Mark
    PROVE  ~Misread(Content[k + 1])
<1> DEFINE t == user.text
<1>1. /\ t \in Seq(CodePoint) /\ Len(Content) = Len(t) + 1 /\ Content[1] = Mark
      /\ \A i \in 1..Len(t) : Content[i + 1] = t[i]
  BY ContentType, Zenon
<1>2. Len(t) \in Nat /\ DOMAIN t = 1..Len(t)
  BY <1>1, LenProperties, Zenon
<1>3. k # 0
  <2>1. 0 + 1 = 1
    OBVIOUS
  <2> QED
    BY <1>1, <2>1, Zenon
<1> HIDE DEF t
<1>4. k \in 1..Len(t)
  BY <1>1, <1>2, <1>3, SMTT(20)
<1>5. Content[k + 1] = t[k] /\ k \in DOMAIN t
  BY <1>1, <1>2, <1>4, Zenon
<1> QED
  BY <1>5, Zenon DEF MisreadIn, t

LEMMA AfterAtEnd ==
    ASSUME NEW n \in {2, 4}, pos \in Nat, Len(file) \in Nat, pos + n >= Len(file)
    PROVE  After(pos, n) = Len(file)
BY SMTT(20) DEF After

LEMMA ToUtf8Progress ==
    ASSUME TypeOK, FileInv, Clear, ToUtf8, pc' = "convert", NEW k \in Places, Progress(k)
    PROVE  (\E j \in Places : Progress(j))'
<1>1. /\ from \in {"UTF16LE", "UTF16BE"} /\ from # "UTF8" /\ to = "UTF8" /\ pos < Len(file)
      /\ FirstRun /\ UNCHANGED <<user, from, to, file>> /\ ~MisreadIn(user.text)
  BY ToUtf8Turns, Zenon DEF Clear
<1>2. /\ Content \in Seq(CodePoint) /\ out \in Seq(Byte) /\ pos \in Nat /\ Len(file) \in Nat
      /\ file \in Seq(Byte) /\ buf \in [1..4 -> Byte] /\ user \in Files
  BY <1>1, FileIsThere, LenProperties, Zenon DEF TypeOK
<1>3. Unended(k) /\ Behind(k)
  <2>1. ~CutOff(k)
    <3>1. \A n \in Nat : ~(n < n)
      BY SMTT(20)
    <3> QED
      BY <1>1, <1>2, <3>1, Zenon DEF CutOff
  <2> QED
    BY <1>1, <2>1, Zenon DEF Progress, Within
<1>4. pos = Place(k) /\ Spells(to, out, Rendering(Prefix(k))) /\ pos >= Place(k)
  <2>1. \A n \in Nat : n >= n
    BY SMTT(20)
  <2> QED
    BY <1>2, <1>3, <2>1, Zenon DEF Behind
<1>5. k \in Nat /\ k < Len(Content)
  BY <1>1, <1>4, NextCharacter, Zenon
<1> DEFINE cp == Content[k + 1]
<1>6. PICK s \in Seq(Byte) :
         /\ Denotes(from, s, cp) /\ Place(k + 1) = pos + Len(s)
         /\ \A i \in 1..Len(s) : pos + i <= Len(file) => file[pos + i] = s[i]
  BY <1>1, <1>4, NextCharacter, Zenon
<1>7. DenotesUtf16(from, s, cp) /\ cp \in Scalar /\ Len(s) \in Nat
  BY <1>1, <1>6, WidthIsLength, LenProperties, Zenon DEF Denotes
<1> DEFINE unit == Value(from, s[1], s[2])
<1>8. /\ Len(s) \in {2, 4} /\ s[1] \in Byte /\ s[2] \in Byte
      /\ Len(s) = 2 => unit = cp
      /\ Len(s) = 4 => /\ unit # Mark /\ ~Stops(unit) /\ cp # Mark /\ ~Stops(cp)
                       /\ ~Misread(cp) => IsUpperSurrogate(unit)
  BY <1>1, <1>7, FirstUnit, Zenon
<1> HIDE DEF cp, unit
<1>9. ASSUME pos + 2 <= Len(file)
      PROVE  /\ Upper(Raw) = ReversedBom(from) <=> unit = Mark
             /\ Stops(Upper(Raw)) <=> Stops(unit)
             /\ Upper(InOrder(Raw, 1)) = unit
  <2>1. Raw \in [1..4 -> Byte] /\ Raw[1] = file[pos + 1] /\ Raw[2] = file[pos + 2]
    BY <1>2, <1>9, UnitRead, Zenon
  <2>2. file[pos + 1] = s[1] /\ file[pos + 2] = s[2]
    <3>1. 1 \in 1..Len(s) /\ 2 \in 1..Len(s) /\ pos + 1 <= Len(file)
      BY <1>2, <1>8, <1>9, SMTT(20)
    <3> QED
      BY <1>6, <1>9, <3>1, Zenon
  <2>3. Upper(Raw) = s[1] + 256 * s[2]
    BY <2>1, <2>2, Zenon DEF Upper
  <2>4. Upper(InOrder(Raw, 1)) = unit
    <3>1. Upper(InOrder(Raw, 1)) = Value(from, Raw[1], Raw[2])
      BY <1>1, <2>1, InOrderValue, Zenon
    <3> QED
      BY <2>1, <2>2, <3>1, Zenon DEF unit
  <2> QED
    BY <1>1, <1>8, <2>3, <2>4, UnitKinds, SMTT(20) DEF unit
<1>10. CASE pos + Len(s) <= Len(file)
  <2>1. pos + 2 <= Len(file) /\ \A i \in 1..Len(s) : pos + i <= Len(file)
    BY <1>2, <1>8, <1>10, SMTT(20)
  <2>2. \A i \in 1..Len(s) : file[pos + i] = s[i]
    BY <1>6, <2>1, Zenon
  <2>3. CASE cp = Mark
    <3>1. Len(s) = 2 /\ unit = Mark
      BY <1>8, <2>3, Zenon
    <3>2. pos' = After(pos, 2) /\ out' = out
      BY <1>9, <2>1, <3>1, ToUtf8Turns, Zenon
    <3>3. pos' = Place(k + 1)
      BY <1>2, <1>6, <2>1, <3>1, <3>2, SMTT(20) DEF After
    <3> QED
      BY <1>1, <1>2, <1>3, <1>4, <1>5, <2>3, <3>2, <3>3, SkipsMark, Zenon DEF cp
  <2>4. CASE cp # Mark
    <3>1. ~Stops(cp)
      <4>1. Stops(cp) => unit = cp
        BY <1>8, Zenon
      <4>2. "convert" # "idle"
        OBVIOUS
      <4> QED
        BY <1>9, <2>1, <2>4, <4>1, <4>2, ToUtf8Turns, Zenon
    <3>2. ~Misread(cp)
      BY <1>1, <1>2, <1>5, <2>4, NotMisread, Zenon DEF cp
    <3>3. pos' = pos + Len(s) /\ \E t \in Seq(Byte) : out' = out \o t /\ DenotesUtf8(t, cp)
      BY <1>1, <1>7, <1>10, <2>2, <2>4, <3>1, <3>2, ToUtf8Turn, Zenon
    <3>4. PICK t \in Seq(Byte) : out' = out \o t /\ Denotes(to, t, cp)
      BY <1>1, <3>3, Zenon DEF Denotes
    <3>5. pos' = Place(k + 1)
      BY <1>6, <3>3, Zenon
    <3> QED
      BY <1>1, <1>2, <1>3, <1>4, <1>5, <2>4, <3>1, <3>4, <3>5, Advances, Zenon DEF cp
  <2> QED
    BY <2>3, <2>4, Zenon
<1>11. CASE ~(pos + Len(s) <= Len(file))
  <2>1. pos + Len(s) > Len(file) /\ pos <= Len(file) /\ pos + 4 >= Len(file)
    <3>1. pos < Len(file) /\ pos \in Nat /\ Len(file) \in Nat /\ Len(s) \in {2, 4}
      BY <1>1, <1>2, <1>8, Zenon
    <3>2. \A p, f \in Nat : \A n \in {2, 4} :
             p < f /\ ~(p + n <= f) => p + n > f /\ p <= f /\ p + 4 >= f
      BY SMTT(20)
    <3> QED
      BY <1>11, <3>1, <3>2, Zenon
  <2>2. After(pos, 4) = Len(file) /\ (pos + 2 >= Len(file) => After(pos, 2) = Len(file))
    BY <1>2, <2>1, AfterAtEnd, SMTT(20)
  <2>3. pos' = Len(file) /\ \E t \in Seq(Byte) : Len(t) <= 4 /\ out' = out \o t
    <3>0. /\ <<>> \in Seq(Byte) /\ Len(<<>>) <= 4 /\ out \o <<>> = out
      BY <1>2, SMTT(20)
    <3>s. "convert" # "idle"
      OBVIOUS
    <3>1. CASE pos + 2 >= Len(file)
      BY <2>2, <3>0, <3>1, <3>s, ToUtf8Turns, Zenon
    <3>2. CASE ~(pos + 2 >= Len(file))
      <4>1. pos + 2 <= Len(file) /\ Len(s) = 4
        BY <1>2, <1>8, <2>1, <3>2, SMTT(20)
      <4>2. ~Misread(cp)
        BY <1>1, <1>2, <1>5, <1>8, <4>1, NotMisread, Zenon DEF cp
      <4>3. Upper(Raw) # ReversedBom(from) /\ ~Stops(Upper(Raw))
            /\ IsUpperSurrogate(Upper(InOrder(Raw, 1)))
        BY <1>8, <1>9, <4>1, <4>2, Zenon
      <4> QED
        BY <2>2, <4>3, ToUtf8Turns, Zenon
    <3> QED
      BY <3>1, <3>2, Zenon
  <2>4. Place(k) <= pos' /\ pos' < Place(k + 1)
    BY <1>2, <1>4, <1>6, <1>7, <2>1, <2>3, SMTT(20)
  <2> QED
    BY <1>1, <1>2, <1>3, <1>4, <1>5, <2>3, <2>4, Breaks, Zenon
<1> QED
  BY <1>10, <1>11, Zenon

\* What a turn between the forms of UTF-16 may do.
LEMMA SwapTurns ==
    ASSUME TypeOK, SwapUnits, ~stray', pc' = "convert"
    PROVE  /\ from # "UTF8" /\ to # "UTF8" /\ pos < Len(file)
           /\ (from = "UTF16LE" /\ to = "UTF16BE") \/ (from = "UTF16BE" /\ to = "UTF16LE")
           /\ UNCHANGED <<user, from, to, file>>
           /\ Raw \in [1..4 -> Byte]
           /\ pos' = After(pos, 2)
           /\ \/ Raw[2] + 256 * Raw[1] = ReversedBom(to) /\ out' = out
              \/ /\ Raw[2] + 256 * Raw[1] # ReversedBom(to) /\ ~Stops(Raw[2] + 256 * Raw[1])
                 /\ \E t \in Seq(Byte) : /\ Len(t) = 2 /\ t[1] = Raw[2] /\ t[2] = Raw[1]
                                         /\ out' = out \o t
<1>1. /\ file \in Seq(Byte) /\ pos \in Nat /\ buf \in Buffer
  BY Zenon DEF TypeOK, Buffer
<1>2. Raw \in Buffer
  BY <1>1, FilledType, SMTT(20) DEF Raw
<1> DEFINE one == Reversed(Raw, 1)
           t == SubSeq(one, 1, 2)
<1>3. /\ {from, to} = {"UTF16LE", "UTF16BE"} /\ pos < Len(file)
      /\ UNCHANGED <<user, from, to, file>> /\ pos' = After(pos, 2)
      /\ \/ Upper(one) = ReversedBom(to) /\ out' = out
         \/ /\ Upper(one) # ReversedBom(to) /\ ~Stops(Upper(one))
            /\ out' = out \o t
  <2>1. "convert" # "idle"
    OBVIOUS
  <2> QED
    BY <2>1, Zenon DEF SwapUnits, Reads, Done, Raw
<1>4. (from = "UTF16LE" /\ to = "UTF16BE") \/ (from = "UTF16BE" /\ to = "UTF16LE")
  BY <1>3, SMTT(20)
<1>5. one \in Buffer /\ one[1] = Raw[2] /\ one[2] = Raw[1]
  BY <1>2, SMTT(20) DEF Reversed, Buffer
<1>6. t \in Seq(Byte) /\ Len(t) = 2 /\ t[1] = one[1] /\ t[2] = one[2]
  <2>1. one \in Seq(Byte) /\ t \in Seq(Byte)
    BY <1>5, FirstTwo, Zenon
  <2> HIDE DEF one
  <2>2. Len(one) = 4
    BY <1>5, <2>1, SMTT(20) DEF Buffer
  <2> QED
    BY <2>1, <2>2, SMTT(20)
<1>7. Upper(one) = Raw[2] + 256 * Raw[1]
  BY <1>5, SMTT(20) DEF Upper
<1> HIDE DEF one, t
<1>8. \/ Raw[2] + 256 * Raw[1] = ReversedBom(to) /\ out' = out
      \/ /\ Raw[2] + 256 * Raw[1] # ReversedBom(to) /\ ~Stops(Raw[2] + 256 * Raw[1])
         /\ \E x \in Seq(Byte) : Len(x) = 2 /\ x[1] = Raw[2] /\ x[2] = Raw[1] /\ out' = out \o x
  BY <1>3, <1>5, <1>6, <1>7, Zenon
<1>9. from # "UTF8" /\ to # "UTF8"
  BY <1>4, SMTT(20)
<1> QED
  BY <1>2, <1>3, <1>4, <1>8, <1>9, Zenon DEF Buffer

\* The bytes of a unit in the other order are the same unit in the other form.
LEMMA SwappedValue ==
    ASSUME NEW x \in Byte, NEW y \in Byte,
           (from = "UTF16LE" /\ to = "UTF16BE") \/ (from = "UTF16BE" /\ to = "UTF16LE")
    PROVE  Value(to, y, x) = Value(from, x, y)
<1>1. x \in Int /\ y \in Int
  BY SMTT(20) DEF Byte
<1> QED
  BY <1>1, SMTT(20) DEF Value

\* A turn that finds a whole unit.
LEMMA SwapsUnit ==
    ASSUME TypeOK, SwapUnits, ~stray', pc' = "convert", pos + 2 <= Len(file)
    PROVE  LET unit == Value(from, file[pos + 1], file[pos + 2])
           IN  /\ pos' = pos + 2
               /\ \/ unit = Mark /\ out' = out
                  \/ /\ unit # Mark /\ ~Stops(unit)
                     /\ \E t \in Seq(Byte) : Len(t) = 2 /\ Value(to, t[1], t[2]) = unit /\ out' = out \o t
<1> DEFINE unit == Value(from, file[pos + 1], file[pos + 2])
           x == Raw[2]
           y == Raw[1]
<1>1. /\ file \in Seq(Byte) /\ pos \in Nat /\ buf \in [1..4 -> Byte] /\ Len(file) \in Nat
  BY LenProperties, Zenon DEF TypeOK
<1>2. Raw[1] = file[pos + 1] /\ Raw[2] = file[pos + 2] /\ x \in Byte /\ y \in Byte
  BY <1>1, UnitRead, Zenon
<1>3. (from = "UTF16LE" /\ to = "UTF16BE") \/ (from = "UTF16BE" /\ to = "UTF16LE")
  BY SwapTurns, Zenon
<1>4. to \in {"UTF16LE", "UTF16BE"}
  BY <1>3, SMTT(20)
<1>5. pos' = pos + 2
  <2>1. pos' = After(pos, 2)
    BY SwapTurns, Zenon
  <2> QED
    BY <1>1, <2>1, SMTT(20) DEF After
<1>6. Value(to, x, y) = unit
  BY <1>2, <1>3, SwappedValue, Zenon
<1>7. \/ x + 256 * y = ReversedBom(to) /\ out' = out
      \/ /\ x + 256 * y # ReversedBom(to) /\ ~Stops(x + 256 * y)
         /\ \E t \in Seq(Byte) : Len(t) = 2 /\ t[1] = x /\ t[2] = y /\ out' = out \o t
  BY SwapTurns, Zenon
<1> HIDE DEF x, y, unit
<1>8. /\ x + 256 * y = ReversedBom(to) <=> unit = Mark
      /\ Stops(x + 256 * y) <=> Stops(unit)
  BY <1>2, <1>4, <1>6, UnitKinds, SMTT(20)
<1>9. \/ unit = Mark /\ out' = out
      \/ /\ unit # Mark /\ ~Stops(unit)
         /\ \E t \in Seq(Byte) : Len(t) = 2 /\ Value(to, t[1], t[2]) = unit /\ out' = out \o t
  <2>1. CASE unit = Mark
    BY <1>7, <1>8, <2>1, Zenon
  <2>2. CASE unit # Mark
    <3>1. PICK t \in Seq(Byte) : Len(t) = 2 /\ t[1] = x /\ t[2] = y /\ out' = out \o t
      BY <1>7, <1>8, <2>2, Zenon
    <3>2. Value(to, t[1], t[2]) = unit
      BY <1>6, <3>1, Zenon
    <3>3. ~Stops(unit)
      BY <1>7, <1>8, <2>2, Zenon
    <3> QED
      BY <2>2, <3>1, <3>2, <3>3, Zenon
  <2> QED
    BY <2>1, <2>2, Zenon
<1> QED
  BY <1>5, <1>9, Zenon DEF unit

\* The second unit of a pair.
LEMMA SecondUnit ==
    ASSUME NEW enc, NEW s \in Seq(Byte), Len(s) = 4, NEW cp, DenotesUtf16(enc, s, cp)
    PROVE  /\ Value(enc, s[3], s[4]) \in LowSurrogate
           /\ Value(enc, s[3], s[4]) # Mark /\ ~Stops(Value(enc, s[3], s[4]))
<1> DEFINE low == Value(enc, s[3], s[4])
<1>1. low \in LowSurrogate
  BY SMTT(20) DEF DenotesUtf16
<1> HIDE DEF low
<1>2. low \in Int /\ 56320 <= low /\ low <= 57343
  BY <1>1, Surrogates, SMTT(20)
<1>3. low # Mark /\ ~Stops(low)
  BY <1>2, SMTT(20) DEF Mark, Stops
<1> QED
  BY <1>1, <1>3, Zenon DEF low

\* Two units that have the values of a character's are it in the other form.
LEMMA SameUnits ==
    ASSUME NEW enc \in {"UTF16LE", "UTF16BE"}, NEW other \in {"UTF16LE", "UTF16BE"},
           NEW s \in Seq(Byte), NEW t \in Seq(Byte), NEW cp, DenotesUtf16(enc, s, cp),
           Len(t) = Len(s), Value(other, t[1], t[2]) = Value(enc, s[1], s[2]),
           Len(s) = 4 => Value(other, t[3], t[4]) = Value(enc, s[3], s[4])
    PROVE  Denotes(other, t, cp)
<1>1. DenotesUtf16(other, t, cp)
  BY SMTT(20) DEF DenotesUtf16
<1>2. other # "UTF8"
  BY SMTT(20)
<1> QED
  BY <1>1, <1>2, Zenon DEF Denotes

LEMMA SwapFromBehind ==
    ASSUME TypeOK, FileInv, Clear, Clear', SwapUnits, NEW k \in Places, Unended(k), Behind(k)
    PROVE  (\E j \in Places : Progress(j))'
<1>1. /\ from # "UTF8" /\ to # "UTF8" /\ pos < Len(file) /\ FirstRun /\ ~stray' /\ pc' = "convert"
      /\ (from = "UTF16LE" /\ to = "UTF16BE") \/ (from = "UTF16BE" /\ to = "UTF16LE")
      /\ UNCHANGED <<user, from, to, file>> /\ pos' = After(pos, 2)
  BY SwapTurns, Zenon DEF Clear, FirstRun
<1>2. /\ Content \in Seq(CodePoint) /\ out \in Seq(Byte) /\ pos \in Nat /\ Len(file) \in Nat
      /\ file \in Seq(Byte) /\ user \in Files
      /\ from \in {"UTF16LE", "UTF16BE"} /\ to \in {"UTF16LE", "UTF16BE"}
  <2>1. from \in {"UTF16LE", "UTF16BE"} /\ to \in {"UTF16LE", "UTF16BE"}
    BY <1>1, SMTT(20)
  <2> QED
    BY <1>1, <2>1, FileIsThere, LenProperties, Zenon DEF TypeOK
<1>4. pos = Place(k) /\ Spells(to, out, Rendering(Prefix(k))) /\ pos >= Place(k)
  <2>1. \A n \in Nat : n >= n
    BY SMTT(20)
  <2> QED
    BY <1>2, <2>1, Zenon DEF Behind
<1>5. k \in Nat /\ k < Len(Content)
  BY <1>1, <1>4, NextCharacter, Zenon
<1> DEFINE cp == Content[k + 1]
<1>6. PICK s \in Seq(Byte) :
         /\ Denotes(from, s, cp) /\ Place(k + 1) = pos + Len(s)
         /\ \A i \in 1..Len(s) : pos + i <= Len(file) => file[pos + i] = s[i]
  BY <1>1, <1>4, NextCharacter, Zenon
<1>7. DenotesUtf16(from, s, cp)
  BY <1>1, <1>6, Zenon DEF Denotes
<1> DEFINE unit == Value(from, s[1], s[2])
<1>8. /\ Len(s) \in {2, 4}
      /\ Len(s) = 2 => unit = cp
      /\ Len(s) = 4 => unit # Mark /\ NeedsPair(cp)
  BY <1>2, <1>7, FirstUnit, Zenon
<1> HIDE DEF cp
<1>9. CASE pos + 2 <= Len(file)
  <2>1. file[pos + 1] = s[1] /\ file[pos + 2] = s[2]
    <3>1. 1 \in 1..Len(s) /\ 2 \in 1..Len(s) /\ pos + 1 <= Len(file)
      <4>1. \A n \in {2, 4} : 1 \in 1..n /\ 2 \in 1..n
        BY SMTT(20)
      <4>2. pos + 1 <= Len(file)
        BY <1>2, <1>9, SMTT(20)
      <4> QED
        BY <1>8, <4>1, <4>2, Zenon
    <3> QED
      BY <1>6, <1>9, <3>1, Zenon
  <2>2. /\ pos' = pos + 2
        /\ \/ unit = Mark /\ out' = out
           \/ /\ unit # Mark /\ ~Stops(unit)
              /\ \E t \in Seq(Byte) : Len(t) = 2 /\ Value(to, t[1], t[2]) = unit /\ out' = out \o t
    BY <1>1, <1>9, <2>1, SwapsUnit, Zenon
  <2>3. CASE Len(s) = 2
    <3>1. pos' = Place(k + 1)
      BY <1>6, <2>2, <2>3, Zenon
    <3>2. CASE cp = Mark
      <4>1. out' = out
        BY <1>8, <2>2, <2>3, <3>2, Zenon
      <4> QED
        BY <1>1, <1>2, <1>4, <1>5, <3>1, <3>2, <4>1, SkipsMark, Zenon DEF cp
    <3>3. CASE cp # Mark
      <4>0. ~Stops(cp)
        BY <1>8, <2>2, <2>3, <3>3, Zenon
      <4>1. PICK t \in Seq(Byte) : Len(t) = 2 /\ Value(to, t[1], t[2]) = unit /\ out' = out \o t
        BY <1>8, <2>2, <2>3, <3>3, Zenon
      <4>2. Len(t) = Len(s) /\ Len(s) # 4
        <5>1. 2 # 4
          OBVIOUS
        <5> QED
          BY <2>3, <4>1, <5>1, Zenon
      <4>3. Denotes(to, t, cp)
        BY <1>2, <1>7, <4>1, <4>2, SameUnits, Zenon
      <4> QED
        BY <1>1, <1>2, <1>4, <1>5, <3>1, <3>3, <4>0, <4>1, <4>3, Advances, Zenon DEF cp
    <3> QED
      BY <3>2, <3>3, Zenon
  <2>4. CASE Len(s) = 4
    <3>1. PICK t \in Seq(Byte) : Len(t) = 2 /\ Value(to, t[1], t[2]) = unit /\ out' = out \o t
      BY <1>8, <2>2, <2>4, Zenon
    <3>2. Wrote(k, t)'
      BY <1>1, <1>2, <1>4, <3>1, SameText, Zenon DEF Wrote
    <3>3. pos' = Place(k) + 2 /\ unit = Value(from, file[Place(k) + 1], file[Place(k) + 2])
      BY <1>4, <2>1, <2>2, Zenon
    <3>4. Within(k)'
      BY <1>1, <1>5, <1>8, <2>4, <3>1, <3>2, <3>3, SameText, Zenon DEF Within, cp
    <3> QED
      BY <1>1, <3>4, SameText, Zenon DEF Progress
  <2> QED
    BY <1>8, <2>3, <2>4, Zenon
<1>10. CASE ~(pos + 2 <= Len(file))
  <2>1. pos' = Len(file) /\ Place(k) <= pos' /\ pos' < Place(k + 1)
    <3>1. \A p, f \in Nat : \A n \in {2, 4} :
             p < f /\ ~(p + 2 <= f) => p + 2 >= f /\ p <= f /\ f < p + n
      BY SMTT(20)
    <3>2. pos + 2 >= Len(file) /\ pos <= Len(file) /\ Len(file) < pos + Len(s)
      BY <1>1, <1>2, <1>8, <1>10, <3>1, Zenon
    <3>3. pos' = Len(file)
      BY <1>1, <1>2, <3>2, AfterAtEnd, Zenon
    <3> QED
      BY <1>4, <1>6, <3>2, <3>3, Zenon
  <2>2. \E t \in Seq(Byte) : Len(t) <= 4 /\ out' = out \o t
    <3>1. <<>> \in Seq(Byte) /\ Len(<<>>) <= 4 /\ out \o <<>> = out /\ 2 <= 4
      BY <1>2, SMTT(20)
    <3>2. out' = out \/ \E t \in Seq(Byte) : Len(t) = 2 /\ out' = out \o t
      BY <1>1, SwapTurns, Zenon
    <3> QED
      BY <3>1, <3>2, Zenon
  <2> QED
    BY <1>1, <1>2, <1>4, <1>5, <2>1, <2>2, Breaks, Zenon
<1> QED
  BY <1>9, <1>10, Zenon

LEMMA SwapFromWithin ==
    ASSUME TypeOK, FileInv, Clear, Clear', SwapUnits, NEW k \in Places, Unended(k), Within(k)
    PROVE  (\E j \in Places : Progress(j))'
<1>1. /\ from # "UTF8" /\ to # "UTF8" /\ pos < Len(file) /\ FirstRun /\ ~stray' /\ pc' = "convert"
      /\ (from = "UTF16LE" /\ to = "UTF16BE") \/ (from = "UTF16BE" /\ to = "UTF16LE")
      /\ UNCHANGED <<user, from, to, file>> /\ pos' = After(pos, 2)
  BY SwapTurns, Zenon DEF Clear, FirstRun
<1>2. /\ Content \in Seq(CodePoint) /\ pos \in Nat /\ Len(file) \in Nat
      /\ file \in Seq(Byte) /\ k \in 0..Len(Content) /\ Len(Content) \in Nat
      /\ from \in {"UTF16LE", "UTF16BE"} /\ to \in {"UTF16LE", "UTF16BE"}
  <2>1. from \in {"UTF16LE", "UTF16BE"} /\ to \in {"UTF16LE", "UTF16BE"}
    BY <1>1, SMTT(20)
  <2> QED
    BY <1>1, <2>1, FileIsThere, LenProperties, Zenon DEF Places
<1> DEFINE cp == Content[k + 1]
           p == Place(k)
<1>3. /\ k < Len(Content) /\ NeedsPair(cp) /\ pos = p + 2
      /\ \E t \in Seq(Byte) : /\ Len(t) = 2 /\ Wrote(k, t)
                              /\ Value(to, t[1], t[2]) = Value(from, file[p + 1], file[p + 2])
  BY Zenon DEF Within
<1>4. PICK t \in Seq(Byte) : /\ Len(t) = 2 /\ Wrote(k, t)
                             /\ Value(to, t[1], t[2]) = Value(from, file[p + 1], file[p + 2])
  BY <1>3, Zenon
<1>5. PICK w \in Seq(Byte) : out = w \o t /\ Spells(to, w, Rendering(Prefix(k)))
  BY <1>4, Zenon DEF Wrote
<1>6. p \in Nat /\ pos >= p
  <2> DEFINE C == Content
  <2>1. C \in Seq(CodePoint) /\ k \in 0..Len(C)
    BY <1>2, Zenon
  <2> HIDE DEF C
  <2>2. Offset(from, C)[k] \in Nat
    BY <2>1, OffsetSteps, Zenon
  <2>3. p \in Nat
    BY <2>2, Zenon DEF Place, C
  <2> HIDE DEF p
  <2> QED
    BY <1>3, <2>3, SMTT(20)
<1>7. PICK s \in Seq(Byte) :
         /\ Denotes(from, s, cp) /\ Place(k + 1) = p + Len(s)
         /\ \A i \in 1..Len(s) : p + i <= Len(file) => file[p + i] = s[i]
  BY <1>1, <1>6, NextCharacter, Zenon
<1>8. DenotesUtf16(from, s, cp)
  BY <1>1, <1>7, Zenon DEF Denotes
<1>9. Len(s) = 4 /\ cp # Mark /\ ~Stops(cp)
  BY <1>2, <1>3, <1>8, FirstUnit, SMTT(20)
<1> HIDE DEF cp, p
<1>10. p + 2 < Len(file) /\ p + 3 <= Len(file)
  BY <1>1, <1>2, <1>3, <1>6, SMTT(20)
<1>11. Value(to, t[1], t[2]) = Value(from, s[1], s[2])
  <2>1. 1 \in 1..4 /\ 2 \in 1..4 /\ p + 1 <= Len(file) /\ p + 2 <= Len(file)
    BY <1>2, <1>6, <1>10, SMTT(20)
  <2>2. file[p + 1] = s[1] /\ file[p + 2] = s[2]
    BY <1>7, <1>9, <2>1, Zenon
  <2> QED
    BY <1>4, <2>2, Zenon
<1>12. ASSUME NEW x \in Seq(Byte), Len(x) = 2, out' = out \o x
       PROVE  /\ t \o x \in Seq(Byte) /\ Len(t \o x) = 4 /\ out' = w \o (t \o x)
              /\ (t \o x)[1] = t[1] /\ (t \o x)[2] = t[2]
              /\ (t \o x)[3] = x[1] /\ (t \o x)[4] = x[2]
  <2>1. (w \o t) \o x = w \o (t \o x)
    BY <1>12, ConcatAssociative, SMTT(20)
  <2>2. /\ t \o x \in Seq(Byte) /\ Len(t \o x) = 4
        /\ (t \o x)[1] = t[1] /\ (t \o x)[2] = t[2]
        /\ (t \o x)[3] = x[1] /\ (t \o x)[4] = x[2]
    BY <1>4, <1>12, TwoUnits, Zenon
  <2> QED
    BY <1>5, <1>12, <2>1, <2>2, Zenon
<1>13. CASE pos + 2 <= Len(file)
  <2>1. /\ p + 4 <= Len(file) /\ p + 3 <= Len(file) /\ pos + 1 = p + 3 /\ pos + 2 = p + 4
        /\ 3 \in 1..4 /\ 4 \in 1..4
    BY <1>3, <1>6, <1>13, <1>2, SMTT(20)
  <2>2. file[pos + 1] = s[3] /\ file[pos + 2] = s[4]
    BY <1>7, <1>9, <2>1, Zenon
  <2> DEFINE unit == Value(from, s[3], s[4])
  <2>3. unit # Mark /\ ~Stops(unit)
    BY <1>8, <1>9, SecondUnit, Zenon
  <2>4. /\ pos' = pos + 2
        /\ \E x \in Seq(Byte) : Len(x) = 2 /\ Value(to, x[1], x[2]) = unit /\ out' = out \o x
    BY <1>1, <1>13, <2>2, <2>3, SwapsUnit, Zenon
  <2>5. PICK x \in Seq(Byte) : Len(x) = 2 /\ Value(to, x[1], x[2]) = unit /\ out' = out \o x
    BY <2>4, Zenon
  <2> HIDE DEF unit
  <2>6. /\ t \o x \in Seq(Byte) /\ Len(t \o x) = 4 /\ out' = w \o (t \o x)
        /\ (t \o x)[1] = t[1] /\ (t \o x)[2] = t[2]
        /\ (t \o x)[3] = x[1] /\ (t \o x)[4] = x[2]
    BY <1>12, <2>5, Zenon
  <2> DEFINE y == t \o x
  <2>7. /\ y \in Seq(Byte) /\ Len(y) = Len(s) /\ Value(to, y[1], y[2]) = Value(from, s[1], s[2])
        /\ Len(s) = 4 => Value(to, y[3], y[4]) = Value(from, s[3], s[4])
    BY <1>9, <1>11, <2>5, <2>6, Zenon DEF unit
  <2>8. out' = w \o y
    BY <2>6, Zenon
  <2> HIDE DEF y
  <2>9. Denotes(to, y, cp)
    BY <1>2, <1>8, <2>7, SameUnits, Zenon
  <2>10. pos' = Place(k + 1)
    BY <1>7, <1>9, <2>1, <2>4, Zenon
  <2> QED
    BY <1>1, <1>2, <1>3, <1>5, <1>9, <2>7, <2>8, <2>9, <2>10, Advances, Zenon DEF cp
<1>14. CASE ~(pos + 2 <= Len(file))
  <2>1. pos + 2 >= Len(file) /\ Len(file) = p + 3 /\ p <= Len(file) /\ Len(file) < p + 4
    BY <1>2, <1>3, <1>6, <1>10, <1>14, SMTT(20)
  <2>2. pos' = Len(file)
    BY <1>1, <1>2, <2>1, AfterAtEnd, Zenon
  <2>3. p <= pos' /\ pos' < Place(k + 1)
    BY <1>7, <1>9, <2>1, <2>2, Zenon
  <2>4. \E y \in Seq(Byte) : Len(y) <= 4 /\ out' = w \o y
    <3>1. Len(t) <= 4 /\ \A n : n = 4 => n <= 4
      BY <1>4, SMTT(20)
    <3>2. out' = out \/ \E x \in Seq(Byte) : Len(x) = 2 /\ out' = out \o x
      BY <1>1, SwapTurns, Zenon
    <3>3. CASE out' = out
      BY <1>4, <1>5, <3>1, <3>3, Zenon
    <3>4. CASE \E x \in Seq(Byte) : Len(x) = 2 /\ out' = out \o x
      <4>1. PICK x \in Seq(Byte) : Len(x) = 2 /\ out' = out \o x
        BY <3>4, Zenon
      <4>2. t \o x \in Seq(Byte) /\ Len(t \o x) = 4 /\ out' = w \o (t \o x)
        BY <1>12, <4>1, Zenon
      <4> DEFINE y == t \o x
      <4>3. y \in Seq(Byte) /\ Len(y) = 4 /\ out' = w \o y
        BY <4>2, Zenon
      <4> HIDE DEF y
      <4>4. Len(y) <= 4
        BY <3>1, <4>3, Zenon
      <4> QED
        BY <4>3, <4>4, Zenon
    <3> QED
      BY <3>2, <3>3, <3>4, Zenon
  <2> QED
    BY <1>1, <1>3, <1>5, <2>2, <2>3, <2>4, Breaks, Zenon DEF p
<1> QED
  BY <1>13, <1>14, Zenon

LEMMA SwapKeepsStray == SwapUnits => UNCHANGED stray \/ stray' = TRUE
<1> SUFFICES ASSUME SwapUnits PROVE UNCHANGED stray \/ stray' = TRUE
  OBVIOUS
<1> QED
  BY ZenonT(60) DEF SwapUnits

LEMMA ProgressNext == TypeOK /\ FileInv /\ FileInv' /\ ProgressInv /\ [Next]_vars => ProgressInv'
<1> SUFFICES ASSUME TypeOK, FileInv, FileInv', ProgressInv, [Next]_vars, Clear'
             PROVE  (\E k \in Places : Progress(k))'
  BY Zenon DEF ProgressInv
<1>1. pc' = "convert"
  BY Zenon DEF Clear, FirstRun
<1>2. CASE UNCHANGED vars
  <2>1. UNCHANGED <<user, disk, pc, commands, inFile, file, from, to, pos, out, stray>>
    BY <1>2, Zenon DEF vars, arguments
  <2>2. Clear
    BY <1>1, <2>1, SameRun, Zenon
  <2>3. PICK k \in Places : Progress(k)
    BY <2>2, Zenon DEF ProgressInv
  <2>4. k \in Places' /\ Progress(k)'
    <3>1. \A t : Wrote(k, t)' <=> Wrote(k, t)
      BY <2>1, SameText, Zenon DEF Wrote
    <3>2. Behind(k)' <=> Behind(k)
      BY <2>1, SameText, Zenon DEF Behind
    <3>3. Within(k)' <=> Within(k)
      BY <2>1, <3>1, SameText, Zenon DEF Within
    <3>4. CutOff(k)' <=> CutOff(k)
      BY <2>1, <3>1, SameText, Zenon DEF CutOff
    <3> QED
      BY <2>1, <2>3, <3>2, <3>3, <3>4, SameText, Zenon DEF Progress
  <2> QED
    BY <2>4, Zenon
<1>3. CASE Run \/ Encoding \/ Usage \/ Name \/ Refuse \/ Transcribe \/ AtEnd
  <2>1. pc' \in {"parse", "exit", "idle"}
    BY <1>3, SMTT(20) DEF Run, Encoding, Usage, Name, NextArg, Refuse, Transcribe, AtEnd, Done
  <2> QED
    BY <1>1, <2>1, SMTT(20)
<1>4. ASSUME NEW enc \in Encodings, Crash(enc) PROVE FALSE
  BY <1>1, <1>4, SMTT(20) DEF Crash
<1>5. ASSUME NEW enc \in Encodings, Start(enc) PROVE (\E k \in Places : Progress(k))'
  BY <1>5, StartsAtNothing, Zenon
<1>6. CASE FromUtf8 \/ SwapUnits \/ ToUtf8
  <2>1. pc = "convert" /\ UNCHANGED <<user, commands, inFile, from, to>>
    BY <1>6, Zenon DEF FromUtf8, SwapUnits, ToUtf8, Reads, arguments
  <2>0. stray => stray'
    <3>1. CASE FromUtf8 \/ ToUtf8
      BY <3>1, Zenon DEF FromUtf8, ToUtf8
    <3>2. CASE SwapUnits
      BY <3>2, SwapKeepsStray
    <3> QED
      BY <1>6, <3>1, <3>2, Zenon
  <2>2. Clear
    BY <2>1, <2>0, SameRun, Zenon
  <2>3. PICK k \in Places : Progress(k)
    BY <2>2, Zenon DEF ProgressInv
  <2>4. CASE FromUtf8
    BY <2>2, <2>3, <2>4, FromUtf8Progress, Zenon
  <2>5. CASE ToUtf8
    BY <1>1, <2>2, <2>3, <2>5, ToUtf8Progress, Zenon
  <2>6. CASE SwapUnits
    <3>1. ~CutOff(k)
      <4>1. pos < Len(file) /\ Len(file) \in Nat
        BY <2>6, LenProperties, Zenon DEF SwapUnits, Reads, TypeOK
      <4>2. \A n \in Nat : ~(n < n)
        BY SMTT(20)
      <4> QED
        BY <4>1, <4>2, Zenon DEF CutOff
    <3> QED
      BY <2>2, <2>3, <2>6, <3>1, SwapFromBehind, SwapFromWithin, Zenon DEF Progress
  <2> QED
    BY <1>6, <2>4, <2>5, <2>6, Zenon
<1> QED
  BY <1>2, <1>3, <1>4, <1>5, <1>6, Zenon DEF Next

-----------------------------------------------------------------------------
(* What is claimed of a conversion *)

LEMMA PlacesGrow ==
    ASSUME Content \in Seq(CodePoint)
    PROVE  /\ \A k \in Places : Place(k) \in Nat
           /\ \A j, k \in Places : j < k => Place(j) < Place(k)
           /\ \A k \in Places : k < Len(Content) =>
                 k + 1 \in Places /\ Place(k + 1) = Place(k) + Width(from, Content[k + 1])
<1> DEFINE C == Content
           N == Len(C)
           off == Offset(from, C)
<1>1. C \in Seq(CodePoint) /\ N \in Nat
  BY LenProperties, Zenon
<1>2. Places = 0..N /\ \A k : Place(k) = off[k]
  BY Zenon DEF Places, Place
<1> HIDE DEF C
<1>3. /\ off \in [0..N -> Nat]
      /\ \A k \in 1..N : off[k] = off[k - 1] + Width(from, C[k])
  BY <1>1, OffsetSteps, Zenon
<1>4. \A j \in 0..N : \A i \in 0..(j - 1) : off[i] < off[j]
  BY <1>1, OffsetsGrow, Zenon
<1> HIDE DEF N, off
<1>5. \A j, k \in 0..N : j < k => j \in 0..(k - 1)
  BY <1>1, SMTT(20)
<1>6. \A k \in 0..N : k < N => k + 1 \in 0..N /\ k + 1 \in 1..N /\ (k + 1) - 1 = k
  BY <1>1, SMTT(20)
<1>7. \A k \in 0..N : k < N =>
         k + 1 \in 0..N /\ off[k + 1] = off[k] + Width(from, C[k + 1])
  BY <1>3, <1>6, Zenon
<1>8. \A k \in 0..N : off[k] \in Nat
  BY <1>3, Zenon
<1>9. \A j, k \in 0..N : j < k => off[j] < off[k]
  BY <1>4, <1>5, Zenon
<1> QED
  BY <1>2, <1>7, <1>8, <1>9, Zenon DEF C, N

\* No place is between that of a character and that of the next.
LEMMA NothingBetween ==
    ASSUME Content \in Seq(CodePoint), NEW j \in Places, NEW k \in Places,
           Place(j) <= Place(k), j < Len(Content), Place(k) < Place(j + 1)
    PROVE  k = j
<1> DEFINE P(i) == Place(i)
           N == Len(Content)
<1>1. /\ P(j) \in Nat /\ P(k) \in Nat /\ j + 1 \in Places /\ P(j + 1) \in Nat
      /\ k < j => P(k) < P(j)
      /\ j + 1 < k => P(j + 1) < P(k)
  BY PlacesGrow, Zenon
<1>2. N \in Nat /\ j \in 0..N /\ k \in 0..N
  BY LenProperties, Zenon DEF Places
<1>3. P(j) <= P(k) /\ P(k) < P(j + 1)
  BY Zenon
<1> HIDE DEF N
<1>4. k < j \/ k = j \/ k = j + 1 \/ j + 1 < k
  BY <1>2, SMTT(20)
<1>5. ~(k < j)
  <2> DEFINE a == P(j)
             b == P(k)
  <2>1. a \in Nat /\ b \in Nat /\ a <= b /\ (k < j => b < a)
    BY <1>1, <1>3, Zenon
  <2> HIDE DEF a, b
  <2> QED
    BY <2>1, SMTT(20)
<1>6. k # j + 1 /\ ~(j + 1 < k)
  <2> DEFINE a == P(j + 1)
             b == P(k)
  <2>1. a \in Nat /\ b \in Nat /\ b < a /\ (j + 1 < k => a < b) /\ (k = j + 1 => a = b)
    BY <1>1, <1>3, Zenon
  <2> HIDE DEF a, b
  <2> QED
    BY <2>1, SMTT(20)
<1> QED
  BY <1>4, <1>5, <1>6, Zenon

\* Between the units of a pair the program is at no place.
LEMMA InsidePair ==
    ASSUME Content \in Seq(CodePoint), NEW j \in Places, Within(j)
    PROVE  /\ j < Len(Content) /\ pos \in Nat
           /\ Place(j) <= pos /\ pos # Place(j) /\ pos < Place(j + 1)
<1> DEFINE cp == Content[j + 1]
           a == Place(j)
           b == Place(j + 1)
<1>1. j < Len(Content) /\ NeedsPair(cp) /\ pos = a + 2 /\ from # "UTF8"
  BY Zenon DEF Within
<1>2. a \in Nat /\ b = a + Width(from, cp)
  BY <1>1, PlacesGrow, Zenon
<1>3. cp \in CodePoint
  <2>1. Len(Content) \in Nat /\ j \in 0..Len(Content)
    BY LenProperties, Zenon DEF Places
  <2>2. j \in 0..(Len(Content) - 1)
    BY <1>1, <2>1, SMTT(20)
  <2> QED
    BY <2>2, PrefixGrows, Zenon
<1> HIDE DEF cp, a, b
<1>4. Width(from, cp) = 4
  BY <1>1, <1>3, WidthType, SMTT(20) DEF CodePoint, NeedsPair
<1>5. pos \in Nat /\ a <= pos /\ pos < b /\ pos # a
  BY <1>1, <1>2, <1>4, SMTT(20)
<1> QED
  BY <1>1, <1>5, Zenon DEF a, b

\* A file that is all there is not cut off within a character.
LEMMA WholeIsNotCut ==
    ASSUME TypeOK, FileInv, FirstRun, Whole, NEW k \in Places
    PROVE  ~CutOff(k)
<1> SUFFICES ASSUME CutOff(k) PROVE FALSE
  OBVIOUS
<1>1. /\ Content \in Seq(CodePoint) /\ Len(Content) \in Nat /\ Spells(from, user.whole, Content)
      /\ Len(file) = Len(user.whole)
  BY FileIsThere, Zenon DEF Whole
<1> DEFINE N == Len(Content)
           p == Place(k + 1)
           q == Place(N)
<1>2. k < N /\ Len(file) < p
  BY Zenon DEF CutOff
<1>3. Len(file) = q
  BY <1>1, Zenon DEF Spells, Place
<1>4. N \in Places
  <2>1. N \in 0..N
    BY <1>1, SMTT(20)
  <2> QED
    BY <2>1, Zenon DEF Places
<1>5. k + 1 \in Places /\ p \in Nat /\ q \in Nat /\ (k + 1 < N => p < q)
  BY <1>1, <1>2, <1>4, PlacesGrow, Zenon
<1>6. k + 1 < N \/ k + 1 = N
  <2>1. N \in Nat /\ k \in 0..N
    BY <1>1, Zenon DEF Places
  <2> HIDE DEF N
  <2> QED
    BY <1>2, <2>1, SMTT(20)
<1>7. k + 1 = N => p = q
  BY Zenon
<1> HIDE DEF N, p, q
<1> QED
  BY <1>2, <1>3, <1>5, <1>6, <1>7, SMTT(20)

LEMMA FromUtf8IsExact == TypeOK /\ FileInv /\ ProgressInv => FromUtf8Exact
<1> SUFFICES ASSUME TypeOK, FileInv, ProgressInv, FirstRun, Whole, from = "UTF8"
             PROVE  \E k \in Places : pos = Place(k) /\ Spells(to, out, Rendering(Prefix(k)))
  BY Zenon DEF FromUtf8Exact
<1>1. Clear
  BY Zenon DEF Clear, FirstRun, FileInv
<1>2. PICK k \in Places : Progress(k)
  BY <1>1, Zenon DEF ProgressInv
<1>3. Behind(k)
  BY <1>2, WholeIsNotCut, Zenon DEF Progress, Within
<1> QED
  BY <1>3, Zenon DEF Behind

LEMMA FromUtf16IsExact == TypeOK /\ FileInv /\ ProgressInv => FromUtf16Exact
<1> SUFFICES ASSUME TypeOK, FileInv, ProgressInv, FirstRun, Whole, from # "UTF8", ~stray,
                    to = "UTF8" => ~MisreadIn(user.text)
             PROVE  /\ \A k \in Places : pos = Place(k) => Spells(to, out, Rendering(Prefix(k)))
                    /\ to = "UTF8" => \E k \in Places : pos = Place(k)
  BY Zenon DEF FromUtf16Exact
<1>1. Clear /\ Content \in Seq(CodePoint)
  BY FileIsThere, Zenon DEF Clear
<1>2. PICK j \in Places : Progress(j)
  BY <1>1, Zenon DEF ProgressInv
<1>3. Behind(j) \/ Within(j)
  BY <1>2, WholeIsNotCut, Zenon DEF Progress
<1>4. ASSUME to = "UTF8" PROVE \E k \in Places : pos = Place(k)
  BY <1>3, <1>4, Zenon DEF Behind, Within
<1>5. ASSUME NEW k \in Places, pos = Place(k) PROVE Spells(to, out, Rendering(Prefix(k)))
  <2>1. CASE Behind(j)
    <3>1. k = j
      <4> DEFINE a == Place(j)
                 b == Place(k)
      <4>1. a \in Nat /\ a = b /\ (j < k => a < b) /\ (k < j => b < a)
        BY <1>1, <1>5, <2>1, PlacesGrow, Zenon DEF Behind
      <4>2. Len(Content) \in Nat /\ j \in 0..Len(Content) /\ k \in 0..Len(Content)
        BY <1>1, LenProperties, Zenon DEF Places
      <4> HIDE DEF a, b
      <4> QED
        BY <4>1, <4>2, SMTT(20)
    <3> QED
      BY <2>1, <3>1, Zenon DEF Behind
  <2>2. CASE Within(j)
    <3>1. /\ j < Len(Content) /\ Place(j) <= pos /\ pos # Place(j) /\ pos < Place(j + 1)
      BY <1>1, <2>2, InsidePair, Zenon
    <3>2. k = j
      BY <1>1, <1>5, <3>1, NothingBetween, Zenon
    <3> QED
      BY <1>5, <3>1, <3>2, Zenon
  <2> QED
    BY <1>3, <2>1, <2>2, Zenon
<1> QED
  BY <1>4, <1>5, Zenon


LEMMA FirstPart ==
    ASSUME NEW w \in Seq(Byte), NEW t \in Seq(Byte)
    PROVE  SubSeq(w \o t, 1, Len(w)) = w
<1> DEFINE s == w \o t
           u == SubSeq(s, 1, Len(w))
<1>1. /\ s \in Seq(Byte) /\ Len(s) = Len(w) + Len(t)
      /\ \A i \in 1..Len(w) + Len(t) : s[i] = IF i <= Len(w) THEN w[i] ELSE t[i - Len(w)]
  BY ConcatProperties, Zenon
<1> HIDE DEF s
<1>2. Len(w) \in Nat /\ Len(t) \in Nat
  BY LenProperties, Zenon
<1>3. u \in Seq(Byte) /\ Len(u) = Len(w) /\ \A i \in 1..Len(w) : u[i] = s[i]
  BY <1>1, <1>2, SMTT(20)
<1>4. \A i \in 1..Len(w) : s[i] = w[i]
  <2>1. \A i \in 1..Len(w) : i \in 1..Len(w) + Len(t) /\ i <= Len(w)
    BY <1>2, SMTT(20)
  <2> QED
    BY <1>1, <2>1, Zenon
<1> HIDE DEF u
<1>5. \A i \in 1..Len(w) : u[i] = w[i]
  BY <1>3, <1>4, Zenon
<1>6. u = w
  BY <1>3, <1>5, SeqEqual, Zenon
<1> QED
  BY <1>6, Zenon DEF u, s

LEMMA CutCostsNoMore == TypeOK /\ FileInv /\ ProgressInv => CutCostsOneCharacter
<1> SUFFICES ASSUME TypeOK, FileInv, ProgressInv, Clear
             PROVE  CutCostsOneCharacter
  BY Zenon DEF CutCostsOneCharacter, Clear
<1> DEFINE R(k) == Rendering(Prefix(k))
           n(k) == Offset(to, R(k))[Len(R(k))]
<1>1. /\ Content \in Seq(CodePoint) /\ Len(Content) \in Nat /\ pos \in Nat
      /\ out \in Seq(Byte) /\ Len(out) \in Nat
  BY FileIsThere, LenProperties, Zenon DEF Clear, TypeOK
<1>2. PICK k \in Places : Progress(k)
  BY Zenon DEF ProgressInv
<1>3. Place(k) \in Nat /\ (k < Len(Content) =>
         Place(k + 1) \in Nat /\ Place(k + 1) = Place(k) + Width(from, Content[k + 1]))
  BY <1>1, PlacesGrow, Zenon
<1>4. k < Len(Content) => Width(from, Content[k + 1]) \in 1..4
  <2> SUFFICES ASSUME k < Len(Content) PROVE Width(from, Content[k + 1]) \in 1..4
    OBVIOUS
  <2>1. k \in 0..(Len(Content) - 1)
    BY <1>1, SMTT(20) DEF Places
  <2> DEFINE cp == Content[k + 1]
  <2>2. cp \in CodePoint
    BY <1>1, <2>1, PrefixGrows, Zenon
  <2> HIDE DEF cp
  <2>3. Width(from, cp) \in 1..4
    BY <2>2, WidthType, SMTT(20)
  <2> QED
    BY <2>3, Zenon DEF cp
<1>5. ASSUME NEW t \in Seq(Byte), Len(t) <= 4, Wrote(k, t)
      PROVE  n(k) <= Len(out) /\ Len(out) <= n(k) + 4 /\ Spells(to, SubSeq(out, 1, n(k)), R(k))
  <2>1. PICK w \in Seq(Byte) : out = w \o t /\ Spells(to, w, R(k))
    BY <1>5, Zenon DEF Wrote
  <2>2. Len(w) = n(k)
    BY <2>1, Zenon DEF Spells
  <2>3. Len(w) \in Nat /\ Len(t) \in Nat /\ Len(out) = Len(w) + Len(t)
    BY <2>1, ConcatProperties, LenProperties, Zenon
  <2>4. Len(w) <= Len(out) /\ Len(out) <= Len(w) + 4
    BY <1>5, <2>3, SMTT(20)
  <2>5. SubSeq(out, 1, Len(w)) = w
    BY <2>1, FirstPart, Zenon
  <2> QED
    BY <2>1, <2>2, <2>4, <2>5, Zenon
<1> DEFINE C(j) == /\ Place(j) <= pos
                   /\ j < Len(Content) => pos <= Place(j + 1)
                   /\ n(j) <= Len(out) /\ Len(out) <= n(j) + 4
                   /\ Spells(to, SubSeq(out, 1, n(j)), R(j))
<1>6. C(k) => CutCostsOneCharacter
  BY Zenon DEF CutCostsOneCharacter
<1>7. CASE Behind(k)
  <2> DEFINE e == <<>>
  <2>1. e \in Seq(Byte) /\ Len(e) <= 4
    BY SMTT(20)
  <2>2. out \o e = out
    BY <1>1, SMTT(20)
  <2> HIDE DEF e
  <2>3. Wrote(k, e)
    BY <1>1, <1>7, <2>1, <2>2, Zenon DEF Wrote, Behind
  <2>4. n(k) <= Len(out) /\ Len(out) <= n(k) + 4 /\ Spells(to, SubSeq(out, 1, n(k)), R(k))
    BY <1>5, <2>1, <2>3, Zenon
  <2>5. Place(k) <= pos /\ (k < Len(Content) => pos <= Place(k + 1))
    <3> DEFINE a == Place(k)
               b == Place(k + 1)
               w == Width(from, Content[k + 1])
               before == k < Len(Content)
    <3>1. a \in Nat /\ pos = a /\ (before => w \in 1..4 /\ b = a + w)
      BY <1>3, <1>4, <1>7, Zenon DEF Behind
    <3> HIDE DEF a, b, w, before
    <3>2. a <= pos /\ (before => pos <= b)
      BY <3>1, SMTT(20)
    <3> QED
      BY <3>2, Zenon DEF a, b, before
  <2> QED
    BY <1>6, <2>4, <2>5, Zenon
<1>8. CASE Within(k)
  <2>1. PICK t \in Seq(Byte) : Len(t) = 2 /\ Wrote(k, t)
    BY <1>8, Zenon DEF Within
  <2>2. Len(t) <= 4
    BY <2>1, SMTT(20)
  <2>3. n(k) <= Len(out) /\ Len(out) <= n(k) + 4 /\ Spells(to, SubSeq(out, 1, n(k)), R(k))
    BY <1>5, <2>1, <2>2, Zenon
  <2> DEFINE b == Place(k + 1)
  <2>4. Place(k) <= pos /\ pos < b /\ b \in Nat
    BY <1>1, <1>3, <1>8, InsidePair, Zenon
  <2> HIDE DEF b
  <2>5. pos <= b
    BY <1>1, <2>4, SMTT(20)
  <2> QED
    BY <1>6, <2>3, <2>4, <2>5, Zenon DEF b
<1>9. CASE CutOff(k)
  <2>1. PICK t \in Seq(Byte) : Len(t) <= 4 /\ Wrote(k, t)
    BY <1>9, Zenon DEF CutOff
  <2>2. n(k) <= Len(out) /\ Len(out) <= n(k) + 4 /\ Spells(to, SubSeq(out, 1, n(k)), R(k))
    BY <1>5, <2>1, Zenon
  <2> DEFINE b == Place(k + 1)
  <2>3. Place(k) <= pos /\ k < Len(Content) /\ pos < b /\ b \in Nat
    BY <1>3, <1>9, Zenon DEF CutOff
  <2> HIDE DEF b
  <2>4. pos <= b
    BY <1>1, <2>3, SMTT(20)
  <2> QED
    BY <1>6, <2>2, <2>3, <2>4, Zenon DEF b
<1> QED
  BY <1>2, <1>7, <1>8, <1>9, Zenon DEF Progress

\* In every run over the user's file, whatever the files and the contents of the
\* buffer: the program is between two characters and has written exactly those
\* before it, but for the misread ones of UTF-16 and for uninitialized memory that
\* is taken for a surrogate; and a file that is cut off comes out as the characters
\* before the cut and no more than one other.
THEOREM ConvertsExactly == Spec => []ConversionExact
<1>1. Init => ProgressInv
  BY Zenon DEF Init, ProgressInv, Clear, FirstRun
<1>2. TypeOK /\ FileInv /\ ProgressInv /\ [Next]_vars => FileInv' /\ ProgressInv'
  BY FileNext, ProgressNext
<1>3. TypeOK /\ FileInv /\ ProgressInv => ConversionExact
  BY FromUtf8IsExact, FromUtf16IsExact, CutCostsNoMore, Zenon DEF ConversionExact
<1> QED
  BY <1>1, <1>2, <1>3, TypeCorrect, FileInit, PTL DEF Spec


-----------------------------------------------------------------------------
(* What is in the output file in the end *)

\* A mark in front makes no difference to what is kept.
LEMMA MarkInFront ==
    ASSUME NEW text \in Seq(CodePoint), NEW more \in Seq(CodePoint),
           Len(more) = Len(text) + 1, more[1] = Mark,
           \A i \in 1..Len(text) : more[i + 1] = text[i]
    PROVE  NoMarks(more) = NoMarks(text)
<1> DEFINE N == Len(text)
           a == Kept(text)
           b == Kept(more)
           T == {k \in 0..N : b[k + 1] = a[k]}
<1>1. N \in Nat /\ Len(more) = N + 1 /\ \A i \in 1..N : more[i + 1] = text[i]
  BY LenProperties, Zenon
<1> HIDE DEF N
<1>2. /\ a[0] = <<>> /\ \A k \in 1..N : a[k] = Keeping(a[k - 1], text[k])
      /\ b[0] = <<>> /\ \A k \in 1..(N + 1) : b[k] = Keeping(b[k - 1], more[k])
  BY <1>1, KeptSteps, Zenon DEF N
<1> HIDE DEF a, b
<1>3. 0 \in T
  <2>1. 1 \in 1..(N + 1) /\ 1 - 1 = 0 /\ 0 \in 0..N /\ 0 + 1 = 1
    BY <1>1, SMTT(20)
  <2>2. b[1] = b[0]
    BY <1>2, <2>1, Zenon DEF Keeping
  <2> QED
    BY <1>2, <2>1, <2>2, Zenon
<1>4. ASSUME NEW k \in 0..(N - 1), k \in T PROVE k + 1 \in T
  <2>1. /\ k + 1 \in 1..N /\ k + 1 \in 0..N /\ (k + 1) - 1 = k
        /\ (k + 1) + 1 \in 1..(N + 1) /\ ((k + 1) + 1) - 1 = k + 1
    BY <1>1, SMTT(20)
  <2>2. /\ a[k + 1] = Keeping(a[k], text[k + 1])
        /\ b[(k + 1) + 1] = Keeping(b[k + 1], more[(k + 1) + 1])
        /\ more[(k + 1) + 1] = text[k + 1] /\ b[k + 1] = a[k]
    BY <1>1, <1>2, <1>4, <2>1, Zenon
  <2> QED
    BY <2>1, <2>2, Zenon
<1>5. 0..N \subseteq T
  <2> HIDE DEF T
  <2>1. \A n \in 0..(N - 1) : n \in T => n + 1 \in T
    BY <1>4, Zenon
  <2>2. 0 \in Nat
    OBVIOUS
  <2> QED
    BY <1>1, <1>3, <2>1, <2>2, NatSetInduction, Zenon
<1>6. b[N + 1] = a[N]
  <2>1. N \in 0..N
    BY <1>1, SMTT(20)
  <2> QED
    BY <1>5, <2>1, Zenon
<1> QED
  BY <1>1, <1>6, Zenon DEF NoMarks, a, b, N

\* The part of the text that is read when k characters of the file are.
LEMMA TextRead ==
    ASSUME user \in Files, NEW k \in Nat, k < Len(user.text) + 1
    PROVE  /\ SubSeq(user.text, 1, k) \in Seq(CodePoint)
           /\ Prefix(k + 1) \in Seq(CodePoint)
           /\ NoMarks(Prefix(k + 1)) = NoMarks(SubSeq(user.text, 1, k))
<1> DEFINE t == user.text
           C == Content
           a == SubSeq(t, 1, k)
           b == SubSeq(C, 1, k + 1)
<1>1. /\ t \in Seq(CodePoint) /\ C \in Seq(CodePoint) /\ Len(C) = Len(t) + 1
      /\ C[1] = Mark /\ \A i \in 1..Len(t) : C[i + 1] = t[i]
  BY ContentType, Zenon
<1>2. Len(t) \in Nat /\ k < Len(t) + 1
  BY <1>1, LenProperties, Zenon
<1>3. Prefix(k + 1) = b
  BY Zenon DEF Prefix
<1> HIDE DEF t, C
<1>4. a \in Seq(CodePoint) /\ Len(a) = k /\ \A i \in 1..k : a[i] = t[i]
  BY <1>1, <1>2, SMTT(20)
<1>5. b \in Seq(CodePoint) /\ Len(b) = k + 1 /\ \A i \in 1..(k + 1) : b[i] = C[i]
  BY <1>1, <1>2, SMTT(20)
<1> HIDE DEF a, b
<1>6. 1 \in 1..(k + 1) /\ \A i \in 1..k : i + 1 \in 1..(k + 1) /\ i \in 1..Len(t)
  BY <1>2, SMTT(20)
<1>7. b[1] = Mark /\ \A i \in 1..Len(a) : b[i + 1] = a[i]
  BY <1>1, <1>4, <1>5, <1>6, Zenon
<1>8. NoMarks(b) = NoMarks(a)
  BY <1>4, <1>5, <1>7, MarkInFront, Zenon
<1> QED
  BY <1>3, <1>4, <1>5, <1>8, Zenon DEF a, t

LEMMA EndsAre == \A u : u \in LineEnds <=> Stops(u)
BY SMTT(20) DEF LineEnds, Stops

\* The text before its first line end.
LEMMA NoLineEnd ==
    ASSUME NEW text, \A i \in DOMAIN text : ~Stops(text[i])
    PROVE  BeforeLineEnd(text) = text
BY EndsAre, Zenon DEF BeforeLineEnd

LEMMA FirstLineEnd ==
    ASSUME NEW text \in Seq(CodePoint), NEW k \in 1..Len(text), Stops(text[k]),
           \A i \in 1..(k - 1) : ~Stops(text[i])
    PROVE  BeforeLineEnd(text) = SubSeq(text, 1, k - 1)
<1> DEFINE ends == {i \in DOMAIN text : text[i] \in LineEnds}
           first == CHOOSE i \in ends : \A j \in ends : i <= j
<1>1. Len(text) \in Nat /\ DOMAIN text = 1..Len(text)
  BY LenProperties, Zenon
<1>2. k \in ends
  BY <1>1, EndsAre, Zenon
<1>3. \A j \in ends : k <= j /\ j \in Nat
  <2> SUFFICES ASSUME NEW j \in ends PROVE k <= j /\ j \in Nat
    OBVIOUS
  <2>1. j \in 1..Len(text) /\ j \notin 1..(k - 1)
    BY <1>1, EndsAre, Zenon
  <2> HIDE DEF ends
  <2> QED
    BY <1>1, <2>1, SMTT(20)
<1>4. BeforeLineEnd(text) = SubSeq(text, 1, first - 1)
  BY <1>2, Zenon DEF BeforeLineEnd
<1> HIDE DEF ends
<1>5. first \in ends /\ \A j \in ends : first <= j
  BY <1>2, <1>3, Zenon
<1>6. first = k
  <2> HIDE DEF first
  <2>1. first <= k /\ k <= first /\ first \in Nat /\ k \in Nat
    BY <1>2, <1>3, <1>5, Zenon
  <2> QED
    BY <2>1, SMTT(20)
<1> QED
  BY <1>4, <1>6, Zenon

\* What is written over the beginning of an old file leaves its end.
LEMMA OverOld ==
    ASSUME NEW enc, NEW bytes \in Seq(Byte), NEW text, NEW old \in Seq(Byte),
           Spells(enc, bytes, text)
    PROVE  BeginsWith(enc, bytes \o SubSeq(old, Len(bytes) + 1, Len(old)), text, old)
<1> DEFINE n == Len(bytes)
           m == Len(old)
           rest == SubSeq(old, n + 1, m)
           all == bytes \o rest
<1>1. n \in Nat /\ m \in Nat
  BY LenProperties, Zenon
<1>2. Offset(enc, text)[Len(text)] = n
  BY Zenon DEF Spells
<1> HIDE DEF n, m
<1>3. rest \in Seq(Byte)
  BY <1>1, SMTT(20) DEF m
<1>4. /\ n < m => Len(rest) = m - n /\ \A i \in 1..(m - n) : rest[i] = old[n + i]
      /\ ~(n < m) => Len(rest) = 0
  <2>1. CASE n < m
    <3>1. n \in Nat /\ m \in Nat /\ n <= m /\ m <= Len(old)
      BY <1>1, <2>1, SMTT(20) DEF m
    <3> QED
      BY <2>1, <3>1, Piece, Zenon
  <2>2. CASE ~(n < m)
    <3>1. rest = <<>>
      BY <1>1, <2>2, SMTT(20) DEF m
    <3> HIDE DEF rest
    <3>2. Len(rest) = 0
      BY <3>1, SMTT(20)
    <3> QED
      BY <2>2, <3>2, Zenon
  <2> QED
    BY <2>1, <2>2, Zenon
<1> HIDE DEF rest
<1>5. Len(rest) \in Nat
  BY <1>3, LenProperties, Zenon
<1>6. /\ Len(all) = n + Len(rest)
      /\ \A i \in 1..(n + Len(rest)) : all[i] = IF i <= n THEN bytes[i] ELSE rest[i - n]
  BY <1>3, ConcatProperties, Zenon DEF n
<1>7. SubSeq(all, 1, n) = bytes
  BY <1>3, FirstPart, Zenon DEF n
<1> HIDE DEF all
<1>8. Len(all) >= n
  BY <1>1, <1>5, <1>6, SMTT(20)
<1>9. ASSUME NEW i \in (n + 1)..Len(all) PROVE i <= Len(old) /\ all[i] = old[i]
  <2>1. Len(all) \in Nat /\ i \in Nat /\ n < i /\ i <= n + Len(rest) /\ n < m
    BY <1>1, <1>4, <1>5, <1>6, <1>9, SMTT(20)
  <2>2. Len(rest) = m - n
    BY <1>4, <2>1, Zenon
  <2>3. /\ i <= m /\ i - n \in 1..(m - n) /\ n + (i - n) = i /\ ~(i <= n)
        /\ i \in 1..(n + Len(rest))
    BY <1>1, <2>1, <2>2, SMTT(20)
  <2>4. all[i] = rest[i - n] /\ rest[i - n] = old[n + (i - n)]
    BY <1>4, <1>6, <2>1, <2>3, Zenon
  <2> QED
    BY <2>3, <2>4, Zenon DEF m
<1>10. BeginsWith(enc, all, text, old)
  BY <1>2, <1>7, <1>8, <1>9, Zenon DEF BeginsWith
<1> QED
  BY <1>10, Zenon DEF all, rest, n, m


\* A turn that ends a conversion has read a unit that is a line end.
LEMMA StoppingUnit ==
    ASSUME TypeOK, ToUtf8 \/ SwapUnits, pc' = "idle"
    PROVE  /\ Done(out) /\ pos < Len(file) /\ from \in {"UTF16LE", "UTF16BE"} /\ from # "UTF8"
           /\ pos + 2 <= Len(file) => Stops(Value(from, file[pos + 1], file[pos + 2]))
<1> DEFINE a == file[pos + 1]
           b == file[pos + 2]
<1>1. /\ file \in Seq(Byte) /\ pos \in Nat /\ buf \in [1..4 -> Byte] /\ buf \in Buffer
  BY Zenon DEF TypeOK, Buffer
<1>2. pos < Len(file) /\ pc = "convert" /\ pc # "idle"
  <2>1. "convert" # "idle"
    OBVIOUS
  <2> QED
    BY <2>1, Zenon DEF ToUtf8, SwapUnits, Reads
<1>3. pos + 2 <= Len(file) => Raw[1] = a /\ Raw[2] = b /\ a \in Byte /\ b \in Byte
  BY <1>1, UnitRead, Zenon
<1>4. Raw \in Buffer
  BY <1>1, FilledType, SMTT(20) DEF Raw
<1>5. CASE ToUtf8
  <2>1. Done(out) /\ Stops(Upper(Raw)) /\ from \in Encodings /\ from # "UTF8"
    <3>1. Done(out) /\ Stops(Upper(Raw)) /\ from # "UTF8"
      BY <1>2, <1>5, Zenon DEF ToUtf8, Raw
    <3>2. from \in Encodings
      BY <1>2, SMTT(20) DEF TypeOK
    <3> QED
      BY <3>1, <3>2, Zenon
  <2>2. from \in {"UTF16LE", "UTF16BE"}
    BY <2>1, SMTT(20) DEF Encodings
  <2>3. ASSUME pos + 2 <= Len(file) PROVE Stops(Value(from, a, b))
    <3>1. Upper(Raw) = a + 256 * b /\ a \in Byte /\ b \in Byte
      BY <1>3, <2>3, SMTT(20) DEF Upper
    <3> HIDE DEF a, b
    <3>2. Stops(a + 256 * b) <=> Stops(Value(from, a, b))
      BY <2>2, <3>1, UnitKinds, SMTT(20)
    <3> QED
      BY <2>1, <3>1, <3>2, SMTT(20)
  <2> QED
    BY <1>2, <2>1, <2>2, <2>3, Zenon
<1>6. CASE SwapUnits
  <2> DEFINE one == Reversed(Raw, 1)
  <2>1. Done(out) /\ Stops(Upper(one)) /\ {from, to} = {"UTF16LE", "UTF16BE"}
    BY <1>2, <1>6, Zenon DEF SwapUnits, Raw
  <2>2. (from = "UTF16LE" /\ to = "UTF16BE") \/ (from = "UTF16BE" /\ to = "UTF16LE")
    BY <2>1, SMTT(20)
  <2>3. from \in {"UTF16LE", "UTF16BE"} /\ to \in {"UTF16LE", "UTF16BE"} /\ from # "UTF8"
    BY <2>2, SMTT(20)
  <2>4. one[1] = Raw[2] /\ one[2] = Raw[1]
    BY <1>4, SMTT(20) DEF Reversed, Buffer
  <2> HIDE DEF one
  <2>5. ASSUME pos + 2 <= Len(file) PROVE Stops(Value(from, a, b))
    <3>1. Upper(one) = b + 256 * a /\ a \in Byte /\ b \in Byte
      BY <1>3, <2>4, <2>5, SMTT(20) DEF Upper
    <3>2. Value(to, b, a) = Value(from, a, b)
      BY <2>2, <3>1, SwappedValue, Zenon
    <3> HIDE DEF a, b
    <3>3. Stops(b + 256 * a) <=> Stops(Value(to, b, a))
      BY <2>3, <3>1, UnitKinds, SMTT(20)
    <3> QED
      BY <2>1, <3>1, <3>2, <3>3, SMTT(20)
  <2> QED
    BY <1>2, <2>1, <2>3, <2>5, Zenon
<1> QED
  BY <1>5, <1>6, Zenon

\* In a file that is not cut off that is a character of the text.
LEMMA EndsAtLineEnd ==
    ASSUME TypeOK, FileInv, Clear, Whole, ToUtf8 \/ SwapUnits, pc' = "idle",
           NEW k \in Places, Progress(k)
    PROVE  Done(out) /\ k < Len(Content) /\ Behind(k) /\ Stops(Content[k + 1])
<1>1. FirstRun
  BY Zenon DEF Clear
<1>2. Behind(k) \/ Within(k)
  BY <1>1, WholeIsNotCut, Zenon DEF Progress
<1>3. /\ Content \in Seq(CodePoint) /\ pos \in Nat /\ Len(file) \in Nat
      /\ user.whole \in Seq(Byte) /\ Spells(from, user.whole, Content)
      /\ Len(file) = Len(user.whole)
  BY <1>1, FileIsThere, LenProperties, Zenon DEF Whole
<1>4. pos < Len(file) /\ from \in {"UTF16LE", "UTF16BE"} /\ from # "UTF8"
  BY StoppingUnit, Zenon
<1> DEFINE p == Place(k)
           q == Place(k + 1)
<1>5. p \in Nat
  BY <1>3, PlacesGrow, Zenon
<1>6. (pos = p \/ pos = p + 2) /\ pos >= p
  <2>1. pos = p \/ pos = p + 2
    BY <1>2, Zenon DEF Behind, Within
  <2> HIDE DEF p
  <2> QED
    BY <1>5, <2>1, SMTT(20)
<1>7. PICK s \in Seq(Byte) :
         /\ Denotes(from, s, Content[k + 1]) /\ q = p + Len(s)
         /\ \A i \in 1..Len(s) : p + i <= Len(file) => file[p + i] = s[i]
  BY <1>1, <1>4, <1>6, NextCharacter, Zenon
<1>8. k \in Nat /\ k < Len(Content)
  BY <1>1, <1>4, <1>6, NextCharacter, Zenon
<1>9. q <= Len(file)
  <2> DEFINE C == Content
             w == user.whole
  <2>1. C \in Seq(CodePoint) /\ w \in Seq(Byte) /\ Spells(from, w, C) /\ k < Len(C) /\ k \in Nat
    BY <1>3, <1>8, Zenon
  <2> HIDE DEF C, w
  <2>2. \E x \in Seq(Byte) :
              /\ Denotes(from, x, C[k + 1])
              /\ Offset(from, C)[k] \in Nat
              /\ Offset(from, C)[k + 1] = Offset(from, C)[k] + Len(x)
              /\ Offset(from, C)[k + 1] <= Len(w)
              /\ \A i \in 1..Len(x) : w[Offset(from, C)[k] + i] = x[i]
    BY <2>1, CharacterBytes, SMTT(60)
  <2> QED
    BY <1>3, <2>2, Zenon DEF Place, C, w
<1> DEFINE cp == Content[k + 1]
<1>10. DenotesUtf16(from, s, cp)
  BY <1>4, <1>7, Zenon DEF Denotes
<1> DEFINE unit == Value(from, s[1], s[2])
<1>11. /\ Len(s) \in {2, 4}
       /\ Len(s) = 2 => unit = cp /\ ~NeedsPair(cp)
       /\ Len(s) = 4 => ~Stops(unit)
  BY <1>4, <1>10, FirstUnit, Zenon
<1> HIDE DEF p, q, cp
<1>12. \A i \in 1..Len(s) : file[p + i] = s[i]
  <2>1. \A n \in {2, 4} : \A i \in 1..n : p + n <= Len(file) => p + i <= Len(file)
    BY <1>3, <1>5, SMTT(20)
  <2> QED
    BY <1>7, <1>9, <1>11, <2>1, Zenon
<1>13. 1 \in 1..Len(s) /\ 2 \in 1..Len(s) /\ (Len(s) = 4 => 3 \in 1..Len(s) /\ 4 \in 1..Len(s))
  <2>1. \A n \in {2, 4} : 1 \in 1..n /\ 2 \in 1..n /\ (n = 4 => 3 \in 1..n /\ 4 \in 1..n)
    BY SMTT(20)
  <2> QED
    BY <1>11, <2>1, Zenon
<1>14. ~Within(k)
  <2> SUFFICES ASSUME Within(k) PROVE FALSE
    OBVIOUS
  <2>1. pos = p + 2 /\ NeedsPair(cp)
    BY Zenon DEF Within, p, cp
  <2>2. Len(s) = 4
    BY <1>11, <2>1, SMTT(20)
  <2>3. pos + 1 = p + 3 /\ pos + 2 = p + 4 /\ pos + 2 <= Len(file)
    BY <1>3, <1>5, <1>7, <1>9, <2>1, <2>2, SMTT(20)
  <2>4. file[pos + 1] = s[3] /\ file[pos + 2] = s[4]
    BY <1>12, <1>13, <2>2, <2>3, Zenon
  <2> QED
    BY <1>10, <2>2, <2>3, <2>4, SecondUnit, StoppingUnit, Zenon
<1>15. Behind(k) /\ pos = p
  BY <1>2, <1>14, Zenon DEF Behind, p
<1>16. Stops(unit)
  <2>1. pos + 2 <= Len(file)
    <3>1. \A n \in {2, 4} : p + n <= Len(file) => p + 2 <= Len(file)
      BY <1>3, <1>5, SMTT(20)
    <3> QED
      BY <1>7, <1>9, <1>11, <1>15, <3>1, Zenon
  <2>2. file[pos + 1] = s[1] /\ file[pos + 2] = s[2]
    BY <1>12, <1>13, <1>15, Zenon
  <2> QED
    BY <2>1, <2>2, StoppingUnit, Zenon
<1> HIDE DEF unit
<1>17. Stops(cp)
  BY <1>11, <1>16, SMTT(20)
<1> QED
  BY <1>8, <1>15, <1>17, StoppingUnit, Zenon DEF cp


\* At the end of a file that is not cut off all of the text is read.
LEMMA EndsBehindAll ==
    ASSUME TypeOK, FileInv, FirstRun, Whole, pos = Len(file), NEW k \in Places, Progress(k)
    PROVE  k = Len(Content) /\ Behind(k)
<1>1. /\ Content \in Seq(CodePoint) /\ Len(Content) \in Nat /\ Spells(from, user.whole, Content)
      /\ Len(file) = Len(user.whole)
  BY FileIsThere, Zenon DEF Whole
<1> DEFINE N == Len(Content)
           a == Place(k)
           q == Place(N)
<1>2. pos = q
  BY <1>1, Zenon DEF Spells, Place
<1>3. N \in Places
  <2>1. N \in 0..N
    BY <1>1, SMTT(20)
  <2> QED
    BY <2>1, Zenon DEF Places
<1>4. a \in Nat /\ q \in Nat /\ (k < N => a < q)
  BY <1>1, <1>3, PlacesGrow, Zenon
<1>5. k = N \/ k < N
  <2>1. N \in Nat /\ k \in 0..N
    BY <1>1, Zenon DEF Places
  <2> HIDE DEF N
  <2> QED
    BY <2>1, SMTT(20)
<1>6. ~Within(k)
  <2> SUFFICES ASSUME Within(k) PROVE FALSE
    OBVIOUS
  <2>1. k < N /\ a <= q /\ q < Place(k + 1) /\ pos # a
    BY <1>1, <1>2, InsidePair, Zenon
  <2>2. N = k
    BY <1>1, <1>3, <2>1, NothingBetween, Zenon
  <2> QED
    BY <1>2, <2>1, <2>2, Zenon
<1>7. Behind(k)
  BY <1>6, WholeIsNotCut, Zenon DEF Progress
<1>8. q = a
  BY <1>2, <1>7, Zenon DEF Behind
<1> HIDE DEF N, a, q
<1>9. k = N
  BY <1>4, <1>5, <1>8, SMTT(20)
<1> QED
  BY <1>7, <1>9, Zenon DEF N

\* What is to be written, once all of the text is read,
LEMMA ConvertedAtEnd ==
    ASSUME user \in Files, Unended(Len(Content))
    PROVE  Converted = Rendering(Prefix(Len(Content)))
<1> DEFINE t == user.text
           C == Content
           n == Len(t)
<1>1. /\ t \in Seq(CodePoint) /\ C \in Seq(CodePoint) /\ Len(C) = n + 1
      /\ \A i \in 1..n : C[i + 1] = t[i]
  BY ContentType, Zenon
<1>2. n \in Nat /\ DOMAIN t = 1..n
  BY <1>1, LenProperties, Zenon
<1> HIDE DEF C, t
<1>3. SubSeq(C, 1, Len(C)) = C /\ SubSeq(t, 1, n) = t
  BY <1>1, SMTT(20)
<1>4. CASE from = "UTF8"
  <2>1. Prefix(Len(Content)) = Content
    BY <1>3, Zenon DEF Prefix, C
  <2> QED
    BY <1>4, <2>1, Zenon DEF Converted
<1>5. CASE from # "UTF8"
  <2> HIDE DEF n
  <2>1. \A i \in 1..n : i + 1 \in 1..(n + 1)
    BY <1>2, SMTT(20)
  <2>2. \A i \in DOMAIN t : ~Stops(t[i])
    <3>1. \A i \in 1..Len(C) : ~Stops(C[i])
      BY <1>5, Zenon DEF Unended, C
    <3> QED
      BY <1>1, <1>2, <2>1, <3>1, Zenon
  <2>3. BeforeLineEnd(t) = t
    BY <2>2, NoLineEnd, Zenon
  <2>4. NoMarks(Prefix(n + 1)) = NoMarks(t)
    <3>1. n < n + 1
      BY <1>2, SMTT(20)
    <3> QED
      BY <1>2, <1>3, <3>1, TextRead, Zenon DEF t, n
  <2> QED
    BY <1>1, <1>5, <2>3, <2>4, Zenon DEF Converted, Rendering, t, C
<1> QED
  BY <1>4, <1>5, Zenon

\* and when the next character is a line end.
LEMMA ConvertedAtLineEnd ==
    ASSUME user \in Files, from # "UTF8", NEW k \in Places, k < Len(Content),
           Unended(k), Stops(Content[k + 1])
    PROVE  Converted = Rendering(Prefix(k))
<1> DEFINE t == user.text
           C == Content
           n == Len(t)
<1>1. /\ t \in Seq(CodePoint) /\ C \in Seq(CodePoint) /\ Len(C) = n + 1 /\ C[1] = Mark
      /\ \A i \in 1..n : C[i + 1] = t[i]
  BY ContentType, Zenon
<1>2. n \in Nat /\ k \in 0..Len(C)
  BY <1>1, LenProperties, Zenon DEF Places
<1>3. ~Stops(Mark)
  BY SMTT(20) DEF Stops, Mark
<1>4. Stops(C[k + 1]) /\ \A i \in 1..k : ~Stops(C[i])
  BY Zenon DEF Unended
<1>5. k < Len(C)
  BY Zenon
<1>6. k # 0
  <2>1. 0 + 1 = 1
    OBVIOUS
  <2> QED
    BY <1>1, <1>3, <1>4, <2>1, Zenon
<1> HIDE DEF C, n
<1>7. /\ k \in 1..n /\ k - 1 \in Nat /\ k - 1 < n + 1 /\ (k - 1) + 1 = k
      /\ \A i \in 1..(k - 1) : i \in 1..n /\ i + 1 \in 1..k
  BY <1>1, <1>2, <1>5, <1>6, SMTT(20)
<1>8. Stops(t[k]) /\ \A i \in 1..(k - 1) : ~Stops(t[i])
  <2>1. \A i \in 1..(k - 1) : C[i + 1] = t[i] /\ ~Stops(C[i + 1])
    BY <1>1, <1>4, <1>7, Zenon
  <2> QED
    BY <1>1, <1>4, <1>7, <2>1, Zenon
<1> HIDE DEF t
<1>9. BeforeLineEnd(t) = SubSeq(t, 1, k - 1)
  BY <1>1, <1>7, <1>8, FirstLineEnd, Zenon DEF n
<1>10. NoMarks(Prefix(k)) = NoMarks(SubSeq(t, 1, k - 1))
  <2>1. NoMarks(Prefix((k - 1) + 1)) = NoMarks(SubSeq(t, 1, k - 1))
    BY <1>7, TextRead, Zenon DEF t, n
  <2> QED
    BY <1>7, <2>1, Zenon
<1> QED
  BY <1>9, <1>10, Zenon DEF Converted, Rendering, t


\* What a file holds.
HeldIn(d, name) == IF name \in DOMAIN d THEN d[name] ELSE <<>>

LEMMA WrittenHeld ==
    ASSUME NEW d, \A n \in DOMAIN d : d[n] \in Seq(Byte), NEW name, NEW bytes \in Seq(Byte)
    PROVE  /\ HeldIn(d, name) \in Seq(Byte)
           /\ name \in DOMAIN Written(d, name, bytes)
           /\ Written(d, name, bytes)[name] =
                 bytes \o SubSeq(HeldIn(d, name), Len(bytes) + 1, Len(HeldIn(d, name)))
<1> DEFINE e == Written(d, name, bytes)
           h == HeldIn(d, name)
<1>1. Len(bytes) \in Nat
  BY LenProperties, Zenon
<1>2. name \in DOMAIN e
  BY Zenon DEF Written
<1>3. e[name] = bytes \o (IF name \in DOMAIN d THEN SubSeq(d[name], Len(bytes) + 1, Len(d[name]))
                          ELSE <<>>)
  BY Zenon DEF Written
<1>4. <<>> \in Seq(Byte) /\ SubSeq(<<>>, Len(bytes) + 1, Len(<<>>)) = <<>>
  BY <1>1, SMTT(20)
<1> HIDE DEF e
<1>5. h \in Seq(Byte)
  BY <1>4, Zenon DEF HeldIn
<1>6. e[name] = bytes \o SubSeq(h, Len(bytes) + 1, Len(h))
  BY <1>3, <1>4, Zenon DEF HeldIn
<1> QED
  BY <1>2, <1>5, <1>6, Zenon DEF e

\* An output file that was only opened holds what it did.
LEMMA OpenedHeld ==
    ASSUME NEW d, \A n \in DOMAIN d : d[n] \in Seq(Byte), NEW name
    PROVE  HeldIn(Written(d, name, <<>>), name) = HeldIn(d, name)
<1> DEFINE z == <<>>
           h == HeldIn(d, name)
<1>1. z \in Seq(Byte) /\ Len(z) = 0
  BY SMTT(20)
<1> HIDE DEF z
<1>2. /\ h \in Seq(Byte) /\ name \in DOMAIN Written(d, name, z)
      /\ Written(d, name, z)[name] = z \o SubSeq(h, Len(z) + 1, Len(h))
  BY <1>1, WrittenHeld, Zenon
<1> HIDE DEF h
<1>3. Len(z) + 1 = 1 /\ SubSeq(h, 1, Len(h)) = h
  BY <1>1, <1>2, SMTT(20)
<1>4. z \o h = h
  BY <1>1, <1>2, SMTT(20) DEF z
<1>5. Written(d, name, z)[name] = h
  BY <1>2, <1>3, <1>4, Zenon
<1> QED
  BY <1>2, <1>5, Zenon DEF HeldIn, z, h

\* Until the first run writes it, the output file is as it was.
DiskInv ==
    /\ commands = <<>> \/ (runs = 1 /\ pc = "parse") =>
           \A n \in Words : n # Source => HeldIn(disk, n) = OldBytes(n)
    /\ pc = "convert" /\ runs = 1 /\ inFile = Source => HeldIn(disk, outFile) = OldBytes(outFile)

LEMMA DiskInit == Init => DiskInv
<1> SUFFICES ASSUME Init PROVE DiskInv
  OBVIOUS
<1>1. /\ pc = "idle"
      /\ disk = [n \in DOMAIN Before \cup {Source} |->
                   IF n = Source THEN SubSeq(user.whole, 1, user.cut) ELSE Before[n]]
  BY Zenon DEF Init
<1>2. ASSUME NEW n, n # Source PROVE HeldIn(disk, n) = OldBytes(n)
  <2>1. n \in DOMAIN disk <=> n \in DOMAIN Before
    BY <1>1, <1>2, Zenon
  <2>2. n \in DOMAIN Before => disk[n] = Before[n]
    BY <1>1, <1>2, Zenon
  <2> QED
    BY <2>1, <2>2, Zenon DEF HeldIn, OldBytes
<1>3. pc # "convert"
  BY <1>1, SMTT(20)
<1> QED
  BY <1>2, <1>3, Zenon DEF DiskInv

LEMMA DiskNext == TypeOK /\ FileInv /\ DiskInv /\ [Next]_vars => DiskInv'
<1> SUFFICES ASSUME TypeOK, FileInv, DiskInv, [Next]_vars PROVE DiskInv'
  OBVIOUS
<1>0. /\ "convert" # "idle" /\ "convert" # "parse" /\ "parse" # "idle" /\ "parse" # "exit"
      /\ "parse" # "crashed" /\ "convert" # "exit" /\ "convert" # "crashed"
  OBVIOUS
<1>1. CASE UNCHANGED vars
  BY <1>1, Zenon DEF vars, arguments, runs, DiskInv
<1>2. CASE Run
  <2>1. /\ commands' = Append(commands, args') /\ pc' = "parse" /\ UNCHANGED disk
    BY <1>2, Zenon DEF Run
  <2>2. commands \in Seq(Commands) /\ args' \in Commands
    BY <1>2, Zenon DEF TypeOK, Run
  <2>3. /\ commands' # <<>> /\ Len(commands') = Len(commands) + 1
        /\ Len(commands) = 0 => commands = <<>>
    BY <2>1, <2>2, SMTT(20)
  <2>4. Len(commands') = 1 => commands = <<>>
    <3>1. Len(commands) \in Nat
      BY <2>2, LenProperties, Zenon
    <3>2. \A n \in Nat : n + 1 = 1 => n = 0
      BY SMTT(20)
    <3> QED
      BY <2>3, <3>1, <3>2, Zenon
  <2> QED
    BY <1>0, <2>1, <2>3, <2>4, Zenon DEF DiskInv, runs
<1>3. CASE Encoding \/ Name \/ Usage \/ Refuse
  <2>1. /\ pc = "parse" /\ (pc' = pc \/ pc' = "exit") /\ UNCHANGED <<disk, commands>>
    BY <1>3, Zenon DEF Encoding, Name, Usage, Refuse, NextArg, Parsed, arguments
  <2> QED
    BY <1>0, <2>1, Zenon DEF DiskInv, runs
<1>4. ASSUME NEW enc \in Encodings, Crash(enc) \/ Start(enc) PROVE DiskInv'
  <2>1. /\ pc = "parse" /\ UNCHANGED <<commands, inFile, outFile>> /\ outFile # NULL
        /\ disk' = Written(disk, outFile, <<>>)
    BY <1>4, Zenon DEF Crash, Start, Opens, Parsed, arguments
  <2>2. pc' = "crashed" \/ (pc' = "convert" /\ inFile # outFile)
    BY <1>4, Zenon DEF Crash, Start
  <2>3. commands # <<>> /\ outFile \in Words /\ \A n \in DOMAIN disk : disk[n] \in Seq(Byte)
    BY <1>0, <2>1, Zenon DEF FileInv, TypeOK
  <2>4. HeldIn(disk', outFile) = HeldIn(disk, outFile)
    BY <2>1, <2>3, OpenedHeld, Zenon
  <2>5. runs = 1 /\ inFile = Source /\ inFile # outFile => HeldIn(disk, outFile) = OldBytes(outFile)
    BY <2>1, <2>3, Zenon DEF DiskInv
  <2> QED
    BY <1>0, <2>1, <2>2, <2>3, <2>4, <2>5, Zenon DEF DiskInv, runs, OldBytes
<1>5. CASE Transcribe \/ AtEnd \/ FromUtf8 \/ SwapUnits \/ ToUtf8
  <2>1. /\ pc = "convert" /\ UNCHANGED <<commands, inFile, outFile>>
        /\ (pc' = pc /\ disk' = disk) \/ pc' = "idle"
    <3>1. CASE Transcribe \/ AtEnd
      BY <3>1, Zenon DEF Transcribe, AtEnd, Done, arguments
    <3>2. CASE FromUtf8
      BY <3>2, Zenon DEF FromUtf8, Reads, arguments
    <3>3. CASE SwapUnits
      BY <3>3, Zenon DEF SwapUnits, Reads, Done, arguments
    <3>4. CASE ToUtf8
      BY <3>4, Zenon DEF ToUtf8, Reads, Done, arguments
    <3> QED
      BY <1>5, <3>1, <3>2, <3>3, <3>4, Zenon
  <2>2. commands # <<>>
    BY <1>0, <2>1, Zenon DEF FileInv
  <2> QED
    BY <1>0, <2>1, <2>2, Zenon DEF DiskInv, runs, OldBytes
<1> QED
  BY <1>1, <1>2, <1>3, <1>4, <1>5, Zenon DEF Next


\* A run that has written all that is to be written leaves it in its file.
LEMMA Finished ==
    ASSUME TypeOK, DiskInv, pc = "convert", runs = 1, inFile = Source, Done(out),
           NEW k \in Places, Behind(k), Converted = Rendering(Prefix(k))
    PROVE  BeginsWith(to, disk'[outFile], Converted, OldBytes(outFile))
<1> DEFINE old == HeldIn(disk, outFile)
<1>1. out \in Seq(Byte) /\ \A n \in DOMAIN disk : disk[n] \in Seq(Byte)
  BY Zenon DEF TypeOK
<1>2. /\ old \in Seq(Byte)
      /\ disk'[outFile] = out \o SubSeq(old, Len(out) + 1, Len(old))
  BY <1>1, WrittenHeld, Zenon DEF Done
<1>3. old = OldBytes(outFile)
  BY Zenon DEF DiskInv
<1>4. Spells(to, out, Converted)
  BY Zenon DEF Behind
<1> HIDE DEF old
<1>5. BeginsWith(to, out \o SubSeq(old, Len(out) + 1, Len(old)), Converted, old)
  BY <1>1, <1>2, <1>4, OverOld, Zenon
<1> QED
  BY <1>2, <1>3, <1>5, Zenon

LEMMA OutputNext ==
    TypeOK /\ FileInv /\ ProgressInv /\ DiskInv /\ OutputComplete /\ [Next]_vars => OutputComplete'
<1> SUFFICES ASSUME TypeOK, FileInv, ProgressInv, DiskInv, OutputComplete, [Next]_vars,
                    pc' = "idle", runs' = 1, Whole', inFile' = Source, from' # to', ~stray',
                    (from # "UTF8" /\ to = "UTF8" => ~MisreadIn(user.text))'
             PROVE  BeginsWith(to, disk[outFile], Converted, OldBytes(outFile))'
  BY Zenon DEF OutputComplete
<1>0. "convert" # "idle" /\ "parse" # "idle" /\ "exit" # "idle" /\ "crashed" # "idle"
  OBVIOUS
<1>1. CASE UNCHANGED vars
  <2>1. UNCHANGED <<user, disk, pc, commands, inFile, outFile, from, to, stray>>
    BY <1>1, Zenon DEF vars, arguments
  <2>2. BeginsWith(to, disk[outFile], Converted, OldBytes(outFile))
    BY <2>1, Zenon DEF OutputComplete, Whole, runs, MisreadIn
  <2>3. Converted' = Converted
    BY <2>1, Zenon DEF Converted, Rendering, Content
  <2> QED
    BY <2>1, <2>2, <2>3, Zenon
<1>2. CASE Run \/ Encoding \/ Usage \/ Name \/ Refuse
  <2>1. pc' \in {"parse", "exit"}
    <3>1. CASE Run \/ Refuse
      BY <3>1, Zenon DEF Run, Refuse
    <3>2. CASE Encoding \/ Usage \/ Name
      BY <3>2, Zenon DEF Encoding, Usage, Name, NextArg
    <3> QED
      BY <1>2, <3>1, <3>2, Zenon
  <2> QED
    BY <1>0, <2>1, Zenon
<1>3. ASSUME NEW enc \in Encodings, Crash(enc) \/ Start(enc) PROVE FALSE
  BY <1>0, <1>3, Zenon DEF Crash, Start
<1>4. CASE Transcribe \/ FromUtf8
  <2>1. ~FromUtf8
    BY <1>0, Zenon DEF FromUtf8, Reads
  <2>2. Transcribe
    BY <1>4, <2>1, Zenon
  <2> QED
    BY <2>2, Zenon DEF Transcribe
<1>5. CASE AtEnd \/ ToUtf8 \/ SwapUnits
  <2>1. pc = "convert" /\ UNCHANGED <<user, commands, inFile, outFile, from, to>>
    <3>1. CASE AtEnd
      BY <3>1, Zenon DEF AtEnd, arguments
    <3>2. CASE ToUtf8
      BY <3>2, Zenon DEF ToUtf8, Reads, arguments
    <3>3. CASE SwapUnits
      BY <3>3, Zenon DEF SwapUnits, Reads, arguments
    <3> QED
      BY <1>5, <3>1, <3>2, <3>3, Zenon
  <2>2. ~stray
    <3>1. CASE AtEnd \/ ToUtf8
      BY <3>1, Zenon DEF AtEnd, ToUtf8
    <3>2. CASE SwapUnits
      BY <3>2, SwapKeepsStray, Zenon
    <3> QED
      BY <1>5, <3>1, <3>2, Zenon
  <2>3. Clear /\ Whole /\ FirstRun /\ runs = 1 /\ inFile = Source
    BY <2>1, <2>2, Zenon DEF Clear, FirstRun, Whole, runs, MisreadIn
  <2>4. PICK k \in Places : Progress(k)
    BY <2>3, Zenon DEF ProgressInv
  <2>5. user \in Files /\ Unended(k)
    BY <2>4, Zenon DEF FileInv, Progress
  <2>6. Done(out) /\ Behind(k) /\ Converted = Rendering(Prefix(k))
    <3>1. CASE AtEnd
      <4>1. Done(out) /\ pos = Len(file)
        BY <3>1, Zenon DEF AtEnd
      <4>2. k = Len(Content) /\ Behind(k)
        BY <2>3, <2>4, <4>1, EndsBehindAll, Zenon
      <4> QED
        BY <2>5, <4>1, <4>2, ConvertedAtEnd, Zenon
    <3>2. CASE ToUtf8 \/ SwapUnits
      <4>1. Done(out) /\ k < Len(Content) /\ Behind(k) /\ Stops(Content[k + 1])
        BY <2>3, <2>4, <3>2, EndsAtLineEnd, Zenon
      <4>2. from # "UTF8"
        BY <3>2, StoppingUnit, Zenon
      <4> QED
        BY <2>5, <4>1, <4>2, ConvertedAtLineEnd, Zenon
    <3> QED
      BY <1>5, <3>1, <3>2, Zenon
  <2>7. BeginsWith(to, disk'[outFile], Converted, OldBytes(outFile))
    BY <2>1, <2>3, <2>6, Finished, Zenon
  <2>8. Converted' = Converted
    BY <2>1, Zenon DEF Converted, Rendering, Content
  <2> QED
    BY <2>1, <2>7, <2>8, Zenon
<1> QED
  BY <1>1, <1>2, <1>3, <1>4, <1>5, Zenon DEF Next

\* A first run over a user's file that is not cut off leaves all of the text in its
\* output file, up to the first line end if it comes from UTF-16, and what follows
\* is the rest of what the file held before: for any text and any such file, but
\* for the characters that are misread and the memory that is not initialized.
THEOREM OutputIsComplete == Spec => []OutputComplete
<1>1. Init => ProgressInv /\ OutputComplete
  <2> SUFFICES ASSUME Init PROVE ProgressInv /\ OutputComplete
    OBVIOUS
  <2>1. pc = "idle" /\ runs = 0
    BY SMTT(20) DEF Init, runs
  <2>2. "idle" # "convert" /\ 0 # 1
    OBVIOUS
  <2> QED
    BY <2>1, <2>2, Zenon DEF ProgressInv, Clear, FirstRun, OutputComplete
<1>2. TypeOK /\ FileInv /\ ProgressInv /\ [Next]_vars => FileInv' /\ ProgressInv'
  BY FileNext, ProgressNext
<1> QED
  BY <1>1, <1>2, TypeCorrect, FileInit, DiskInit, DiskNext, OutputNext, PTL DEF Spec

-----------------------------------------------------------------------------
(* The arguments *)

LEMMA GreatestNumber ==
    ASSUME NEW n \in Nat, NEW T, T \subseteq 0..n, T # {}
    PROVE  \E x \in T : \A y \in T : y <= x
<1> DEFINE U == {n - x : x \in T}
<1>1. U \subseteq Nat /\ U # {}
  <2>1. \A x \in T : n - x \in Nat
    BY SMTT(20)
  <2>2. PICK x \in T : TRUE
    BY Zenon
  <2>3. n - x \in U
    BY Zenon
  <2> QED
    BY <2>1, <2>3, Zenon
<1>2. PICK u \in U : \A v \in U : u <= v
  <2> HIDE DEF U
  <2> QED
    BY <1>1, LeastNumber, Zenon
<1>3. PICK x \in T : u = n - x
  BY <1>2
<1>4. \A y \in T : u <= n - y
  BY <1>2
<1>5. \A y \in T : y <= x
  <2> SUFFICES ASSUME NEW y \in T PROVE y <= x
    OBVIOUS
  <2>1. n - x <= n - y
    BY <1>3, <1>4
  <2> QED
    BY <2>1, SMTT(20)
<1> QED
  BY <1>5, Zenon

\* An option takes the word behind it, so a -e is one unless it is taken itself.
LEMMA FlagSteps ==
    ASSUME NEW c, NEW i \in Nat, i >= 1
    PROVE  IsFlag(c, i) <=> c[i] = "-e" /\ (i > 1 => ~IsFlag(c, i - 1))
<1> DEFINE words(k) == {j \in 0..(k - 1) : j = 0 \/ c[j] # "-e"}
           last(k) == CHOOSE j \in words(k) : \A m \in words(k) : m <= j
<1>1. \A k : IsFlag(c, k) <=> c[k] = "-e" /\ (k - last(k)) % 2 = 1
  BY Zenon DEF IsFlag
<1>2. ASSUME NEW k \in Nat, k >= 1
      PROVE  last(k) \in words(k) /\ \A m \in words(k) : m <= last(k)
  <2> DEFINE T == words(k)
             n == k - 1
  <2>1. n \in Nat /\ T \subseteq 0..n /\ T # {}
    <3>1. n \in Nat /\ 0 \in 0..n
      BY <1>2, SMTT(20)
    <3>2. 0 \in T
      BY <3>1, Zenon
    <3> QED
      BY <3>1, <3>2, Zenon
  <2>2. \E x \in T : \A y \in T : y <= x
    <3> HIDE DEF T, n
    <3> QED
      BY <2>1, GreatestNumber, Zenon
  <2> QED
    BY <2>2, Zenon
<1>3. CASE i = 1
  <2>1. last(i) \in words(i)
    BY <1>2, Zenon
  <2> HIDE DEF last
  <2>2. last(i) \in 0..(i - 1)
    BY <2>1, Zenon
  <2>3. (i - last(i)) % 2 = 1 /\ ~(i > 1)
    BY <1>3, <2>2, SMTT(20)
  <2> QED
    BY <1>1, <2>3, Zenon
<1>4. CASE i > 1 /\ c[i - 1] # "-e"
  <2>1. i - 1 \in words(i)
    <3>1. i - 1 \in 0..(i - 1)
      BY <1>4, SMTT(20)
    <3> QED
      BY <1>4, <3>1, Zenon
  <2>2. last(i) \in words(i) /\ i - 1 <= last(i)
    BY <1>2, <2>1, Zenon
  <2> HIDE DEF last
  <2>3. last(i) \in 0..(i - 1)
    BY <2>2, Zenon
  <2>4. (i - last(i)) % 2 = 1
    <3>1. last(i) = i - 1
      BY <2>2, <2>3, SMTT(20)
    <3> QED
      BY <3>1, SMTT(20)
  <2>5. ~IsFlag(c, i - 1)
    BY <1>1, <1>4, Zenon
  <2> QED
    BY <1>1, <2>4, <2>5, Zenon
<1>5. CASE i > 1 /\ c[i - 1] = "-e"
  <2>1. i - 1 \in Nat /\ i - 1 >= 1 /\ i - 1 # 0
        /\ \A j : j \in 0..(i - 1) <=> j \in 0..((i - 1) - 1) \/ j = i - 1
    BY <1>5, SMTT(20)
  <2>2. words(i) = words(i - 1)
    BY <1>5, <2>1, Zenon
  <2>3. last(i) = last(i - 1)
    BY <2>2, Zenon
  <2>4. last(i - 1) \in words(i - 1)
    BY <1>2, <2>1, Zenon
  <2> DEFINE l == last(i - 1)
  <2> HIDE DEF last
  <2>5. l \in 0..((i - 1) - 1)
    BY <2>4, Zenon
  <2> HIDE DEF l
  <2>6. (i - l) % 2 = 1 <=> ~(((i - 1) - l) % 2 = 1)
    <3>1. \A m \in Nat : (m + 1) % 2 = 1 <=> ~(m % 2 = 1)
      BY SMTT(20)
    <3>2. (i - 1) - l \in Nat /\ ((i - 1) - l) + 1 = i - l
      BY <2>1, <2>5, SMTT(20)
    <3> QED
      BY <3>1, <3>2, Zenon
  <2> QED
    BY <1>1, <1>5, <2>3, <2>6, Zenon DEF l
<1> QED
  <2>1. i = 1 \/ i > 1
    BY SMTT(20)
  <2> QED
    BY <1>3, <1>4, <1>5, <2>1, Zenon

\* How many names there are up to the i-th word.
NamesTo(c, i) == Cardinality(NameSlots(c) \cap 1..i)

LEMMA NamesSteps ==
    ASSUME NEW c, NEW i \in Nat
    PROVE  /\ NamesTo(c, i) \in Nat /\ NamesTo(c, 0) = 0
           /\ NamesTo(c, i + 1) = IF i + 1 \in NameSlots(c) THEN NamesTo(c, i) + 1
                                  ELSE NamesTo(c, i)
<1> DEFINE S == NameSlots(c)
           a == S \cap 1..i
           b == S \cap 1..(i + 1)
<1> HIDE DEF S
<1>1. IsFiniteSet(a)
  <2>1. IsFiniteSet(1..i)
    BY FS_Interval, SMTT(20)
  <2> QED
    BY <2>1, FS_Subset, Zenon
<1>2. Cardinality(a) \in Nat
  BY <1>1, FS_CardinalityType, Zenon
<1>3. S \cap 1..0 = {}
  BY SMTT(20)
<1>4. Cardinality(S \cap 1..0) = 0
  BY <1>3, FS_EmptySet, Zenon
<1>5. i + 1 \notin a /\ b = IF i + 1 \in S THEN a \cup {i + 1} ELSE a
  BY SMTT(20)
<1> HIDE DEF a, b
<1>6. Cardinality(b) = IF i + 1 \in S THEN Cardinality(a) + 1 ELSE Cardinality(a)
  BY <1>1, <1>5, FS_AddElement, Zenon
<1> QED
  BY <1>2, <1>4, <1>6, Zenon DEF NamesTo, S, a, b


\* What the first p words of a line mean: the encoding is the word behind the last
\* option among them, and the k-th name is the k-th word among them that is neither
\* an option nor taken by one.
EncodedAs(c, p, e) ==
    LET flags == {i \in 1..p : IsFlag(c, i)}
    IN  /\ flags = {} => e = "none"
        /\ flags # {} => \E i \in flags :
              /\ \A j \in flags : j <= i
              /\ e = IF c[i + 1] \in Encodings THEN c[i + 1] ELSE "none"
NamedAs(c, p, k, name) ==
    LET slots == {i \in 1..p : i \in NameSlots(c) /\ NamesTo(c, i) = k}
    IN  /\ name = NULL <=> NamesTo(c, p) < k
        /\ name = NULL <=> slots = {}
        /\ \A i \in slots : name = c[i]
NoHelp(c, p) == \A i \in 1..p : c[i] = "-h" => i > 1 /\ IsFlag(c, i - 1)

\* What was read means these, and its last word takes no other.
Read(c, p, e, first, second) ==
    /\ p >= 1 => ~IsFlag(c, p)
    /\ EncodedAs(c, p, e)
    /\ NamedAs(c, p, 1, first) /\ NamedAs(c, p, 2, second)
    /\ NoHelp(c, p)

\* Between two arguments the variables hold what the words up to there mean.
Parsing(c, n, p) ==
    /\ p <= n /\ args = SubSeq(c, p + 1, n)
    /\ Read(c, p, to, inFile, outFile)
ArgsInv ==
    /\ pc = "parse" => commands # <<>> /\ \E p \in Nat : Parsing(commands[runs], Len(commands[runs]), p)
    /\ ArgsAreMeant

LEMMA LineIsThere ==
    ASSUME TypeOK, commands # <<>>
    PROVE  runs \in Nat /\ commands[runs] \in Seq(Words)
<1> DEFINE n == Len(commands)
<1>1. commands \in Seq(Commands)
  BY Zenon DEF TypeOK
<1>2. n \in Nat /\ n \in 1..n
  BY <1>1, SMTT(20)
<1>3. commands[n] \in Commands
  BY <1>1, <1>2, ElementOfSeq, Zenon
<1> QED
  BY <1>2, <1>3, UtfAssumption, Zenon DEF runs

\* What is left of a line.
LEMMA NextWord ==
    ASSUME NEW c \in Seq(Words), NEW p \in Nat, NEW n \in Nat, p <= n, n <= Len(c)
    PROVE  /\ SubSeq(c, p + 1, n) \in Seq(Words) /\ Len(SubSeq(c, p + 1, n)) = n - p
           /\ p < n => /\ SubSeq(c, p + 1, n) # <<>> /\ Head(SubSeq(c, p + 1, n)) = c[p + 1]
                       /\ Tail(SubSeq(c, p + 1, n)) = SubSeq(c, (p + 1) + 1, n)
<1> DEFINE a == SubSeq(c, p + 1, n)
           q == p + 1
<1>1. a \in Seq(Words) /\ Len(a) = n - p /\ \A i \in 1..(n - p) : a[i] = c[p + i]
  BY Piece, Zenon
<1>2. ASSUME p < n
      PROVE  a # <<>> /\ Head(a) = c[q] /\ Tail(a) = SubSeq(c, q + 1, n)
  <2>1. 1 \in 1..(n - p) /\ n - p # 0
    BY <1>2, SMTT(20)
  <2>2. a # <<>>
    <3>1. Len(a) # 0
      BY <1>1, <2>1, Zenon
    <3> HIDE DEF a
    <3> QED
      BY <3>1, SMTT(20)
  <2>3. a[1] = c[q]
    BY <1>1, <2>1, Zenon
  <2>4. Head(a) = a[1] /\ Tail(a) \in Seq(Words) /\ Len(Tail(a)) = Len(a) - 1
        /\ \A i \in 1..Len(Tail(a)) : Tail(a)[i] = a[i + 1]
    <3> HIDE DEF a
    <3>1. Head(a) = a[1]
      BY <1>1, <2>2, SMTT(20)
    <3> QED
      BY <1>1, <2>2, <3>1, HeadTailProperties, Zenon
  <2> DEFINE t == Tail(a)
             b == SubSeq(c, q + 1, n)
  <2>5. q \in Nat /\ q <= n
    BY <1>2, SMTT(20)
  <2>6. b \in Seq(Words) /\ Len(b) = n - q /\ \A i \in 1..(n - q) : b[i] = c[q + i]
    <3> HIDE DEF q
    <3> QED
      BY <2>5, Piece, Zenon
  <2>7. Len(t) = n - q /\ \A i \in 1..(n - q) : i + 1 \in 1..(n - p) /\ p + (i + 1) = q + i
    <3>1. Len(t) = (n - p) - 1
      BY <1>1, <2>4, Zenon
    <3> HIDE DEF t
    <3> QED
      BY <1>2, <3>1, SMTT(20)
  <2>8. \A i \in 1..Len(t) : t[i] = b[i]
    <3> SUFFICES ASSUME NEW i \in 1..Len(t) PROVE t[i] = b[i]
      OBVIOUS
    <3>1. i \in 1..(n - q)
      BY <2>7, Zenon
    <3>2. t[i] = a[i + 1] /\ b[i] = c[q + i]
      BY <2>4, <2>6, <3>1, Zenon
    <3>3. a[i + 1] = c[p + (i + 1)]
      BY <1>1, <2>7, <3>1, Zenon
    <3>4. p + (i + 1) = q + i
      BY <2>7, <3>1, Zenon
    <3> QED
      BY <3>2, <3>3, <3>4, Zenon
  <2>9. t = b
    <3>1. t \in Seq(Words) /\ b \in Seq(Words) /\ Len(t) = Len(b)
      BY <2>4, <2>6, <2>7, Zenon
    <3> HIDE DEF t, b
    <3> QED
      BY <2>8, <3>1, SeqEqual, Zenon
  <2> QED
    BY <2>2, <2>3, <2>4, <2>9, Zenon
<1> QED
  BY <1>1, <1>2, Zenon DEF a, q

LEMMA NextTwoWords ==
    ASSUME NEW c \in Seq(Words), NEW p \in Nat, NEW n \in Nat, p + 2 <= n, n <= Len(c)
    PROVE  /\ SubSeq(c, p + 1, n)[2] = c[p + 2]
           /\ SubSeq(SubSeq(c, p + 1, n), 3, Len(SubSeq(c, p + 1, n)))
                 = SubSeq(c, (p + 2) + 1, n)
<1> DEFINE a == SubSeq(c, p + 1, n)
           l == n - p
           q == p + 2
           b == SubSeq(c, q + 1, n)
           t == SubSeq(a, 2 + 1, l)
<1>1. a \in Seq(Words) /\ Len(a) = l /\ \A i \in 1..l : a[i] = c[p + i]
  <2>1. p <= n
    BY SMTT(20)
  <2> QED
    BY <2>1, Piece, Zenon
<1>2. 2 \in 1..l /\ l - 2 = n - q
      /\ \A i \in 1..(n - q) : 2 + i \in 1..l /\ p + (2 + i) = q + i
  BY SMTT(20)
<1>q. q \in Nat /\ q <= n
  BY SMTT(20)
<1>l. l \in Nat /\ 2 <= l
  BY SMTT(20)
<1>0. 2 \in Nat
  OBVIOUS
<1>3. b \in Seq(Words) /\ Len(b) = n - q /\ \A i \in 1..(n - q) : b[i] = c[q + i]
  <2> HIDE DEF q
  <2> QED
    BY <1>q, Piece, Zenon
<1>4. t \in Seq(Words) /\ Len(t) = l - 2 /\ \A i \in 1..(l - 2) : t[i] = a[2 + i]
  <2>1. l <= Len(a)
    <3> HIDE DEF a, l
    <3> QED
      BY <1>1, <1>l, SMTT(20)
  <2>2. \A m \in Nat : m <= l => /\ SubSeq(a, m + 1, l) \in Seq(Words)
                                  /\ Len(SubSeq(a, m + 1, l)) = l - m
                                  /\ \A i \in 1..(l - m) : SubSeq(a, m + 1, l)[i] = a[m + i]
    <3>1. a \in Seq(Words)
      BY <1>1, Zenon
    <3>2. l \in Nat
      BY <1>l, Zenon
    <3> HIDE DEF a, l
    <3> QED
      BY <2>1, <3>1, <3>2, Piece, Zenon
  <2> HIDE DEF a, l
  <2> QED
    BY <1>0, <1>l, <2>2, Zenon
<1>5. t = b
  <2>1. \A i \in 1..(n - q) : t[i] = b[i]
    <3> SUFFICES ASSUME NEW i \in 1..(n - q) PROVE t[i] = b[i]
      OBVIOUS
    <3>1. i \in 1..(l - 2)
      BY <1>2, Zenon
    <3>2. t[i] = a[2 + i] /\ b[i] = c[q + i]
      BY <1>3, <1>4, <3>1, Zenon
    <3>3. a[2 + i] = c[p + (2 + i)] /\ p + (2 + i) = q + i
      BY <1>1, <1>2, Zenon
    <3> QED
      BY <3>2, <3>3, Zenon
  <2>2. Len(t) = Len(b) /\ \A i \in 1..Len(t) : t[i] = b[i]
    BY <1>2, <1>3, <1>4, <2>1, Zenon
  <2> HIDE DEF t, b
  <2> QED
    BY <1>3, <1>4, <2>2, SeqEqual, Zenon
<1>6. 2 + 1 = 3
  OBVIOUS
<1> QED
  BY <1>1, <1>2, <1>5, <1>6, Zenon DEF a, q, b, t, l


LEMMA NothingRead ==
    ASSUME NEW c
    PROVE  Read(c, 0, "none", NULL, NULL)
<1>1. 1..0 = {} /\ ~(0 >= 1) /\ 0 < 1 /\ 0 < 2
  BY SMTT(20)
<1>2. NamesTo(c, 0) = 0
  <2>1. 0 \in Nat
    OBVIOUS
  <2> QED
    BY <2>1, NamesSteps, Zenon
<1>3. EncodedAs(c, 0, "none")
  BY <1>1, Zenon DEF EncodedAs
<1>4. NamedAs(c, 0, 1, NULL) /\ NamedAs(c, 0, 2, NULL)
  BY <1>1, <1>2, Zenon DEF NamedAs
<1>5. NoHelp(c, 0)
  BY <1>1, Zenon DEF NoHelp
<1> QED
  BY <1>1, <1>3, <1>4, <1>5, Zenon DEF Read

\* A word that is no option changes nothing of the encoding.
LEMMA SameEncoding ==
    ASSUME NEW c, NEW p \in Nat, NEW e, EncodedAs(c, p, e), ~IsFlag(c, p + 1)
    PROVE  EncodedAs(c, p + 1, e)
<1>1. \A i : i \in 1..(p + 1) <=> i \in 1..p \/ i = p + 1
  BY SMTT(20)
<1>2. {i \in 1..(p + 1) : IsFlag(c, i)} = {i \in 1..p : IsFlag(c, i)}
  BY <1>1, Zenon
<1> QED
  BY <1>2, Zenon DEF EncodedAs

LEMMA NewEncoding ==
    ASSUME NEW c, NEW p \in Nat, IsFlag(c, p + 1), ~IsFlag(c, p + 2)
    PROVE  EncodedAs(c, p + 2, IF c[p + 2] \in Encodings THEN c[p + 2] ELSE "none")
<1> DEFINE i == p + 1
           flags == {j \in 1..(p + 2) : IsFlag(c, j)}
<1>1. i \in 1..(p + 2) /\ i + 1 = p + 2
      /\ \A j \in 1..(p + 2) : j <= i \/ j = p + 2
  BY SMTT(20)
<1>2. i \in flags /\ \A j \in flags : j <= i
  BY <1>1, Zenon
<1> QED
  BY <1>1, <1>2, Zenon DEF EncodedAs

LEMMA SameName ==
    ASSUME NEW c, NEW p \in Nat, NEW k, NEW name, NamedAs(c, p, k, name),
           p + 1 \notin NameSlots(c)
    PROVE  NamedAs(c, p + 1, k, name)
<1>1. \A i : i \in 1..(p + 1) <=> i \in 1..p \/ i = p + 1
  BY SMTT(20)
<1>2. {i \in 1..(p + 1) : i \in NameSlots(c) /\ NamesTo(c, i) = k}
        = {i \in 1..p : i \in NameSlots(c) /\ NamesTo(c, i) = k}
  BY <1>1, Zenon
<1>3. NamesTo(c, p + 1) = NamesTo(c, p)
  BY NamesSteps, Zenon
<1> QED
  BY <1>2, <1>3, Zenon DEF NamedAs

\* One more name: it is the k-th if there was one less.
LEMMA NewName ==
    ASSUME NEW c, NEW p \in Nat, NEW k \in Nat, NEW name, NamedAs(c, p, k, name),
           p + 1 \in NameSlots(c), c[p + 1] # NULL
    PROVE  NamedAs(c, p + 1, k, IF NamesTo(c, p) + 1 = k THEN c[p + 1] ELSE name)
<1> DEFINE m == NamesTo(c, p)
           old == {i \in 1..p : i \in NameSlots(c) /\ NamesTo(c, i) = k}
           new == {i \in 1..(p + 1) : i \in NameSlots(c) /\ NamesTo(c, i) = k}
<1>1. \A i : i \in 1..(p + 1) <=> i \in 1..p \/ i = p + 1
  BY SMTT(20)
<1>2. m \in Nat /\ NamesTo(c, p + 1) = m + 1
  BY NamesSteps, Zenon
<1>3. name = NULL <=> m < k
  BY Zenon DEF NamedAs
<1>4. name = NULL <=> old = {}
  BY Zenon DEF NamedAs
<1>5. \A i \in old : name = c[i]
  BY Zenon DEF NamedAs
<1>6. CASE m + 1 = k
  <2>1. m < k /\ ~(m + 1 < k)
    <3> HIDE DEF m
    <3> QED
      BY <1>2, <1>6, SMTT(20)
  <2>2. new = {p + 1}
    BY <1>1, <1>2, <1>3, <1>4, <1>6, <2>1, Zenon
  <2> HIDE DEF m
  <2> QED
    BY <1>2, <1>6, <2>1, <2>2, Zenon DEF NamedAs, m
<1>7. CASE m + 1 # k
  <2>1. m < k <=> m + 1 < k
    <3> HIDE DEF m
    <3> QED
      BY <1>2, <1>7, SMTT(20)
  <2>2. new = old
    BY <1>1, <1>2, <1>7, Zenon
  <2> QED
    BY <1>2, <1>3, <1>4, <1>5, <1>7, <2>1, <2>2, Zenon DEF NamedAs
<1> QED
  BY <1>6, <1>7, Zenon


\* An option and the word it takes.
LEMMA OptionRead ==
    ASSUME NEW c, NEW p \in Nat, NEW e, NEW first, NEW second,
           Read(c, p, e, first, second), c[p + 1] = "-e"
    PROVE  Read(c, p + 2, IF c[p + 2] \in Encodings THEN c[p + 2] ELSE "none", first, second)
<1> DEFINE q == p + 1
<1>1. q \in Nat /\ q + 1 = p + 2 /\ q >= 1 /\ p + 2 \in Nat /\ p + 2 >= 1 /\ q - 1 = p
      /\ (q > 1 => p >= 1) /\ p + 2 > 1 /\ (p + 2) - 1 = q
  BY SMTT(20)
<1>2. IsFlag(c, q)
  BY <1>1, FlagSteps, Zenon DEF Read
<1>3. ~IsFlag(c, p + 2)
  BY <1>1, <1>2, FlagSteps, Zenon
<1>4. q \notin NameSlots(c) /\ p + 2 \notin NameSlots(c)
  <2>1. "-e" \in Options
    BY Zenon DEF Options
  <2> QED
    BY <1>1, <1>2, <2>1, Zenon DEF NameSlots
<1>5. NamedAs(c, p + 2, 1, first) /\ NamedAs(c, p + 2, 2, second)
  <2>1. NamedAs(c, q, 1, first) /\ NamedAs(c, q, 2, second)
    BY <1>4, SameName, Zenon DEF Read
  <2>2. q + 1 \notin NameSlots(c)
    BY <1>1, <1>4, Zenon
  <2> HIDE DEF q
  <2>3. NamedAs(c, q + 1, 1, first) /\ NamedAs(c, q + 1, 2, second)
    BY <1>1, <2>1, <2>2, SameName, Zenon
  <2> QED
    BY <1>1, <2>3, Zenon
<1>6. EncodedAs(c, p + 2, IF c[p + 2] \in Encodings THEN c[p + 2] ELSE "none")
  BY <1>2, <1>3, NewEncoding, Zenon
<1>7. NoHelp(c, p + 2)
  <2>1. \A i \in 1..(p + 2) : i \in 1..p \/ i = q \/ i = p + 2
    BY SMTT(20)
  <2>2. "-e" # "-h"
    OBVIOUS
  <2> QED
    BY <1>1, <1>2, <2>1, <2>2, Zenon DEF NoHelp, Read
<1> QED
  BY <1>3, <1>5, <1>6, <1>7, Zenon DEF Read

\* A name: the first or the second, or one too many.
LEMMA NameRead ==
    ASSUME NEW c, NEW p \in Nat, NEW e, NEW first, NEW second,
           Read(c, p, e, first, second), p + 1 \in DOMAIN c, c[p + 1] \notin Options,
           c[p + 1] # NULL
    PROVE  Read(c, p + 1, e, IF first = NULL THEN c[p + 1] ELSE first,
                IF first # NULL /\ second = NULL THEN c[p + 1] ELSE second)
<1> DEFINE q == p + 1
           m == NamesTo(c, p)
<1>1. q >= 1 /\ q \in Nat /\ q - 1 = p /\ (q > 1 => p >= 1) /\ 1 \in Nat /\ 2 \in Nat
  BY SMTT(20)
<1>2. ~IsFlag(c, q) /\ c[q] # "-h"
  <2>1. "-e" \in Options /\ "-h" \in Options
    BY Zenon DEF Options
  <2> QED
    BY <1>1, <2>1, FlagSteps, Zenon
<1>3. q \in NameSlots(c)
  BY <1>1, Zenon DEF NameSlots, Read
<1>4. m \in Nat /\ (first = NULL <=> m < 1) /\ (second = NULL <=> m < 2)
  BY NamesSteps, Zenon DEF Read, NamedAs
<1>5. (first = NULL <=> m + 1 = 1) /\ (first # NULL /\ second = NULL <=> m + 1 = 2)
  <2> HIDE DEF m
  <2> QED
    BY <1>4, SMTT(20)
<1>6. NamedAs(c, q, 1, IF m + 1 = 1 THEN c[q] ELSE first)
  BY <1>1, <1>3, NewName, Zenon DEF Read
<1>7. NamedAs(c, q, 2, IF m + 1 = 2 THEN c[q] ELSE second)
  BY <1>1, <1>3, NewName, Zenon DEF Read
<1>8. EncodedAs(c, q, e)
  BY <1>2, SameEncoding, Zenon DEF Read
<1>9. NoHelp(c, q)
  <2>1. \A i \in 1..q : i \in 1..p \/ i = q
    BY SMTT(20)
  <2> QED
    BY <1>2, <2>1, Zenon DEF NoHelp, Read
<1>10. (IF first = NULL THEN c[q] ELSE first) = (IF m + 1 = 1 THEN c[q] ELSE first)
       /\ (IF first # NULL /\ second = NULL THEN c[q] ELSE second)
             = (IF m + 1 = 2 THEN c[q] ELSE second)
  BY <1>5, Zenon
<1> QED
  BY <1>2, <1>6, <1>7, <1>8, <1>9, <1>10, Zenon DEF Read

\* A line that was read to its end is what it means.
LEMMA LineRead ==
    ASSUME NEW c \in Seq(Words), NEW n \in Nat, n = Len(c), NEW e, NEW first, NEW second,
           Read(c, n, e, first, second)
    PROVE  /\ first = NameOf(c, 1) /\ second = NameOf(c, 2) /\ e = EncodingOf(c)
           /\ "-h" \in {c[i] : i \in DOMAIN c} =>
                 \E i \in DOMAIN c : c[i] = "-h" /\ i > 1 /\ IsFlag(c, i - 1)
<1>1. DOMAIN c = 1..n
  BY LenProperties, Zenon
<1>2. ASSUME NEW k, NEW name, NamedAs(c, n, k, name)
      PROVE  name = NameOf(c, k)
  <2> DEFINE slots == {i \in NameSlots(c) : Cardinality(NameSlots(c) \cap 1..i) = k}
             s == {i \in 1..n : i \in NameSlots(c) /\ NamesTo(c, i) = k}
  <2>1. slots = s
    BY <1>1, Zenon DEF NameSlots, NamesTo
  <2>2. (name = NULL <=> s = {}) /\ \A i \in s : name = c[i]
    BY <1>2, Zenon DEF NamedAs
  <2>3. NameOf(c, k) = IF slots = {} THEN NULL ELSE c[CHOOSE i \in slots : TRUE]
    BY Zenon DEF NameOf
  <2>4. s # {} => (CHOOSE i \in s : TRUE) \in s
    BY Zenon
  <2> HIDE DEF slots, s
  <2>5. CASE s = {}
    BY <2>1, <2>2, <2>3, <2>5, Zenon
  <2>6. CASE s # {}
    <3> DEFINE i == CHOOSE x \in s : TRUE
    <3>1. NameOf(c, k) = c[i]
      BY <2>1, <2>3, <2>6, Zenon
    <3>2. i \in s
      BY <2>4, <2>6, Zenon
    <3> HIDE DEF i
    <3> QED
      BY <2>2, <3>1, <3>2, Zenon
  <2> QED
    BY <2>5, <2>6, Zenon
<1>3. e = EncodingOf(c)
  <2> DEFINE flags == {i \in 1..n : IsFlag(c, i)}
             l == LastFlag(c)
  <2>1. l = {i \in flags : \A j \in flags : j <= i}
    BY <1>1, Zenon DEF LastFlag
  <2>2. EncodingOf(c) = IF \E i \in l : c[i + 1] \in Encodings
                        THEN c[(CHOOSE i \in l : TRUE) + 1] ELSE "none"
    BY Zenon DEF EncodingOf
  <2>3. CASE flags = {}
    <3>1. e = "none"
      BY <2>3, Zenon DEF Read, EncodedAs
    <3> QED
      BY <2>1, <2>2, <2>3, <3>1, Zenon
  <2>4. CASE flags # {}
    <3>1. PICK i \in flags : /\ \A j \in flags : j <= i
                             /\ e = IF c[i + 1] \in Encodings THEN c[i + 1] ELSE "none"
      BY <2>4, Zenon DEF Read, EncodedAs
    <3>2. \A x \in l : x = i
      <4> SUFFICES ASSUME NEW x \in l PROVE x = i
        OBVIOUS
      <4>1. x \in 1..n /\ i \in 1..n /\ x <= i /\ i <= x
        BY <2>1, <3>1, Zenon
      <4> QED
        BY <4>1, SMTT(20)
    <3>3. i \in l
      BY <2>1, <3>1, Zenon
    <3>4. (CHOOSE x \in l : TRUE) = i
      BY <3>2, <3>3, Zenon
    <3> HIDE DEF l, flags
    <3> QED
      BY <2>2, <3>1, <3>2, <3>3, <3>4, Zenon
  <2> QED
    BY <2>3, <2>4, Zenon
<1>4. ASSUME "-h" \in {c[i] : i \in DOMAIN c}
      PROVE  \E i \in DOMAIN c : c[i] = "-h" /\ i > 1 /\ IsFlag(c, i - 1)
  BY <1>1, <1>4, Zenon DEF Read, NoHelp
<1> QED
  BY <1>2, <1>3, <1>4, Zenon DEF Read


LEMMA ArgsInit == Init => ArgsInv
<1> SUFFICES ASSUME Init PROVE ArgsInv
  OBVIOUS
<1>1. pc = "idle"
  BY Zenon DEF Init
<1>2. pc # "parse" /\ pc \notin {"convert", "crashed"}
  BY <1>1
<1> QED
  BY <1>2, Zenon DEF ArgsInv, ArgsAreMeant

\* What the next word of a line is, as the program sees it.
LEMMA NextArgIs ==
    ASSUME TypeOK, ArgsInv, NextArg
    PROVE  \E n \in Nat, p \in Nat :
              LET c == commands[runs]
              IN  /\ c \in Seq(Words) /\ n = Len(c) /\ Parsing(c, n, p) /\ p < n
                  /\ commands # <<>>
                  /\ p + 1 \in DOMAIN c /\ Head(args) = c[p + 1]
                  /\ Len(args) = n - p /\ Tail(args) = SubSeq(c, (p + 1) + 1, n)
<1> DEFINE c == commands[runs]
           n == Len(c)
<1>1. commands # <<>> /\ \E p \in Nat : Parsing(c, n, p)
  BY Zenon DEF ArgsInv, NextArg
<1>2. c \in Seq(Words)
  BY <1>1, LineIsThere, Zenon
<1>3. n \in Nat /\ DOMAIN c = 1..n
  BY <1>2, LenProperties, Zenon
<1>n. n <= Len(c)
  <2> HIDE DEF c
  <2> QED
    BY <1>2, SMTT(20)
<1>4. PICK p \in Nat : Parsing(c, n, p)
  BY <1>1, Zenon
<1> HIDE DEF c, n
<1>5. p <= n /\ args = SubSeq(c, p + 1, n)
  BY <1>4, Zenon DEF Parsing
<1>6. Len(args) = n - p
  BY <1>2, <1>3, <1>n, <1>5, NextWord, Zenon
<1>7. p < n
  <2>1. args # <<>> /\ args \in Seq(Words)
    BY Zenon DEF NextArg, TypeOK
  <2>2. Len(args) # 0
    BY <2>1, EmptySeq, SMTT(20)
  <2> QED
    BY <1>3, <1>5, <1>6, <2>2, SMTT(20)
<1>8. Head(args) = c[p + 1] /\ Tail(args) = SubSeq(c, (p + 1) + 1, n)
  BY <1>2, <1>3, <1>n, <1>5, <1>7, NextWord, Zenon
<1>9. p + 1 \in DOMAIN c
  <2>1. p + 1 \in 1..n
    BY <1>3, <1>7, SMTT(20)
  <2> QED
    BY <1>3, <2>1, Zenon
<1> QED
  BY <1>1, <1>2, <1>3, <1>4, <1>6, <1>7, <1>8, <1>9, Zenon DEF c, n

LEMMA ArgsNext == TypeOK /\ ArgsInv /\ [Next]_vars => ArgsInv'
<1> SUFFICES ASSUME TypeOK, ArgsInv, [Next]_vars PROVE ArgsInv'
  OBVIOUS
<1> DEFINE c == commands[runs]
<1>p. "parse" \notin {"convert", "crashed"} /\ "exit" \notin {"parse", "convert", "crashed"}
      /\ "idle" \notin {"parse", "convert", "crashed"} /\ "convert" # "parse"
      /\ "crashed" # "parse" /\ "convert" # "crashed"
  OBVIOUS
\* A step that leaves the line and what it means alone.
<1>s. ASSUME UNCHANGED <<commands, args, inFile, outFile, to, pc>>
      PROVE  ArgsInv'
  BY <1>s, Zenon DEF ArgsInv, ArgsAreMeant, Parsing, runs
<1>e. ASSUME pc' \in {"exit", "idle"}
      PROVE  ArgsInv'
  <2>1. pc' # "parse" /\ pc' \notin {"convert", "crashed"}
    BY <1>e, <1>p, Zenon
  <2> QED
    BY <2>1, Zenon DEF ArgsInv, ArgsAreMeant
\* The whole line was read.
<1>f. ASSUME Parsed, UNCHANGED <<commands, inFile, outFile, to>>, pc' \in {"convert", "crashed"},
             pc' = "crashed" <=> to = "none"
      PROVE  ArgsInv'
  <2> DEFINE n == Len(c)
  <2>1. commands # <<>> /\ \E p \in Nat : Parsing(c, n, p)
    BY <1>f, Zenon DEF ArgsInv, Parsed
  <2>2. c \in Seq(Words)
    BY <2>1, LineIsThere, Zenon
  <2>3. n \in Nat
    BY <2>2, LenProperties, Zenon
  <2>4. PICK p \in Nat : Parsing(c, n, p)
    BY <2>1, Zenon
  <2>5. p = n
    <3> HIDE DEF c
    <3>1. n <= Len(c)
      BY <2>2, SMTT(20)
    <3>2. p <= n
      BY <2>4, Zenon DEF Parsing
    <3>3. args = SubSeq(c, p + 1, n) /\ args = <<>>
      BY <1>f, <2>4, Zenon DEF Parsing, Parsed
    <3> HIDE DEF n
    <3>4. Len(SubSeq(c, p + 1, n)) = n - p
      BY <2>2, <2>3, <3>1, <3>2, NextWord, Zenon
    <3>5. Len(args) = n - p /\ Len(args) = 0
      BY <3>3, <3>4, EmptySeq, Zenon
    <3> QED
      BY <2>3, <3>5, SMTT(20)
  <2>6. Read(c, n, to, inFile, outFile)
    BY <2>4, <2>5, Zenon DEF Parsing
  <2>7. /\ inFile = NameOf(c, 1) /\ outFile = NameOf(c, 2) /\ to = EncodingOf(c)
        /\ "-h" \in {c[i] : i \in DOMAIN c} =>
              \E i \in DOMAIN c : c[i] = "-h" /\ i > 1 /\ IsFlag(c, i - 1)
    <3> HIDE DEF c
    <3> QED
      BY <2>2, <2>3, <2>6, LineRead, Zenon
  <2>8. c' = c /\ pc' # "parse"
    BY <1>f, <1>p, Zenon DEF runs
  <2>9. ArgsAreMeant'
    <3> HIDE DEF c
    <3>1. (commands[runs])' = c
      BY <2>8, Zenon DEF c
    <3> QED
      BY <1>f, <2>7, <3>1, Zenon DEF ArgsAreMeant
  <2> QED
    BY <2>8, <2>9, Zenon DEF ArgsInv
<1>1. CASE Run
  <2> DEFINE d == commands'[runs']
             n == Len(d)
  <2>1. commands' # <<>> /\ d = args' /\ d \in Seq(Words)
    <3>1. commands \in Seq(Commands) /\ args' \in Commands /\ commands' = Append(commands, args')
      BY <1>1, Zenon DEF Run, TypeOK
    <3>2. commands' # <<>> /\ commands'[Len(commands')] = args'
      BY <3>1, AppendProperties, SMTT(20)
    <3> QED
      BY <3>1, <3>2, UtfAssumption, Zenon DEF runs
  <2>2. inFile' = NULL /\ outFile' = NULL /\ to' = "none" /\ pc' = "parse"
    BY <1>1, Zenon DEF Run
  <2>3. Read(d, 0, to', inFile', outFile')
    <3> HIDE DEF d
    <3> QED
      BY <2>2, NothingRead, Zenon
  <2>4. n \in Nat /\ 0 <= n /\ args' = SubSeq(d, 0 + 1, n)
    <3> HIDE DEF d
    <3>1. n \in Nat /\ 0 <= n /\ 0 + 1 = 1
      BY <2>1, SMTT(20)
    <3>2. SubSeq(d, 1, n) = d
      BY <2>1, SMTT(20)
    <3> QED
      BY <2>1, <3>1, <3>2, Zenon
  <2>5. 0 \in Nat
    OBVIOUS
  <2>6. \E p \in Nat : p <= n /\ args' = SubSeq(d, p + 1, n) /\ Read(d, p, to', inFile', outFile')
    BY <2>3, <2>4, <2>5, Zenon
  <2>7. ArgsAreMeant'
    BY <1>p, <2>2, Zenon DEF ArgsAreMeant
  <2> QED
    BY <2>1, <2>6, <2>7, Zenon DEF ArgsInv, Parsing
<1>2. CASE Encoding
  <2>1. PICK n \in Nat, p \in Nat :
            /\ c \in Seq(Words) /\ n = Len(c) /\ Parsing(c, n, p) /\ p < n
            /\ commands # <<>>
            /\ p + 1 \in DOMAIN c /\ Head(args) = c[p + 1]
            /\ Len(args) = n - p /\ Tail(args) = SubSeq(c, (p + 1) + 1, n)
    BY <1>2, NextArgIs, Zenon DEF Encoding
  <2>2. /\ Head(args) = "-e" /\ Len(args) >= 2 /\ NextArg
        /\ to' = IF args[2] \in Encodings THEN args[2] ELSE "none"
        /\ args' = SubSeq(args, 3, Len(args))
        /\ UNCHANGED <<pc, commands, inFile, outFile>>
    BY <1>2, Zenon DEF Encoding
  <2>3. p + 2 \in Nat /\ p + 2 <= n
    <3>1. n - p >= 2
      BY <2>1, <2>2, Zenon
    <3> QED
      BY <3>1, SMTT(20)
  <2>4. args = SubSeq(c, p + 1, n) /\ Read(c, p, to, inFile, outFile)
    BY <2>1, Zenon DEF Parsing
  <2> HIDE DEF c
  <2>5. n <= Len(c) /\ n = Len(c) /\ c \in Seq(Words) /\ c[p + 1] = "-e"
    <3>1. n <= n
      BY SMTT(20)
    <3> QED
      BY <2>1, <2>2, <3>1, Zenon
  <2>6. args[2] = c[p + 2] /\ SubSeq(args, 3, Len(args)) = SubSeq(c, (p + 2) + 1, n)
    BY <2>3, <2>4, <2>5, NextTwoWords, Zenon
  <2>7. Read(c, p + 2, IF c[p + 2] \in Encodings THEN c[p + 2] ELSE "none", inFile, outFile)
    BY <2>4, <2>5, OptionRead, Zenon
  <2>8. to' = (IF c[p + 2] \in Encodings THEN c[p + 2] ELSE "none")
        /\ args' = SubSeq(c, (p + 2) + 1, n)
    BY <2>2, <2>6, Zenon
  <2>9. Parsing(c, n, p + 2)'
    <3>1. c' = c
      BY <2>2, Zenon DEF c, runs
    <3>2. Read(c', p + 2, to', inFile', outFile')
      BY <2>2, <2>7, <2>8, <3>1, Zenon
    <3> QED
      BY <2>3, <2>8, <3>1, <3>2, Zenon DEF Parsing
  <2>10. \E q \in Nat : Parsing(commands[runs], Len(commands[runs]), q)'
    <3>1. commands' = commands /\ (commands[runs])' = c'
      BY <2>2, Zenon DEF c
    <3>2. c' = c
      BY <2>2, Zenon DEF c, runs
    <3>3. Len(commands[runs])' = n
      BY <2>5, <3>1, <3>2, Zenon
    <3> QED
      BY <2>3, <2>9, <3>1, <3>3, Zenon
  <2>11. commands' # <<>> /\ ArgsAreMeant'
    BY <1>p, <2>1, <2>2, Zenon DEF ArgsAreMeant, NextArg
  <2> QED
    BY <2>10, <2>11, Zenon DEF ArgsInv
<1>3. CASE Name
  <2>1. PICK n \in Nat, p \in Nat :
            /\ c \in Seq(Words) /\ n = Len(c) /\ Parsing(c, n, p) /\ p < n
            /\ commands # <<>>
            /\ p + 1 \in DOMAIN c /\ Head(args) = c[p + 1]
            /\ Len(args) = n - p /\ Tail(args) = SubSeq(c, (p + 1) + 1, n)
    BY <1>3, NextArgIs, Zenon DEF Name
  <2>2. /\ Head(args) \notin Options /\ NextArg /\ args' = Tail(args)
        /\ inFile' = IF inFile = NULL THEN Head(args) ELSE inFile
        /\ outFile' = IF inFile # NULL /\ outFile = NULL THEN Head(args) ELSE outFile
        /\ UNCHANGED <<pc, commands, to>>
    BY <1>3, Zenon DEF Name
  <2> HIDE DEF c
  <2>3. p + 1 \in Nat /\ p + 1 <= n
    BY <2>1, SMTT(20)
  <2>4. c[p + 1] # NULL
    <3>1. c[p + 1] \in Words
      BY <2>1, ElementOfSeq, LenProperties, Zenon
    <3> QED
      BY <3>1, UtfAssumption, Zenon
  <2>5. Read(c, p + 1, to, IF inFile = NULL THEN c[p + 1] ELSE inFile,
             IF inFile # NULL /\ outFile = NULL THEN c[p + 1] ELSE outFile)
    <3>1. Read(c, p, to, inFile, outFile)
      BY <2>1, Zenon DEF Parsing
    <3>2. p + 1 \in DOMAIN c /\ c[p + 1] \notin Options
      BY <2>1, <2>2, Zenon
    <3> QED
      BY <2>4, <3>1, <3>2, NameRead, Zenon
  <2>6. c' = c
    BY <2>2, Zenon DEF c, runs
  <2>7. Parsing(c, n, p + 1)'
    <3>1. Read(c', p + 1, to', inFile', outFile')
      BY <2>1, <2>2, <2>5, <2>6, Zenon
    <3> QED
      BY <2>1, <2>2, <2>3, <2>6, <3>1, Zenon DEF Parsing
  <2>8. \E q \in Nat : Parsing(commands[runs], Len(commands[runs]), q)'
    <3>1. (commands[runs])' = c'
      BY Zenon DEF c
    <3>2. Len(commands[runs])' = n
      BY <2>1, <2>6, <3>1, Zenon
    <3> QED
      BY <2>3, <2>7, <3>1, <3>2, Zenon
  <2>9. commands' # <<>> /\ ArgsAreMeant'
    BY <1>p, <2>1, <2>2, Zenon DEF ArgsAreMeant, NextArg
  <2> QED
    BY <2>8, <2>9, Zenon DEF ArgsInv
<1>4. CASE Usage \/ Refuse
  <2>1. pc' = "exit"
    BY <1>4, Zenon DEF Usage, Refuse
  <2> QED
    BY <1>e, <2>1, Zenon
<1>5. ASSUME NEW enc \in Encodings, Crash(enc) \/ Start(enc)
      PROVE  ArgsInv'
  <2>1. Parsed /\ UNCHANGED <<commands, inFile, outFile, to>> /\ pc' \in {"convert", "crashed"}
        /\ (pc' = "crashed" <=> to = "none")
    BY <1>5, <1>p, Zenon DEF Crash, Start, Opens, arguments
  <2> QED
    BY <1>f, <2>1, Zenon
<1>6. CASE Transcribe \/ FromUtf8 \/ SwapUnits \/ ToUtf8 \/ AtEnd
  <2>1. UNCHANGED <<commands, args, inFile, outFile, to>> /\ (pc' = pc \/ pc' = "idle")
    BY <1>6, Zenon DEF Transcribe, FromUtf8, SwapUnits, ToUtf8, AtEnd, Done, arguments
  <2>2. CASE pc' = pc
    BY <1>s, <2>1, <2>2, Zenon
  <2>3. CASE pc' = "idle"
    BY <1>e, <2>3, Zenon
  <2> QED
    BY <2>1, <2>2, <2>3, Zenon
<1>7. CASE UNCHANGED vars
  BY <1>7, <1>s, Zenon DEF vars, arguments
<1> QED
  BY <1>1, <1>2, <1>3, <1>4, <1>5, <1>6, <1>7, Zenon DEF Next

\* However options and names are mixed, a conversion works on the first two names of
\* its line and with the last encoding in it, and only a line without one crashes:
\* parse_args and getopt, for lines of any length.
THEOREM ArgsMeant == Spec => []ArgsAreMeant
<1>1. ArgsInv => ArgsAreMeant
  BY Zenon DEF ArgsInv
<1> QED
  BY <1>1, ArgsInit, ArgsNext, TypeCorrect, PTL DEF Spec

-----------------------------------------------------------------------------
(* There and back *)

\* The form of bytes is told by the first of them.
Tells(enc, bytes) == bytes # <<>> /\ bytes[1] = Bom(enc)[1]

LEMMA TellsOne ==
    ASSUME NEW a \in Encodings, NEW b \in Encodings, NEW bytes, Tells(a, bytes), Tells(b, bytes)
    PROVE  a = b
<1>1. \A e \in Encodings : Bom(e)[1] = IF e = "UTF8" THEN 239 ELSE IF e = "UTF16LE" THEN 255 ELSE 254
  BY SMTT(20) DEF Bom
<1>2. Bom(a)[1] = Bom(b)[1]
  BY Zenon DEF Tells
<1> QED
  BY <1>1, <1>2, SMTT(20) DEF Encodings

LEMMA TellsStill ==
    ASSUME NEW enc, NEW bytes \in Seq(Byte), Tells(enc, bytes), NEW more \in Seq(Byte)
    PROVE  Tells(enc, bytes \o more)
<1> DEFINE all == bytes \o more
<1>1. /\ all \in Seq(Byte) /\ Len(all) = Len(bytes) + Len(more)
      /\ \A i \in 1..Len(bytes) + Len(more) : all[i] = IF i <= Len(bytes) THEN bytes[i] ELSE more[i - Len(bytes)]
  BY ConcatProperties, Zenon
<1>2. Len(bytes) \in Nat /\ Len(more) \in Nat /\ Len(bytes) # 0
  <2>1. Len(bytes) \in Nat /\ Len(more) \in Nat
    BY LenProperties, Zenon
  <2>2. bytes # <<>>
    BY Zenon DEF Tells
  <2> QED
    BY <2>1, <2>2, EmptySeq, Zenon
<1> HIDE DEF all
<1>3. 1 \in 1..Len(bytes) + Len(more) /\ 1 <= Len(bytes) /\ Len(bytes) + Len(more) # 0
  BY <1>2, SMTT(20)
<1>4. all[1] = bytes[1]
  BY <1>1, <1>3, Zenon
<1>5. all # <<>>
  BY <1>1, <1>3, EmptySeq, Zenon
<1> QED
  BY <1>4, <1>5, Zenon DEF Tells, all

LEMMA BomTells == ASSUME NEW enc PROVE Tells(enc, Bom(enc))
BY SMTT(20) DEF Tells, Bom

\* A file that starts with a mark tells its form.
LEMMA StartTells ==
    ASSUME TypeOK, NEW enc, StartsWith(enc)
    PROVE  Tells(enc, disk[inFile])
<1> DEFINE f == disk[inFile]
           n == Len(Bom(enc))
<1>1. f \in Seq(Byte) /\ Len(f) >= 3 /\ SubSeq(f, 1, n) = Bom(enc)
  BY Zenon DEF StartsWith, TypeOK
<1>2. n \in {2, 3}
  BY SMTT(20) DEF Bom
<1> HIDE DEF f, n
<1>3. SubSeq(f, 1, n)[1] = f[1]
  BY <1>1, <1>2, SMTT(20)
<1>4. f # <<>>
  BY <1>1, SMTT(20)
<1> QED
  BY <1>1, <1>3, <1>4, Zenon DEF Tells, f

\* What is read and what is written begins with its mark, and uninitialized memory
\* only matters between the forms of UTF-16.
MarkInv ==
    pc = "convert" =>
        /\ Tells(from, file)
        /\ from # to => Tells(to, out)
        /\ stray => to # "UTF8"

LEMMA MarkInit == Init => MarkInv
<1>1. "idle" # "convert"
  OBVIOUS
<1> QED
  BY <1>1, Zenon DEF Init, MarkInv

\* A turn writes bytes behind those that are there.
LEMMA TurnWrites ==
    ASSUME TypeOK, FromUtf8 \/ SwapUnits \/ ToUtf8
    PROVE  \E t \in Seq(Byte) : out' = out \o t
<1>0. out \in Seq(Byte) /\ <<>> \in Seq(Byte) /\ out \o <<>> = out
  <2>1. out \in Seq(Byte)
    BY Zenon DEF TypeOK
  <2> QED
    BY <2>1, SMTT(20)
<1>1. CASE FromUtf8
  <2> DEFINE first == Filled(buf, 0, pos, 1)
             more == Remaining(first[1])
             glyph == Filled(first, 1, pos + 1, more)
             n == DecodeUtf8(more + 1, glyph)
  <2>1. out' = out \o EncodeUtf16(to, n)
    BY <1>1, Zenon DEF FromUtf8
  <2>2. file \in Seq(Byte) /\ pos \in Nat /\ buf \in Buffer /\ pos + 1 \in Nat /\ 1 \in Nat /\ 0 \in Nat
    BY SMTT(20) DEF TypeOK, Buffer
  <2>3. more \in Nat /\ more + 1 \in Nat
    <3>1. \A x : Remaining(x) \in Nat /\ Remaining(x) + 1 \in Nat
      BY SMTT(20) DEF Remaining
    <3> QED
      BY <3>1, Zenon
  <2>4. glyph \in Buffer
    <3>1. first \in Buffer
      BY <2>2, FilledType, Zenon
    <3> HIDE DEF first, more
    <3> QED
      BY <2>2, <2>3, <3>1, FilledType, Zenon
  <2> HIDE DEF glyph, more
  <2>5. n \in Nat
    BY <2>3, <2>4, DecodeType, Zenon
  <2> HIDE DEF n
  <2> QED
    BY <2>1, <2>5, EncodeUtf16Type, Zenon
<1>2. CASE SwapUnits
  <2> DEFINE one == Reversed(Raw, 1)
             two == Reversed(Filled(one, 2, pos + 2, 2), 3)
  <2>1. out' = out \/ out' = out \o SubSeq(one, 1, 2) \/ out' = out \o two
    BY <1>2, Zenon DEF SwapUnits, Raw
  <2>2. one \in Buffer /\ two \in Buffer
    <3>1. file \in Seq(Byte) /\ pos \in Nat /\ buf \in Buffer /\ pos + 2 \in Nat
      BY SMTT(20) DEF TypeOK, Buffer
    <3>2. Raw \in Buffer
      BY <3>1, FilledType, SMTT(20) DEF Raw
    <3>3. one \in Buffer
      BY <3>2, ReversedType, SMTT(20)
    <3> HIDE DEF one
    <3>4. Filled(one, 2, pos + 2, 2) \in Buffer
      BY <3>1, <3>3, FilledType, SMTT(20)
    <3> QED
      BY <3>3, <3>4, ReversedType, SMTT(20)
  <2> HIDE DEF one, two
  <2> QED
    BY <1>0, <2>1, <2>2, FirstTwo, Zenon
<1>3. CASE ToUtf8
  <2>1. CASE pc' = "idle"
    <3>1. "idle" # "convert" /\ pc = "convert"
      BY <1>3, Zenon DEF ToUtf8, Reads
    <3>2. out' = out
      BY <1>3, <2>1, <3>1, Zenon DEF ToUtf8
    <3> QED
      BY <1>0, <3>2, Zenon
  <2>2. CASE pc' # "idle"
    <3>1. out' = out \/ \E t \in Seq(Byte) : out' = out \o t
      BY <1>3, <2>2, ToUtf8Turns, Zenon
    <3> QED
      BY <1>0, <3>1, Zenon
  <2> QED
    BY <2>1, <2>2, Zenon
<1> QED
  BY <1>1, <1>2, <1>3, Zenon

LEMMA MarkNext == TypeOK /\ FileInv /\ MarkInv /\ [Next]_vars => MarkInv'
<1> SUFFICES ASSUME TypeOK, FileInv, MarkInv, [Next]_vars, pc' = "convert"
             PROVE  (Tells(from, file) /\ (from # to => Tells(to, out)) /\ (stray => to # "UTF8"))'
  BY Zenon DEF MarkInv
<1>0. "convert" # "idle" /\ "convert" # "parse" /\ "convert" # "exit" /\ "convert" # "crashed"
  OBVIOUS
<1>1. CASE UNCHANGED vars
  <2>1. UNCHANGED <<pc, from, to, file, out, stray>>
    BY <1>1, Zenon DEF vars
  <2> QED
    BY <2>1, Zenon DEF MarkInv
<1>2. CASE Run \/ Encoding \/ Usage \/ Name \/ Refuse
  <2>1. pc' = "parse" \/ pc' = "exit"
    BY <1>2, Zenon DEF Run, Refuse, Encoding, Usage, Name, NextArg
  <2> QED
    BY <1>0, <2>1, Zenon
<1>3. ASSUME NEW enc \in Encodings, Crash(enc) PROVE FALSE
  BY <1>0, <1>3, Zenon DEF Crash
<1>4. ASSUME NEW enc \in Encodings, Start(enc)
      PROVE  (Tells(from, file) /\ (from # to => Tells(to, out)) /\ (stray => to # "UTF8"))'
  <2>1. /\ from' = enc /\ to' = to /\ file' = disk[inFile] /\ stray' = stray /\ pc = "parse"
        /\ StartsWith(enc)
    BY <1>4, Zenon DEF Start, Opens, Parsed
  <2>2. out' = IF enc = to THEN <<>> ELSE Bom(to)
    BY <1>4, Zenon DEF Start
  <2>3. ~stray
    BY <2>1, Zenon DEF FileInv
  <2>4. Tells(enc, disk[inFile])
    BY <2>1, StartTells, Zenon
  <2> QED
    BY <2>1, <2>2, <2>3, <2>4, BomTells, Zenon
<1>5. CASE Transcribe \/ AtEnd
  <2>1. pc' = "idle"
    BY <1>5, Zenon DEF Transcribe, AtEnd, Done
  <2> QED
    BY <1>0, <2>1, Zenon
<1>6. CASE FromUtf8 \/ SwapUnits \/ ToUtf8
  <2>1. pc = "convert" /\ UNCHANGED <<from, to, file>> /\ from # to
    <3>1. CASE FromUtf8
      BY <3>1, Zenon DEF FromUtf8, Reads
    <3>2. CASE ToUtf8
      BY <3>2, Zenon DEF ToUtf8, Reads
    <3>3. CASE SwapUnits
      <4>1. {from, to} = {"UTF16LE", "UTF16BE"} /\ pc = "convert" /\ UNCHANGED <<from, to, file>>
        BY <3>3, Zenon DEF SwapUnits, Reads
      <4>2. from # to
        BY <4>1, SMTT(20)
      <4> QED
        BY <4>1, <4>2, Zenon
    <3> QED
      BY <1>6, <3>1, <3>2, <3>3, Zenon
  <2>2. Tells(from, file) /\ Tells(to, out) /\ (stray => to # "UTF8")
    BY <2>1, Zenon DEF MarkInv
  <2>3. Tells(to, out')
    <3>1. PICK t \in Seq(Byte) : out' = out \o t
      BY <1>6, TurnWrites, Zenon
    <3>2. out \in Seq(Byte)
      BY Zenon DEF TypeOK
    <3> QED
      BY <2>2, <3>1, <3>2, TellsStill, Zenon
  <2>4. stray' => to # "UTF8"
    <3>1. CASE FromUtf8 \/ ToUtf8
      BY <2>2, <3>1, Zenon DEF FromUtf8, ToUtf8
    <3>2. CASE SwapUnits
      <4>1. {from, to} = {"UTF16LE", "UTF16BE"}
        BY <3>2, Zenon DEF SwapUnits
      <4> QED
        BY <4>1, SMTT(20)
    <3> QED
      BY <1>6, <3>1, <3>2, Zenon
  <2> QED
    BY <2>1, <2>2, <2>3, <2>4, Zenon
<1> QED
  BY <1>1, <1>2, <1>3, <1>4, <1>5, <1>6, Zenon DEF Next

\* What a run by way of UTF-8, or from it, leaves of the text, the file it is in,
Middle == <<Mark>> \o (IF user.enc = "UTF8" THEN Content ELSE NoMarks(BeforeLineEnd(user.text)))
Way == NameOf(commands[1], 2)
\* and what comes back.
Returned == (IF to = "UTF8" THEN <<Mark>> ELSE <<Mark, Mark>>) \o NoMarks(BeforeLineEnd(user.text))

\* The bytes begin with the text.
LiesIn(enc, bytes, text) ==
    LET n == Offset(enc, text)[Len(text)]
    IN  n <= Len(bytes) /\ Spells(enc, SubSeq(bytes, 1, n), text)

LEMMA MarkType == Mark \in CodePoint /\ <<Mark>> \in Seq(CodePoint) /\ Len(<<Mark>>) = 1
                  /\ <<Mark>>[1] = Mark /\ ~Stops(Mark)
<1>1. Mark \in CodePoint /\ ~Stops(Mark)
  BY SMTT(20) DEF Mark, CodePoint, Stops
<1> QED
  BY <1>1, SMTT(20)

LEMMA BeforeType ==
    ASSUME NEW text \in Seq(CodePoint)
    PROVE  BeforeLineEnd(text) \in Seq(CodePoint)
<1> DEFINE ends == {k \in DOMAIN text : text[k] \in LineEnds}
<1>1. CASE ends = {}
  BY <1>1, Zenon DEF BeforeLineEnd
<1>2. CASE ends # {}
  <2>1. Len(text) \in Nat /\ DOMAIN text = 1..Len(text)
    BY LenProperties, Zenon
  <2>2. \E k \in 1..Len(text) : Stops(text[k]) /\ \A i \in 1..(k - 1) : ~Stops(text[i])
    <3> DEFINE P(k) == k \in ends
               T == {k \in Nat : k \in ends}
    <3>1. T # {} /\ T \subseteq Nat
      BY <1>2, <2>1, SMTT(20)
    <3>2. PICK k \in T : \A j \in T : k <= j
      BY <3>1, LeastNumber, Zenon
    <3>3. k \in 1..Len(text) /\ Stops(text[k])
      BY <2>1, <3>2, EndsAre, Zenon
    <3>4. ASSUME NEW i \in 1..(k - 1) PROVE ~Stops(text[i])
      <4>1. i \in Nat /\ i \in 1..Len(text) /\ ~(k <= i)
        BY <2>1, <3>3, SMTT(20)
      <4> QED
        BY <2>1, <3>2, <4>1, EndsAre, Zenon
    <3> QED
      BY <3>3, <3>4, Zenon
  <2>3. PICK k \in 1..Len(text) : Stops(text[k]) /\ \A i \in 1..(k - 1) : ~Stops(text[i])
    BY <2>2, Zenon
  <2>4. BeforeLineEnd(text) = SubSeq(text, 1, k - 1)
    BY <2>3, FirstLineEnd, Zenon
  <2>5. SubSeq(text, 1, k - 1) \in Seq(CodePoint)
    BY <2>1, SMTT(20)
  <2> QED
    BY <2>4, <2>5, Zenon
<1> QED
  BY <1>1, <1>2, Zenon

LEMMA MiddleType ==
    ASSUME user \in Files
    PROVE  /\ Middle \in Seq(CodePoint) /\ Len(Middle) \in Nat
           /\ NoMarks(BeforeLineEnd(user.text)) \in Seq(CodePoint)
<1>1. user.text \in Seq(CodePoint) /\ Content \in Seq(CodePoint)
  BY ContentType, Zenon
<1>2. NoMarks(BeforeLineEnd(user.text)) \in Seq(CodePoint)
  <2> DEFINE t == BeforeLineEnd(user.text)
  <2>1. t \in Seq(CodePoint)
    BY <1>1, BeforeType, Zenon
  <2> HIDE DEF t
  <2>2. NoMarks(t) \in Seq(CodePoint)
    BY <2>1, MarkType, NoMarksGrows, Zenon
  <2> QED
    BY <2>2, Zenon DEF t
<1> DEFINE m == <<Mark>>
           r == IF user.enc = "UTF8" THEN Content ELSE NoMarks(BeforeLineEnd(user.text))
<1>3. m \in Seq(CodePoint) /\ r \in Seq(CodePoint) /\ Middle = m \o r
  BY <1>1, <1>2, MarkType, Zenon DEF Middle
<1> HIDE DEF m, r
<1>4. m \o r \in Seq(CodePoint)
  BY <1>3, ConcatProperties, SMTT(20)
<1> QED
  BY <1>2, <1>3, <1>4, LenProperties, Zenon

\* A text from its beginning, a character at a time.
LEMMA StartGrows ==
    ASSUME NEW text \in Seq(CodePoint)
    PROVE  /\ Len(text) \in Nat /\ SubSeq(text, 1, 0) = <<>> /\ SubSeq(text, 1, Len(text)) = text
           /\ \A k \in 0..Len(text) : SubSeq(text, 1, k) \in Seq(CodePoint)
           /\ \A k \in 0..(Len(text) - 1) :
                 /\ text[k + 1] \in CodePoint
                 /\ SubSeq(text, 1, k + 1) = Append(SubSeq(text, 1, k), text[k + 1])
<1> DEFINE t == text
<1>1. t \in Seq(CodePoint) /\ Len(t) \in Nat
  BY LenProperties, Zenon
<1> HIDE DEF t
<1>2. SubSeq(t, 1, 0) = <<>> /\ SubSeq(t, 1, Len(t)) = t
  BY <1>1, SMTT(20)
<1>3. ASSUME NEW k \in 0..Len(t) PROVE SubSeq(t, 1, k) \in Seq(CodePoint)
  BY <1>1, <1>3, SMTT(20)
<1>4. ASSUME NEW k \in 0..(Len(t) - 1)
      PROVE  t[k + 1] \in CodePoint /\ SubSeq(t, 1, k + 1) = Append(SubSeq(t, 1, k), t[k + 1])
  <2>1. k + 1 \in 1..Len(t)
    BY <1>1, SMTT(20)
  <2>2. t[k + 1] \in CodePoint
    BY <1>1, <2>1, ElementOfSeq, Zenon
  <2>3. SubSeq(t, 1, k + 1) = Append(SubSeq(t, 1, k), t[k + 1])
    BY <1>1, <2>1, <2>2, SMTT(20)
  <2> QED
    BY <2>2, <2>3, Zenon
<1> QED
  BY <1>1, <1>2, <1>3, <1>4, Zenon DEF t

\* How long a text is.
LEMMA EndType ==
    ASSUME NEW enc, NEW text \in Seq(CodePoint)
    PROVE  /\ \A k \in 0..Len(text) : Offset(enc, text)[k] \in Nat
           /\ Offset(enc, text)[Len(text)] \in Nat
<1>1. Offset(enc, text) \in [0..Len(text) -> Nat]
  BY OffsetSteps, Zenon
<1>2. Len(text) \in 0..Len(text)
  BY LenProperties, SMTT(20)
<1> QED
  BY <1>1, <1>2, Zenon

LEMMA SpelledLies ==
    ASSUME NEW enc, NEW bytes \in Seq(Byte), NEW text, Spells(enc, bytes, text)
    PROVE  LiesIn(enc, bytes, text) /\ Len(bytes) = Offset(enc, text)[Len(text)]
<1>1. Len(bytes) = Offset(enc, text)[Len(text)]
  BY Zenon DEF Spells
<1>2. Len(bytes) \in Nat /\ SubSeq(bytes, 1, Len(bytes)) = bytes
  BY SMTT(20)
<1>3. Len(bytes) <= Len(bytes)
  BY <1>2, SMTT(20)
<1> QED
  BY <1>1, <1>2, <1>3, Zenon DEF LiesIn

\* Bytes that begin with a text still do so when there are more.
LEMMA LiesStill ==
    ASSUME NEW enc, NEW bytes \in Seq(Byte), NEW text \in Seq(CodePoint), LiesIn(enc, bytes, text),
           NEW more \in Seq(Byte)
    PROVE  LiesIn(enc, bytes \o more, text)
<1> DEFINE n == Offset(enc, text)[Len(text)]
<1>1. n \in Nat
  BY EndType, Zenon
<1>2. n <= Len(bytes) /\ Spells(enc, SubSeq(bytes, 1, n), text)
  BY Zenon DEF LiesIn
<1> HIDE DEF n
<1>3. /\ bytes \o more \in Seq(Byte) /\ Len(bytes \o more) = Len(bytes) + Len(more)
  BY ConcatProperties, Zenon
<1>4. Len(bytes) \in Nat /\ Len(more) \in Nat
  BY LenProperties, Zenon
<1>5. n <= Len(bytes \o more)
  BY <1>1, <1>2, <1>3, <1>4, SMTT(20)
<1>6. SubSeq(bytes \o more, 1, n) = SubSeq(bytes, 1, n)
  <2>1. CASE n = 0
    <3>1. \A x \in Seq(Byte) : SubSeq(x, 1, 0) = <<>>
      BY SMTT(20)
    <3> QED
      BY <1>3, <2>1, <3>1, Zenon
  <2>2. CASE n # 0
    <3>1. 0 < n /\ 0 \in Nat /\ 0 + 1 = 1
      BY <1>1, <2>2, SMTT(20)
    <3>2. SubSeq(bytes \o more, 0 + 1, n) = SubSeq(bytes, 0 + 1, n)
      BY <1>1, <1>2, <3>1, PieceBefore, Zenon
    <3> QED
      BY <3>1, <3>2, Zenon
  <2> QED
    BY <2>1, <2>2, Zenon
<1> QED
  BY <1>2, <1>5, <1>6, Zenon DEF LiesIn, n

\* The bytes of the character behind the first k of a text.
CharacterAt(enc, bytes, text, k) ==
    \E s \in Seq(Byte) :
        /\ Denotes(enc, s, text[k + 1])
        /\ Offset(enc, text)[k] \in Nat
        /\ Offset(enc, text)[k + 1] = Offset(enc, text)[k] + Len(s)
        /\ Offset(enc, text)[k + 1] <= Len(bytes)
        /\ \A i \in 1..Len(s) : bytes[Offset(enc, text)[k] + i] = s[i]

LEMMA LyingCharacter ==
    ASSUME NEW enc, NEW bytes \in Seq(Byte), NEW text \in Seq(CodePoint), LiesIn(enc, bytes, text),
           NEW k \in Nat, k < Len(text)
    PROVE  CharacterAt(enc, bytes, text, k)
<1> DEFINE off == Offset(enc, text)
           n == off[Len(text)]
           part == SubSeq(bytes, 1, n)
<1>1. n \in Nat /\ n <= Len(bytes) /\ Spells(enc, part, text) /\ Len(bytes) \in Nat
  BY EndType, LenProperties, Zenon DEF LiesIn
<1> HIDE DEF n
<1>2. part \in Seq(Byte) /\ Len(part) = n /\ \A i \in 1..n : part[i] = bytes[i]
  BY <1>1, SMTT(20)
<1> HIDE DEF part
<1>3. \E s \in Seq(Byte) :
         /\ Denotes(enc, s, text[k + 1])
         /\ Offset(enc, text)[k] \in Nat
         /\ Offset(enc, text)[k + 1] = Offset(enc, text)[k] + Len(s)
         /\ Offset(enc, text)[k + 1] <= Len(part)
         /\ \A i \in 1..Len(s) : part[Offset(enc, text)[k] + i] = s[i]
  <2>1. part \in Seq(Byte) /\ Spells(enc, part, text) /\ k \in Nat /\ k < Len(text)
    BY <1>1, <1>2, Zenon
  <2> QED
    BY <2>1, CharacterBytes, SMTT(60)
<1>4. PICK s \in Seq(Byte) :
         /\ Denotes(enc, s, text[k + 1])
         /\ off[k] \in Nat /\ off[k + 1] = off[k] + Len(s) /\ off[k + 1] <= n
         /\ \A i \in 1..Len(s) : part[off[k] + i] = s[i]
  BY <1>2, <1>3, Zenon
<1> HIDE DEF off
<1>5. PICK p, q : p = off[k] /\ q = off[k + 1]
  BY Zenon
<1>6. p \in Nat /\ q = p + Len(s) /\ q <= n /\ Len(s) \in Nat
  BY <1>4, <1>5, LenProperties, Zenon
<1>7. q <= Len(bytes) /\ \A i \in 1..Len(s) : p + i \in 1..n
  BY <1>1, <1>5, <1>6, SMTT(20)
<1>8. \A i \in 1..Len(s) : bytes[p + i] = s[i]
  BY <1>2, <1>4, <1>5, <1>7, Zenon
<1> QED
  BY <1>4, <1>5, <1>6, <1>7, <1>8, Zenon DEF off, CharacterAt

\* Of a text that is read, and then perhaps something else, the first k characters
\* are read and written,
Passed(text, k) ==
    /\ pos = Offset(from, text)[k] /\ Spells(to, out, Rendering(SubSeq(text, 1, k)))
    /\ from # "UTF8" => \A i \in 1..k : ~Stops(text[i])
\* or all of it and more.
Beyond(text) ==
    /\ pos > Offset(from, text)[Len(text)] /\ LiesIn(to, out, Rendering(text))
    /\ from # "UTF8" => \A i \in 1..Len(text) : ~Stops(text[i])

LEMMA PassesNext ==
    ASSUME UNCHANGED <<from, to>>, NEW text \in Seq(CodePoint), NEW k \in Nat, k < Len(text),
           from # "UTF8" => \A i \in 1..(k + 1) : ~Stops(text[i]),
           pos' = Offset(from, text)[k + 1],
           NEW w \in Seq(Byte), Spells(to, w, Rendering(SubSeq(text, 1, k))),
           \/ /\ from # "UTF8" /\ text[k + 1] = Mark /\ out' = w
           \/ /\ from = "UTF8" \/ text[k + 1] # Mark
              /\ \E t \in Seq(Byte) : Denotes(to, t, text[k + 1]) /\ out' = w \o t
    PROVE  Passed(text, k + 1)'
<1> DEFINE x == SubSeq(text, 1, k)
           cp == text[k + 1]
           y == SubSeq(text, 1, k + 1)
<1>1. Len(text) \in Nat
  BY LenProperties, Zenon
<1>2. k \in 0..Len(text) /\ k \in 0..(Len(text) - 1)
  BY <1>1, SMTT(20)
<1>3. x \in Seq(CodePoint) /\ cp \in CodePoint /\ y = Append(x, cp)
  BY <1>2, StartGrows, Zenon
<1>4. Spells(to, w, Rendering(x))
  OBVIOUS
<1>5. Spells(to, out', Rendering(y))
  <2>1. CASE from # "UTF8" /\ cp = Mark /\ out' = w
    <3>1. Rendering(Append(x, cp)) = Rendering(x)
      BY <1>3, <2>1, RenderingGrows, Zenon DEF Keeping
    <3> QED
      BY <1>3, <1>4, <2>1, <3>1, Zenon
  <2>2. CASE (from = "UTF8" \/ cp # Mark) /\ \E t \in Seq(Byte) : Denotes(to, t, cp) /\ out' = w \o t
    <3>1. PICK t \in Seq(Byte) : Denotes(to, t, cp) /\ out' = w \o t
      BY <2>2, Zenon
    <3>2. from = "UTF8" \/ cp # Mark
      BY <2>2, Zenon
    <3> HIDE DEF x, cp, y
    <3>3. Spells(to, w \o t, Rendering(Append(x, cp)))
      BY <1>3, <1>4, <3>1, <3>2, CharacterWritten, SMTT(20)
    <3> QED
      BY <1>3, <3>1, <3>3, Zenon
  <2> QED
    BY <2>1, <2>2, Zenon
<1>6. Rendering(y)' = Rendering(y)
  BY Zenon DEF Rendering
<1> QED
  BY <1>5, <1>6, Zenon DEF Passed

LEMMA LyingInFile ==
    ASSUME file \in Seq(Byte), NEW text \in Seq(CodePoint), LiesIn(from, file, text),
           NEW k \in Nat, k < Len(text), pos = Offset(from, text)[k]
    PROVE  \E s \in Seq(Byte) :
              /\ Denotes(from, s, text[k + 1])
              /\ Offset(from, text)[k + 1] = pos + Len(s)
              /\ Offset(from, text)[k + 1] <= Len(file) /\ pos + Len(s) <= Len(file)
              /\ \A i \in 1..Len(s) : file[pos + i] = s[i]
<1>1. CharacterAt(from, file, text, k)
  BY LyingCharacter, Zenon
<1> QED
  BY <1>1, Zenon DEF CharacterAt

\* What the unit at the place of the program is.
LEMMA UnitHere ==
    ASSUME TypeOK, ToUtf8, NEW cp, NEW s \in Seq(Byte), Denotes(from, s, cp),
           pos + Len(s) <= Len(file), \A i \in 1..Len(s) : file[pos + i] = s[i]
    PROVE  /\ Len(s) \in {2, 4} /\ DenotesUtf16(from, s, cp) /\ cp \in Scalar
           /\ Upper(Raw) = ReversedBom(from) <=> cp = Mark
           /\ Stops(Upper(Raw)) <=> Stops(cp)
<1>1. /\ from \in {"UTF16LE", "UTF16BE"} /\ from # "UTF8"
      /\ file \in Seq(Byte) /\ pos \in Nat /\ Len(file) \in Nat /\ buf \in [1..4 -> Byte]
  BY ToUtf8Turns, LenProperties, Zenon DEF TypeOK
<1>2. DenotesUtf16(from, s, cp) /\ cp \in Scalar
  BY <1>1, WidthIsLength, Zenon DEF Denotes
<1> DEFINE unit == Value(from, s[1], s[2])
<1>3. /\ Len(s) \in {2, 4} /\ s[1] \in Byte /\ s[2] \in Byte
      /\ Len(s) = 2 => unit = cp
      /\ Len(s) = 4 => unit # Mark /\ ~Stops(unit) /\ cp # Mark /\ ~Stops(cp)
  BY <1>1, <1>2, FirstUnit, Zenon
<1> HIDE DEF unit
<1>4. pos + 2 <= Len(file) /\ 1 \in 1..Len(s) /\ 2 \in 1..Len(s)
  BY <1>1, <1>3, SMTT(20)
<1>5. Raw[1] = s[1] /\ Raw[2] = s[2]
  <2>1. Raw[1] = file[pos + 1] /\ Raw[2] = file[pos + 2]
    BY <1>1, <1>4, UnitRead, Zenon
  <2> QED
    BY <1>4, <2>1, Zenon
<1>6. Upper(Raw) = s[1] + 256 * s[2]
  BY <1>5, Zenon DEF Upper
<1>7. /\ s[1] + 256 * s[2] = ReversedBom(from) <=> unit = Mark
      /\ Stops(s[1] + 256 * s[2]) <=> Stops(unit)
  <2> DEFINE a == s[1]
             b == s[2]
  <2>1. a \in Byte /\ b \in Byte /\ from \in {"UTF16LE", "UTF16BE"} /\ unit = Value(from, a, b)
    BY <1>1, <1>3, Zenon DEF unit
  <2> HIDE DEF a, b
  <2>2. /\ a + 256 * b = ReversedBom(from) <=> Value(from, a, b) = Mark
        /\ Stops(a + 256 * b) <=> Stops(Value(from, a, b))
    BY <2>1, UnitKinds, SMTT(20)
  <2> QED
    BY <2>1, <2>2, Zenon DEF a, b
<1>8. (unit = Mark <=> cp = Mark) /\ (Stops(unit) <=> Stops(cp))
  BY <1>3, Zenon
<1> QED
  BY <1>2, <1>3, <1>6, <1>7, <1>8, Zenon

\* A turn passes the next character of the text,
LEMMA TurnPasses ==
    ASSUME TypeOK, FromUtf8 \/ ToUtf8, pc' = "convert",
           NEW text \in Seq(CodePoint), LiesIn(from, file, text),
           NEW k \in Nat, k < Len(text), Passed(text, k),
           from # "UTF8" => \A i \in 1..Len(text) : text[i] = Mark \/ ~Misread(text[i])
    PROVE  Passed(text, k + 1)'
<1>1. file \in Seq(Byte) /\ pos \in Nat /\ Len(file) \in Nat /\ out \in Seq(Byte)
  BY LenProperties, Zenon DEF TypeOK
<1>2. /\ pos = Offset(from, text)[k] /\ Spells(to, out, Rendering(SubSeq(text, 1, k)))
      /\ from # "UTF8" => \A i \in 1..k : ~Stops(text[i])
  BY Zenon DEF Passed
<1> DEFINE cp == text[k + 1]
           q == Offset(from, text)[k + 1]
<1>3. PICK s \in Seq(Byte) :
         /\ Denotes(from, s, cp) /\ q = pos + Len(s) /\ q <= Len(file)
         /\ \A i \in 1..Len(s) : file[pos + i] = s[i]
  BY <1>1, <1>2, LyingInFile, Zenon
<1>4. pos + Len(s) <= Len(file) /\ cp \in Scalar
  BY <1>3, WidthIsLength, Zenon
<1>5. k + 1 \in 1..Len(text) /\ \A i \in 1..(k + 1) : i \in 1..k \/ i = k + 1
  <2>1. Len(text) \in Nat
    BY LenProperties, Zenon
  <2> QED
    BY <2>1, SMTT(20)
<1>6. CASE FromUtf8
  <2>1. from = "UTF8" /\ to # "UTF8" /\ UNCHANGED <<from, to>>
    BY <1>6, Zenon DEF FromUtf8
  <2>2. DenotesUtf8(s, cp)
    BY <1>3, <2>1, Zenon DEF Denotes
  <2> HIDE DEF cp, q
  <2>3. pos' = pos + Len(s) /\ \E t \in Seq(Byte) : out' = out \o t /\ DenotesUtf16(to, t, cp)
    BY <1>3, <1>4, <1>6, <2>2, FromUtf8Turn, Zenon
  <2>4. pos' = q /\ \E t \in Seq(Byte) : Denotes(to, t, cp) /\ out' = out \o t
    BY <1>3, <2>1, <2>3, Zenon DEF Denotes
  <2> QED
    BY <1>1, <1>2, <2>1, <2>4, PassesNext, Zenon DEF cp, q
<1>7. CASE ToUtf8
  <2>1. /\ from \in {"UTF16LE", "UTF16BE"} /\ from # "UTF8" /\ to = "UTF8"
        /\ UNCHANGED <<from, to>>
    BY <1>7, ToUtf8Turns, Zenon
  <2> HIDE DEF cp, q
  <2>2. /\ Len(s) \in {2, 4} /\ DenotesUtf16(from, s, cp)
        /\ Upper(Raw) = ReversedBom(from) <=> cp = Mark
        /\ Stops(Upper(Raw)) <=> Stops(cp)
    BY <1>3, <1>4, <1>7, UnitHere, Zenon
  <2>3. CASE cp = Mark
    <3>1. pos' = After(pos, 2) /\ out' = out
      BY <1>7, <2>2, <2>3, ToUtf8Turns, Zenon
    <3>2. Len(s) = 2
      <4>1. Denotes(from, s, Mark) /\ (from = "UTF16LE" \/ from = "UTF16BE")
        BY <1>3, <2>1, <2>3, Zenon
      <4> QED
        BY <4>1, MarkBytes, SMTT(20)
    <3>3. pos' = q
      BY <1>1, <1>3, <1>4, <3>1, <3>2, SMTT(20) DEF After
    <3>4. ~Stops(cp)
      BY <2>3, MarkType, Zenon
    <3>5. \A i \in 1..(k + 1) : ~Stops(text[i])
      BY <1>2, <1>5, <2>1, <3>4, Zenon DEF cp
    <3>6. out' = out /\ text[k + 1] = Mark
      BY <2>3, <3>1, Zenon DEF cp
    <3>7. pos' = Offset(from, text)[k + 1]
      BY <3>3, Zenon DEF q
    <3> QED
      BY <1>1, <1>2, <2>1, <3>5, <3>6, <3>7, PassesNext, Zenon
  <2>4. CASE cp # Mark
    <3>1. ~Stops(cp)
      <4>1. "convert" # "idle"
        OBVIOUS
      <4> QED
        BY <1>7, <2>2, <2>4, <4>1, ToUtf8Turns, Zenon
    <3>2. ~Misread(cp)
      BY <1>5, <2>1, <2>4, Zenon DEF cp
    <3>3. pos' = pos + Len(s) /\ \E t \in Seq(Byte) : out' = out \o t /\ DenotesUtf8(t, cp)
      BY <1>3, <1>4, <1>7, <2>1, <2>2, <2>4, <3>1, <3>2, ToUtf8Turn, Zenon
    <3>4. pos' = q /\ \E t \in Seq(Byte) : Denotes(to, t, cp) /\ out' = out \o t
      BY <1>3, <2>1, <3>3, Zenon DEF Denotes
    <3>5. \A i \in 1..(k + 1) : ~Stops(text[i])
      BY <1>2, <1>5, <2>1, <3>1, Zenon DEF cp
    <3>6. /\ pos' = Offset(from, text)[k + 1] /\ text[k + 1] # Mark
          /\ \E t \in Seq(Byte) : Denotes(to, t, text[k + 1]) /\ out' = out \o t
      BY <2>4, <3>4, Zenon DEF q, cp
    <3> QED
      BY <1>1, <1>2, <2>1, <3>5, <3>6, PassesNext, Zenon
  <2> QED
    BY <2>3, <2>4, Zenon
<1> QED
  BY <1>6, <1>7, Zenon

\* stops at no other than a line end,
LEMMA TurnStops ==
    ASSUME TypeOK, ToUtf8, pc' = "idle",
           NEW text \in Seq(CodePoint), LiesIn(from, file, text),
           NEW k \in Nat, k < Len(text), Passed(text, k)
    PROVE  Stops(text[k + 1])
<1>1. file \in Seq(Byte) /\ pos \in Nat /\ Len(file) \in Nat /\ pos = Offset(from, text)[k]
  BY LenProperties, Zenon DEF TypeOK, Passed
<1> DEFINE cp == text[k + 1]
<1>2. PICK s \in Seq(Byte) :
         /\ Denotes(from, s, cp) /\ pos + Len(s) <= Len(file)
         /\ \A i \in 1..Len(s) : file[pos + i] = s[i]
  BY <1>1, LyingInFile, Zenon
<1> HIDE DEF cp
<1>3. Stops(Upper(Raw)) <=> Stops(cp)
  BY <1>2, UnitHere, Zenon
<1>4. Stops(Upper(Raw))
  <2>1. pc = "convert" /\ "convert" # "idle"
    BY Zenon DEF ToUtf8, Reads
  <2> QED
    BY <2>1, Zenon DEF ToUtf8, Raw
<1> QED
  BY <1>3, <1>4, Zenon DEF cp

\* and behind the text adds to what is written.
LEMMA TurnGoesOn ==
    ASSUME TypeOK, FromUtf8 \/ ToUtf8, NEW text \in Seq(CodePoint),
           pos >= Offset(from, text)[Len(text)], LiesIn(to, out, Rendering(text)),
           from # "UTF8" => \A i \in 1..Len(text) : ~Stops(text[i])
    PROVE  Beyond(text)'
<1>1. UNCHANGED <<from, to, file>> /\ pos < Len(file)
  BY Zenon DEF FromUtf8, ToUtf8, Reads
<1>2. pos \in Nat /\ Len(file) \in Nat /\ out \in Seq(Byte)
  BY LenProperties, Zenon DEF TypeOK
<1>3. pos' > pos /\ pos' \in Nat
  <2>1. \A x : Remaining(x) \in Nat
    BY SMTT(20) DEF Remaining
  <2>2. \A n \in Nat : After(pos + 1, n) > pos /\ After(pos + 1, n) \in Nat
    BY <1>1, <1>2, SMTT(20) DEF After
  <2>3. \A n \in {2, 4} : After(pos, n) > pos /\ After(pos, n) \in Nat
    BY <1>1, <1>2, SMTT(20) DEF After
  <2>4. CASE FromUtf8
    <3>1. \E x : pos' = After(pos + 1, Remaining(x))
      BY <2>4, Zenon DEF FromUtf8
    <3> QED
      BY <2>1, <2>2, <3>1, Zenon
  <2>5. CASE ToUtf8
    <3>1. pos' = After(pos, 2) \/ pos' = After(pos, 4)
      BY <2>5, Zenon DEF ToUtf8
    <3>2. 2 \in {2, 4} /\ 4 \in {2, 4}
      OBVIOUS
    <3> QED
      BY <2>3, <3>1, <3>2, Zenon
  <2> QED
    BY <2>4, <2>5, Zenon
<1>4. pos' > Offset(from, text)[Len(text)]
  <2>1. Offset(from, text)[Len(text)] \in Nat
    BY EndType, Zenon
  <2> DEFINE n == Offset(from, text)[Len(text)]
  <2> HIDE DEF n
  <2>2. n \in Nat /\ pos >= n
    BY <2>1, Zenon DEF n
  <2>3. pos' > n
    BY <1>2, <1>3, <2>2, SMTT(20)
  <2> QED
    BY <2>3, Zenon DEF n
<1>5. LiesIn(to, out', Rendering(text))
  <2>1. PICK t \in Seq(Byte) : out' = out \o t
    BY TurnWrites, Zenon
  <2>2. Rendering(text) \in Seq(CodePoint)
    BY MarkType, RenderingGrows, Zenon
  <2> DEFINE r == Rendering(text)
  <2> HIDE DEF r
  <2>3. r \in Seq(CodePoint) /\ LiesIn(to, out, r)
    BY <2>2, Zenon DEF r
  <2>4. LiesIn(to, out \o t, r)
    BY <1>2, <2>3, LiesStill, Zenon
  <2> QED
    BY <2>1, <2>4, Zenon DEF r
<1>6. Rendering(text)' = Rendering(text)
  BY <1>1, Zenon DEF Rendering
<1> QED
  BY <1>1, <1>4, <1>5, <1>6, Zenon DEF Beyond

\* The step that ends a run has put what was read or written into the output file.
LEMMA EndOfRun ==
    ASSUME Next, pc' = "idle"
    PROVE  /\ pc = "convert" /\ UNCHANGED <<user, commands, inFile, outFile, from, to>>
           /\ \/ from = to /\ Done(file)
              \/ /\ from # to /\ Done(out) /\ out' = out
                 /\ (AtEnd \/ ToUtf8 \/ SwapUnits) /\ (UNCHANGED stray \/ SwapUnits)
<1>0. "convert" # "idle" /\ "parse" # "idle" /\ "exit" # "idle" /\ "crashed" # "idle"
  OBVIOUS
<1>1. CASE Run \/ Encoding \/ Usage \/ Name \/ Refuse
  <2>1. pc' = "parse" \/ pc' = "exit"
    BY <1>1, Zenon DEF Run, Refuse, Encoding, Usage, Name, NextArg
  <2> QED
    BY <1>0, <2>1, Zenon
<1>2. ASSUME NEW enc \in Encodings, Crash(enc) \/ Start(enc) PROVE FALSE
  BY <1>0, <1>2, Zenon DEF Crash, Start
<1>3. CASE Transcribe
  BY <1>3, Zenon DEF Transcribe, arguments
<1>4. CASE AtEnd
  BY <1>4, Zenon DEF AtEnd, arguments
<1>5. CASE FromUtf8
  BY <1>0, <1>5, Zenon DEF FromUtf8, Reads
<1>6. CASE ToUtf8
  <2>1. /\ pc = "convert" /\ UNCHANGED <<user, commands, inFile, outFile, from, to, stray>>
        /\ from # "UTF8" /\ to = "UTF8"
    BY <1>6, Zenon DEF ToUtf8, Reads, arguments
  <2>2. Done(out) /\ out' = out
    BY <1>0, <1>6, <2>1, Zenon DEF ToUtf8
  <2> QED
    BY <1>6, <2>1, <2>2, Zenon
<1>7. CASE SwapUnits
  <2>1. /\ pc = "convert" /\ UNCHANGED <<user, commands, inFile, outFile, from, to>>
        /\ {from, to} = {"UTF16LE", "UTF16BE"}
    BY <1>7, Zenon DEF SwapUnits, Reads, arguments
  <2>2. Done(out) /\ out' = out
    BY <1>0, <1>7, <2>1, Zenon DEF SwapUnits
  <2>3. from # to
    BY <2>1, SMTT(20)
  <2> QED
    BY <1>7, <2>1, <2>2, <2>3, Zenon
<1> QED
  BY <1>1, <1>2, <1>3, <1>4, <1>5, <1>6, <1>7, Zenon DEF Next

\* Between the runs the file in between has its mark, and with one of the two forms
\* UTF-8 it holds the text.
Between == (pc = "idle" /\ runs = 1) \/ (pc = "parse" /\ runs = 2)
HoldsMiddle(enc) ==
    /\ Way \in DOMAIN disk /\ Tells(enc, disk[Way])
    /\ Whole /\ ~MisreadIn(user.text) /\ enc # user.enc /\ "UTF8" \in {user.enc, enc} =>
           BeginsWith(enc, disk[Way], Middle, OldBytes(Way))
MiddleInv ==
    Between /\ NameOf(commands[1], 1) = Source => \E enc \in Encodings : HoldsMiddle(enc)

\* What the bytes are that a run puts into its output file.
LEMMA MarkedOutput ==
    ASSUME TypeOK, MarkInv, Next, pc' = "idle"
    PROVE  outFile \in DOMAIN disk' /\ Tells(to, disk'[outFile])
<1>1. pc = "convert" /\ ((from = to /\ Done(file)) \/ (from # to /\ Done(out)))
  BY EndOfRun, Zenon
<1>2. PICK b \in Seq(Byte) : Done(b) /\ Tells(to, b)
  BY <1>1, Zenon DEF MarkInv, TypeOK
<1>3. \A n \in DOMAIN disk : disk[n] \in Seq(Byte)
  BY Zenon DEF TypeOK
<1> DEFINE h == HeldIn(disk, outFile)
           rest == SubSeq(h, Len(b) + 1, Len(h))
<1>4. h \in Seq(Byte) /\ outFile \in DOMAIN disk' /\ disk'[outFile] = b \o rest
  BY <1>2, <1>3, WrittenHeld, Zenon DEF Done
<1> HIDE DEF h
<1>5. rest \in Seq(Byte)
  <2>1. Len(b) + 1 \in Nat \ {0} /\ Len(h) \in Nat
    BY <1>4, LenProperties, SMTT(20)
  <2>2. \A x \in Nat \ {0} : SubSeq(h, x, Len(h)) \in Seq(Byte)
    BY <1>4, <2>1, SMTT(20)
  <2> QED
    BY <2>1, <2>2, Zenon
<1> HIDE DEF rest
<1> QED
  BY <1>2, <1>4, <1>5, TellsStill, Zenon

LEMMA FirstRunIsMiddle ==
    ASSUME TypeOK, FileInv, MarkInv, OutputComplete', Next, pc' = "idle", runs = 1,
           inFile = Source, Whole, ~MisreadIn(user.text), to # user.enc, "UTF8" \in {user.enc, to}
    PROVE  BeginsWith(to, disk'[outFile], Middle, OldBytes(outFile))
<1>1. /\ pc = "convert" /\ UNCHANGED <<user, commands, inFile, outFile, from, to>>
      /\ UNCHANGED stray \/ SwapUnits \/ from = to
  BY EndOfRun, Zenon
<1>2. from = user.enc /\ from # to
  BY <1>1, Zenon DEF FileInv
<1>3. ~stray'
  <2>1. ~SwapUnits
    <3>1. SwapUnits => {from, to} = {"UTF16LE", "UTF16BE"}
      BY Zenon DEF SwapUnits
    <3>2. {from, to} # {"UTF16LE", "UTF16BE"}
      BY <1>2, SMTT(20)
    <3> QED
      BY <3>1, <3>2, Zenon
  <2>2. stray => to # "UTF8" /\ from # "UTF8"
    BY <1>1, Zenon DEF MarkInv, FileInv
  <2>3. "UTF8" = from \/ "UTF8" = to
    BY <1>2, SMTT(20)
  <2> QED
    BY <1>1, <1>2, <2>1, <2>2, <2>3, Zenon
<1>4. runs' = 1 /\ Whole' /\ inFile' = Source /\ from' # to' /\ (~MisreadIn(user.text))'
  BY <1>1, <1>2, Zenon DEF runs, Whole, MisreadIn
<1>5. BeginsWith(to', disk'[outFile'], Converted', OldBytes(outFile'))
  BY <1>3, <1>4, Zenon DEF OutputComplete
<1>6. Converted' = Middle
  BY <1>1, <1>2, Zenon DEF Converted, Rendering, Content, Middle
<1> QED
  BY <1>1, <1>5, <1>6, Zenon

LEMMA MiddleInit == Init => MiddleInv
<1> SUFFICES ASSUME Init PROVE ~Between
  BY Zenon DEF MiddleInv
<1>1. pc = "idle" /\ runs = 0
  BY SMTT(20) DEF Init, runs
<1>2. "idle" # "parse" /\ 0 # 1
  OBVIOUS
<1> QED
  BY <1>1, <1>2, Zenon DEF Between

LEMMA MiddleNext ==
    /\ TypeOK /\ FileInv /\ MarkInv /\ ArgsAreMeant /\ MiddleInv /\ OutputComplete'
    /\ [Next]_vars
    => MiddleInv'
<1> SUFFICES ASSUME TypeOK, FileInv, MarkInv, ArgsAreMeant, MiddleInv, OutputComplete', [Next]_vars,
                    Between', (NameOf(commands[1], 1) = Source)'
             PROVE  \E enc \in Encodings : HoldsMiddle(enc)'
  BY Zenon DEF MiddleInv
<1>0. /\ "convert" # "idle" /\ "convert" # "parse" /\ "parse" # "idle" /\ "exit" # "parse"
      /\ "exit" # "idle" /\ "crashed" # "idle" /\ "crashed" # "parse"
  OBVIOUS
\* A step that leaves the files and the first line alone.
<1>s. ASSUME UNCHANGED <<user, disk>>, commands'[1] = commands[1], Between
      PROVE  \E enc \in Encodings : HoldsMiddle(enc)'
  <2>1. PICK enc \in Encodings : HoldsMiddle(enc)
    BY <1>s, Zenon DEF MiddleInv
  <2>2. Way' = Way /\ Middle' = Middle
    BY <1>s, Zenon DEF Way, Middle, Content
  <2>3. HoldsMiddle(enc)'
    BY <1>s, <2>1, <2>2, Zenon DEF HoldsMiddle, Whole, MisreadIn, OldBytes
  <2> QED
    BY <2>3, Zenon
<1>1. CASE UNCHANGED vars
  <2>1. UNCHANGED <<user, disk, commands, pc>>
    BY <1>1, Zenon DEF vars, arguments
  <2>2. Between
    BY <2>1, Zenon DEF Between, runs
  <2> QED
    BY <1>s, <2>1, <2>2, Zenon
<1>2. CASE Run
  <2>1. /\ commands' = Append(commands, args') /\ pc = "idle" /\ pc' = "parse"
        /\ UNCHANGED <<user, disk>>
    BY <1>2, Zenon DEF Run
  <2>2. commands \in Seq(Commands) /\ args' \in Commands
    BY <1>2, Zenon DEF TypeOK, Run
  <2>3. /\ Len(commands') = Len(commands) + 1 /\ Len(commands) \in Nat
        /\ Len(commands) = 1 => commands'[1] = commands[1]
    BY <2>1, <2>2, SMTT(20)
  <2>4. Len(commands') = 2
    BY <1>0, <2>1, Zenon DEF Between, runs
  <2>5. Len(commands) = 1
    <3>1. \A n \in Nat : n + 1 = 2 => n = 1
      BY SMTT(20)
    <3> QED
      BY <2>3, <2>4, <3>1, Zenon
  <2> QED
    BY <1>s, <2>1, <2>3, <2>5, Zenon DEF Between, runs
<1>3. CASE Encoding \/ Name
  <2>1. pc = "parse" /\ UNCHANGED <<user, disk, commands, pc>>
    BY <1>3, Zenon DEF Encoding, Name, NextArg
  <2>2. Between
    BY <2>1, Zenon DEF Between, runs
  <2> QED
    BY <1>s, <2>1, <2>2, Zenon
<1>4. CASE Usage \/ Refuse
  <2>1. pc' = "exit"
    BY <1>4, Zenon DEF Usage, Refuse
  <2> QED
    BY <1>0, <2>1, Zenon DEF Between
<1>5. ASSUME NEW enc \in Encodings, Crash(enc) \/ Start(enc) PROVE FALSE
  <2>1. pc' = "crashed" \/ pc' = "convert"
    BY <1>5, Zenon DEF Crash, Start
  <2> QED
    BY <1>0, <2>1, Zenon DEF Between
<1>6. CASE Transcribe \/ FromUtf8 \/ SwapUnits \/ ToUtf8 \/ AtEnd
  <2>1. pc = "convert" /\ (pc' = pc \/ pc' = "idle") /\ Next
    BY <1>6, Zenon DEF Transcribe, FromUtf8, SwapUnits, ToUtf8, AtEnd, Reads, Done, Next
  <2>2. pc' = "idle" /\ runs' = 1
    BY <1>0, <2>1, Zenon DEF Between
  <2>3. UNCHANGED <<user, commands, inFile, outFile, to>>
    BY <2>1, <2>2, EndOfRun, Zenon
  <2>4. runs = 1 /\ to \in Encodings
    BY <2>1, <2>2, <2>3, SMTT(20) DEF runs, TypeOK
  <2>5. inFile = NameOf(commands[1], 1) /\ outFile = Way
    <3>1. "convert" \in {"convert", "crashed"}
      OBVIOUS
    <3> QED
      BY <2>1, <2>4, <3>1, Zenon DEF ArgsAreMeant, Way
  <2>6. inFile = Source /\ Way' = Way /\ Middle' = Middle
    BY <2>3, <2>5, Zenon DEF Way, Middle, Content
  <2>7. Way \in DOMAIN disk' /\ Tells(to, disk'[Way])
    BY <2>1, <2>2, <2>5, MarkedOutput, Zenon
  <2>8. Whole /\ ~MisreadIn(user.text) /\ to # user.enc /\ "UTF8" \in {user.enc, to} =>
            BeginsWith(to, disk'[Way], Middle, OldBytes(Way))
    BY <2>1, <2>2, <2>4, <2>5, <2>6, FirstRunIsMiddle, Zenon
  <2>10. PICK e : e = to
    OBVIOUS
  <2>11. HoldsMiddle(e)'
    BY <2>3, <2>6, <2>7, <2>8, <2>10, Zenon DEF HoldsMiddle, Whole, MisreadIn, OldBytes
  <2> QED
    BY <2>4, <2>10, <2>11, Zenon
<1> QED
  BY <1>1, <1>2, <1>3, <1>4, <1>5, <1>6, Zenon DEF Next

\* The run back.
Back ==
    /\ runs = 2 /\ Whole /\ ~MisreadIn(user.text)
    /\ to = user.enc /\ from # to /\ "UTF8" \in {from, to}
    /\ NameOf(commands[1], 1) = Source /\ inFile = Way

\* What is known of its files while it goes on.
BackFile ==
    /\ LiesIn(from, file, Middle)
    /\ Way \notin DOMAIN Before => Len(file) = Offset(from, Middle)[Len(Middle)]
BackInv ==
    pc = "convert" /\ Back =>
        /\ BackFile
        /\ Beyond(Middle) \/ \E k \in 0..Len(Middle) : Passed(Middle, k)

\* From UTF-16 the run back reads the file's own text, with another mark in front.
LEMMA MiddleIs ==
    ASSUME user \in Files
    PROVE  /\ user.enc = "UTF8" =>
                 /\ Middle \in Seq(CodePoint) /\ Len(Middle) = Len(Content) + 1 /\ Middle[1] = Mark
                 /\ \A i \in 1..Len(Content) : Middle[i + 1] = Content[i]
           /\ user.enc # "UTF8" => Middle = <<Mark>> \o NoMarks(BeforeLineEnd(user.text))
<1>1. user.enc # "UTF8" => Middle = <<Mark>> \o NoMarks(BeforeLineEnd(user.text))
  BY Zenon DEF Middle
<1>2. ASSUME user.enc = "UTF8"
      PROVE  /\ Middle \in Seq(CodePoint) /\ Len(Middle) = Len(Content) + 1 /\ Middle[1] = Mark
             /\ \A i \in 1..Len(Content) : Middle[i + 1] = Content[i]
  <2> DEFINE m == <<Mark>>
             c == Content
  <2>1. m \in Seq(CodePoint) /\ Len(m) = 1 /\ m[1] = Mark /\ c \in Seq(CodePoint) /\ Middle = m \o c
    BY <1>2, ContentType, MarkType, Zenon DEF Middle
  <2> HIDE DEF m, c
  <2>2. /\ m \o c \in Seq(CodePoint) /\ Len(m \o c) = Len(m) + Len(c)
        /\ \A i \in 1..Len(m) + Len(c) : (m \o c)[i] = IF i <= Len(m) THEN m[i] ELSE c[i - Len(m)]
    <3>1. m \in Seq(CodePoint) /\ c \in Seq(CodePoint)
      BY <2>1, Zenon
    <3> QED
      BY <3>1, ConcatProperties, Zenon
  <2>3. Len(c) \in Nat
    BY <2>1, LenProperties, Zenon
  <2>4. Len(m) + Len(c) = Len(c) + 1
    BY <2>1, <2>3, SMTT(20)
  <2>5. 1 \in 1..(Len(c) + 1) /\ 1 <= 1
        /\ \A k \in 1..Len(c) : k + 1 \in 1..(Len(c) + 1) /\ ~(k + 1 <= 1) /\ (k + 1) - 1 = k
    BY <2>3, SMTT(20)
  <2>6. Middle[1] = Mark /\ \A k \in 1..Len(c) : Middle[k + 1] = c[k]
    BY <2>1, <2>2, <2>4, <2>5, Zenon
  <2> QED
    BY <2>1, <2>2, <2>4, <2>6, Zenon DEF c
<1> QED
  BY <1>1, <1>2, Zenon

\* None of its characters is misread.
LEMMA MiddleSpared ==
    ASSUME user \in Files, ~MisreadIn(user.text), user.enc = "UTF8", NEW i \in 1..Len(Middle)
    PROVE  Middle[i] = Mark \/ ~Misread(Middle[i])
<1>1. /\ Len(Middle) = Len(Content) + 1 /\ Middle[1] = Mark
      /\ \A j \in 1..Len(Content) : Middle[j + 1] = Content[j]
  BY MiddleIs, Zenon
<1>2. Len(Content) \in Nat
  BY ContentType, LenProperties, Zenon
<1> DEFINE n == Len(Content)
<1> HIDE DEF n
<1>3. i = 1 \/ (i - 1 \in 1..n /\ (i - 1) + 1 = i /\ i - 2 \in Nat /\ i - 2 < n /\ (i - 2) + 1 = i - 1)
  <2>1. i \in 1..(n + 1) /\ n \in Nat
    BY <1>1, <1>2, Zenon DEF n
  <2> QED
    BY <2>1, SMTT(20)
<1>4. CASE i # 1
  <2>1. Middle[i] = Content[i - 1] /\ Content[(i - 2) + 1] = Content[i - 1]
    BY <1>1, <1>3, <1>4, Zenon DEF n
  <2>2. Content[(i - 2) + 1] = Mark \/ ~Misread(Content[(i - 2) + 1])
    BY <1>3, <1>4, NotMisread, Zenon DEF n
  <2> QED
    BY <2>1, <2>2, Zenon
<1> QED
  BY <1>1, <1>4, Zenon

\* What the run back has written once it is over is what is to come back: all of the
\* text, or what is before the first line end.
LEMMA ReturnsAll ==
    ASSUME user \in Files, to = user.enc, from # to, "UTF8" \in {from, to},
           from # "UTF8" => \A i \in 1..Len(Middle) : ~Stops(Middle[i])
    PROVE  Rendering(Middle) = Returned
<1>1. CASE from = "UTF8"
  <2> DEFINE r == NoMarks(BeforeLineEnd(user.text))
             m == Mark
  <2>1. r \in Seq(CodePoint) /\ m \in CodePoint
    BY MiddleType, MarkType, Zenon
  <2>2. Rendering(Middle) = <<m>> \o (<<m>> \o r) /\ Returned = <<m, m>> \o r
    <3>1. user.enc # "UTF8"
      BY <1>1, Zenon
    <3> QED
      BY <1>1, <3>1, MiddleIs, Zenon DEF Rendering, Returned
  <2> HIDE DEF r, m
  <2>3. <<m>> \o (<<m>> \o r) = <<m, m>> \o r
    BY <2>1, SMTT(20)
  <2> QED
    BY <2>2, <2>3, Zenon
<1>2. CASE from # "UTF8"
  <2>1. to = "UTF8" /\ user.enc = "UTF8"
    BY <1>2, SMTT(20)
  <2> DEFINE C == Content
             M == Middle
             N == Len(C)
  <2>2. /\ C \in Seq(CodePoint) /\ M \in Seq(CodePoint) /\ Len(M) = N + 1 /\ M[1] = Mark
        /\ \A i \in 1..N : M[i + 1] = C[i]
    BY <2>1, ContentType, MiddleIs, Zenon
  <2>3. \A i \in 1..Len(M) : ~Stops(M[i])
    BY <1>2, Zenon
  <2> HIDE DEF C, M
  <2>4. N \in Nat
    BY <2>2, LenProperties, Zenon
  <2> HIDE DEF N
  <2>5. \A i \in 1..N : i + 1 \in 1..(N + 1)
    BY <2>4, SMTT(20)
  <2>6. \A i \in 1..N : ~Stops(C[i])
    BY <2>2, <2>3, <2>5, Zenon
  <2>7. Converted = Rendering(Prefix(N))
    <3>1. Unended(Len(Content))
      BY <2>6, Zenon DEF Unended, C, N
    <3> QED
      BY <3>1, ConvertedAtEnd, Zenon DEF N, C
  <2>8. Prefix(N) = C
    <3>1. SubSeq(C, 1, Len(C)) = C
      BY <2>2, StartGrows, Zenon
    <3> QED
      BY <3>1, Zenon DEF Prefix, N, C
  <2>9. NoMarks(M) = NoMarks(C)
    BY <2>2, MarkInFront, Zenon DEF N
  <2> QED
    BY <1>2, <2>1, <2>7, <2>8, <2>9, Zenon DEF Converted, Rendering, Returned, M
<1> QED
  BY <1>1, <1>2, Zenon

LEMMA ReturnsPart ==
    ASSUME user \in Files, to = user.enc, to = "UTF8", from # "UTF8",
           NEW k \in Nat, k < Len(Middle), \A i \in 1..k : ~Stops(Middle[i]), Stops(Middle[k + 1])
    PROVE  Rendering(SubSeq(Middle, 1, k)) = Returned
<1> DEFINE C == Content
           M == Middle
           N == Len(C)
<1>1. /\ C \in Seq(CodePoint) /\ M \in Seq(CodePoint) /\ Len(M) = N + 1 /\ M[1] = Mark
      /\ \A i \in 1..N : M[i + 1] = C[i]
  BY ContentType, MiddleIs, Zenon
<1>2. k < Len(M) /\ Stops(M[k + 1]) /\ \A i \in 1..k : ~Stops(M[i])
  OBVIOUS
<1> HIDE DEF C, M
<1>3. N \in Nat
  BY <1>1, LenProperties, Zenon
<1> HIDE DEF N
<1>4. k # 0
  <2>1. 0 + 1 = 1
    OBVIOUS
  <2> QED
    BY <1>1, <1>2, <2>1, MarkType, Zenon
<1>5. PICK j \in Nat : k = j + 1
  <2>1. k - 1 \in Nat /\ k = (k - 1) + 1
    BY <1>4, SMTT(20)
  <2> QED
    BY <2>1, Zenon
<1>6. /\ j \in 0..N /\ j < N /\ j + 1 \in 1..N /\ 1 \in 1..(j + 1)
      /\ \A i \in 1..j : i + 1 \in 1..k /\ i \in 1..N
  BY <1>1, <1>2, <1>3, <1>5, SMTT(20)
<1>7. Stops(C[j + 1]) /\ \A i \in 1..j : ~Stops(C[i])
  <2>1. M[k + 1] = C[j + 1] /\ \A i \in 1..j : M[i + 1] = C[i]
    BY <1>1, <1>5, <1>6, Zenon
  <2> QED
    BY <1>2, <1>6, <2>1, Zenon
<1>8. Converted = Rendering(Prefix(j))
  <2>1. j \in Places /\ j < Len(Content) /\ Unended(j) /\ Stops(Content[j + 1])
    BY <1>6, <1>7, Zenon DEF Places, Unended, C, N
  <2> QED
    BY <2>1, ConvertedAtLineEnd, Zenon
<1> DEFINE a == SubSeq(C, 1, j)
           b == SubSeq(M, 1, k)
<1>9. a \in Seq(CodePoint) /\ Len(a) = j /\ \A i \in 1..j : a[i] = C[i]
  BY <1>1, <1>6, SMTT(20) DEF N
<1>10. b \in Seq(CodePoint) /\ Len(b) = j + 1 /\ \A i \in 1..(j + 1) : b[i] = M[i]
  BY <1>1, <1>2, <1>5, SMTT(20)
<1> HIDE DEF a, b
<1>11. b[1] = Mark /\ \A i \in 1..Len(a) : b[i + 1] = a[i]
  <2>1. \A i \in 1..j : b[i + 1] = M[i + 1]
    BY <1>5, <1>6, <1>10, Zenon
  <2> QED
    BY <1>1, <1>6, <1>9, <1>10, <2>1, Zenon
<1>12. NoMarks(b) = NoMarks(a)
  BY <1>9, <1>10, <1>11, MarkInFront, Zenon
<1>13. Prefix(j) = a
  BY Zenon DEF Prefix, a, C
<1> QED
  BY <1>8, <1>12, <1>13, Zenon DEF Converted, Rendering, Returned, b, M

\* The run back starts with the file that the first run left, and with nothing read.
LEMMA BackStarts ==
    ASSUME TypeOK, FileInv, MiddleInv, NEW enc \in Encodings, Start(enc), Back'
    PROVE  BackFile' /\ (\E k \in 0..Len(Middle) : Passed(Middle, k))'
<1>1. /\ pc = "parse" /\ StartsWith(enc) /\ from' = enc /\ inFile # outFile
      /\ UNCHANGED <<user, commands, inFile, to>> /\ file' = disk[inFile] /\ pos' = 0
      /\ out' = IF enc = to THEN <<>> ELSE Bom(to)
  BY Zenon DEF Start, Opens, Parsed, arguments
<1>2. /\ runs = 2 /\ Whole /\ ~MisreadIn(user.text) /\ to = user.enc /\ enc # to
      /\ "UTF8" \in {enc, to} /\ NameOf(commands[1], 1) = Source /\ inFile = Way
  BY <1>1, Zenon DEF Back, runs, Whole, MisreadIn, Way
<1>3. user \in Files /\ to \in Encodings
  BY <1>2, ContentType, Zenon DEF FileInv
<1>4. PICK e \in Encodings : HoldsMiddle(e)
  BY <1>1, <1>2, Zenon DEF MiddleInv, Between
<1>5. e = enc
  <2>1. Tells(e, disk[inFile]) /\ Tells(enc, disk[inFile])
    BY <1>1, <1>2, <1>4, StartTells, Zenon DEF HoldsMiddle
  <2> QED
    BY <2>1, TellsOne, Zenon
<1>6. BeginsWith(enc, disk[Way], Middle, OldBytes(Way))
  <2>1. "UTF8" \in {user.enc, enc}
    BY <1>2, SMTT(20)
  <2> QED
    BY <1>2, <1>4, <1>5, <2>1, Zenon DEF HoldsMiddle
<1> DEFINE n == Offset(enc, Middle)[Len(Middle)]
           f == disk[Way]
<1>7. /\ Len(f) >= n /\ Spells(enc, SubSeq(f, 1, n), Middle)
      /\ \A i \in (n + 1)..Len(f) : i <= Len(OldBytes(Way))
  BY <1>6, Zenon DEF BeginsWith
<1>8. n \in Nat /\ Len(f) \in Nat
  <2>1. f \in Seq(Byte)
    BY <1>4, Zenon DEF HoldsMiddle, TypeOK
  <2> QED
    BY <1>3, <2>1, MiddleType, EndType, LenProperties, Zenon
<1>9. Middle' = Middle /\ Way' = Way /\ file' = f
  BY <1>1, <1>2, Zenon DEF Middle, Content, Way
<1>10. Way \notin DOMAIN Before => Len(f) = n
  <2> SUFFICES ASSUME Way \notin DOMAIN Before PROVE Len(f) = n
    OBVIOUS
  <2>1. Len(OldBytes(Way)) = 0
    <3>1. OldBytes(Way) = <<>>
      BY Zenon DEF OldBytes
    <3> QED
      BY <3>1, EmptySeq, Zenon
  <2> HIDE DEF n, f
  <2>2. ASSUME n < Len(f) PROVE FALSE
    <3>1. n + 1 \in (n + 1)..Len(f) /\ ~(n + 1 <= 0)
      BY <1>8, <2>2, SMTT(20)
    <3> QED
      BY <1>7, <2>1, <3>1, Zenon
  <2> QED
    BY <1>7, <1>8, <2>2, SMTT(20)
<1>11. BackFile'
  <2>1. n <= Len(f)
    <3> HIDE DEF n, f
    <3> QED
      BY <1>7, <1>8, SMTT(20)
  <2>2. LiesIn(enc, f, Middle)
    BY <1>7, <2>1, Zenon DEF LiesIn
  <2> QED
    BY <1>1, <1>9, <1>10, <2>2, Zenon DEF BackFile
<1>12. Passed(Middle, 0)'
  <2>1. PICK T : T = Middle
    OBVIOUS
  <2>2. T \in Seq(CodePoint) /\ Middle' = T
    BY <1>3, <1>9, <2>1, MiddleType, Zenon
  <2>3. Offset(from', T)[0] = 0 /\ SubSeq(T, 1, 0) = <<>>
    BY <2>2, OffsetSteps, StartGrows, Zenon
  <2>4. NoMarks(<<>>) = <<>>
    <3> DEFINE z == <<>>
    <3>1. z \in Seq(CodePoint) /\ Len(z) = 0
      OBVIOUS
    <3> HIDE DEF z
    <3>2. Kept(z)[0] = <<>>
      BY <3>1, KeptSteps, Zenon
    <3> QED
      BY <3>1, <3>2, Zenon DEF NoMarks, z
  <2>5. <<Mark>> \o <<>> = <<Mark>>
    BY MarkType, ConcatEmptySeq, Zenon
  <2>6. (Rendering(SubSeq(T, 1, 0)))' = <<Mark>>
    BY <2>3, <2>4, <2>5, Zenon DEF Rendering
  <2>7. Spells(to', out', <<Mark>>)
    BY <1>1, <1>2, <1>3, SpellsMark, Zenon
  <2>8. \A i : i \notin 1..0
    BY SMTT(20)
  <2> QED
    BY <1>1, <2>2, <2>3, <2>6, <2>7, <2>8, Zenon DEF Passed
<1>13. 0 \in (0..Len(Middle))'
  <2>1. Len(Middle) \in Nat
    BY <1>3, MiddleType, Zenon
  <2> DEFINE x == Len(Middle)
  <2> HIDE DEF x
  <2>2. 0 \in 0..x
    BY <2>1, SMTT(20) DEF x
  <2> QED
    BY <1>9, <2>2, Zenon DEF x
<1> QED
  BY <1>11, <1>12, <1>13, Zenon

\* A turn of the run back.
LEMMA BackTurns ==
    ASSUME TypeOK, FileInv, Back, BackFile, FromUtf8 \/ ToUtf8, pc' = "convert",
           Beyond(Middle) \/ \E k \in 0..Len(Middle) : Passed(Middle, k)
    PROVE  (Beyond(Middle) \/ \E k \in 0..Len(Middle) : Passed(Middle, k))'
<1>1. UNCHANGED <<user, from, to, file>> /\ user \in Files
  BY Zenon DEF FromUtf8, ToUtf8, FileInv
<1>2. PICK T : T = Middle
  OBVIOUS
<1>3. Middle' = T
  BY <1>1, <1>2, Zenon DEF Middle, Content
<1>4. T \in Seq(CodePoint) /\ Len(T) \in Nat /\ LiesIn(from, file, T)
  BY <1>1, <1>2, MiddleType, Zenon DEF BackFile
<1>5. ASSUME from # "UTF8", NEW i \in 1..Len(T) PROVE T[i] = Mark \/ ~Misread(T[i])
  <2>1. user.enc = "UTF8" /\ ~MisreadIn(user.text)
    BY <1>5, SMTT(20) DEF Back
  <2> QED
    BY <1>1, <1>2, <1>5, <2>1, MiddleSpared, Zenon
\* Once all of it is read,
<1>6. ASSUME pos >= Offset(from, T)[Len(T)], LiesIn(to, out, Rendering(T)),
             from # "UTF8" => \A i \in 1..Len(T) : ~Stops(T[i])
      PROVE  Beyond(T)'
  BY <1>4, <1>6, TurnGoesOn, Zenon
<1>7. pos \in Nat /\ Offset(from, T)[Len(T)] \in Nat /\ out \in Seq(Byte)
  BY <1>4, EndType, Zenon DEF TypeOK
<1>8. ASSUME Beyond(T) PROVE Beyond(T)'
  <2> DEFINE n == Offset(from, T)[Len(T)]
  <2>1. pos > n /\ n \in Nat
    BY <1>7, <1>8, Zenon DEF Beyond
  <2> HIDE DEF n
  <2>2. pos >= n
    BY <1>7, <2>1, SMTT(20)
  <2> QED
    BY <1>6, <1>8, <2>2, Zenon DEF Beyond, n
\* and as long as it is not.
<1>9. ASSUME NEW k \in 0..Len(T), Passed(T, k)
      PROVE  Beyond(T)' \/ \E j \in 0..Len(T) : Passed(T, j)'
  <2>1. k \in Nat /\ (k = Len(T) \/ (k < Len(T) /\ k + 1 \in 0..Len(T)))
    BY <1>4, SMTT(20)
  <2>2. CASE k < Len(T) /\ k + 1 \in 0..Len(T)
    <3>1. Passed(T, k + 1)'
      BY <1>4, <1>5, <1>9, <2>1, <2>2, TurnPasses, Zenon
    <3> QED
      BY <2>2, <3>1, Zenon
  <2>3. CASE k = Len(T)
    <3>1. /\ pos = Offset(from, T)[Len(T)] /\ Spells(to, out, Rendering(T))
          /\ from # "UTF8" => \A i \in 1..Len(T) : ~Stops(T[i])
      BY <1>4, <1>9, <2>3, StartGrows, Zenon DEF Passed
    <3>2. LiesIn(to, out, Rendering(T))
      BY <1>7, <3>1, SpelledLies, Zenon
    <3>3. pos >= Offset(from, T)[Len(T)]
      <4>1. \A x \in Nat : x >= x
        BY SMTT(20)
      <4> QED
        BY <1>7, <3>1, <4>1, Zenon
    <3> QED
      BY <1>6, <3>1, <3>2, <3>3, Zenon
  <2> QED
    BY <2>1, <2>2, <2>3, Zenon
<1>10. Beyond(T)' \/ \E j \in 0..Len(T) : Passed(T, j)'
  <2>1. CASE Beyond(Middle)
    <3>1. Beyond(T)
      BY <1>2, <2>1, Zenon
    <3> QED
      BY <1>8, <3>1, Zenon
  <2>2. CASE \E k \in 0..Len(Middle) : Passed(Middle, k)
    BY <1>2, <1>9, <2>2, Zenon
  <2> QED
    BY <2>1, <2>2, Zenon
<1> QED
  BY <1>3, <1>10, Zenon DEF Beyond, Passed

LEMMA BackInit == Init => BackInv
<1>1. "idle" # "convert"
  OBVIOUS
<1> QED
  BY <1>1, Zenon DEF Init, BackInv

LEMMA BackNext == TypeOK /\ FileInv /\ MiddleInv /\ BackInv /\ [Next]_vars => BackInv'
<1> SUFFICES ASSUME TypeOK, FileInv, MiddleInv, BackInv, [Next]_vars, pc' = "convert", Back'
             PROVE  /\ BackFile'
                    /\ (Beyond(Middle) \/ \E k \in 0..Len(Middle) : Passed(Middle, k))'
  BY Zenon DEF BackInv
<1>0. "convert" # "idle" /\ "convert" # "parse" /\ "convert" # "exit" /\ "convert" # "crashed"
  OBVIOUS
\* The run and its files are the same.
<1>s. ASSUME UNCHANGED <<user, commands, inFile, file, from, to>>, pc = "convert"
      PROVE  /\ Back /\ BackFile /\ BackFile' /\ Middle' = Middle
             /\ Beyond(Middle) \/ \E k \in 0..Len(Middle) : Passed(Middle, k)
  <2>1. Middle' = Middle /\ Way' = Way
    BY <1>s, Zenon DEF Middle, Content, Way
  <2>2. Back
    BY <1>s, <2>1, Zenon DEF Back, runs, Whole, MisreadIn
  <2>3. BackFile /\ (Beyond(Middle) \/ \E k \in 0..Len(Middle) : Passed(Middle, k))
    BY <1>s, <2>2, Zenon DEF BackInv
  <2>4. BackFile'
    BY <1>s, <2>1, <2>3, Zenon DEF BackFile
  <2> QED
    BY <2>1, <2>2, <2>3, <2>4, Zenon
<1>1. CASE UNCHANGED vars
  <2>1. UNCHANGED <<user, commands, inFile, file, from, to, pc, pos, out>>
    BY <1>1, Zenon DEF vars, arguments
  <2> QED
    BY <1>s, <2>1, Zenon DEF Beyond, Passed, Rendering
<1>2. CASE Run \/ Encoding \/ Usage \/ Name \/ Refuse
  <2>1. pc' = "parse" \/ pc' = "exit"
    BY <1>2, Zenon DEF Run, Refuse, Encoding, Usage, Name, NextArg
  <2> QED
    BY <1>0, <2>1, Zenon
<1>3. ASSUME NEW enc \in Encodings, Crash(enc) PROVE FALSE
  BY <1>0, <1>3, Zenon DEF Crash
<1>4. ASSUME NEW enc \in Encodings, Start(enc)
      PROVE  BackFile' /\ (Beyond(Middle) \/ \E k \in 0..Len(Middle) : Passed(Middle, k))'
  BY <1>4, BackStarts, Zenon
<1>5. CASE Transcribe \/ AtEnd
  <2>1. pc' = "idle"
    BY <1>5, Zenon DEF Transcribe, AtEnd, Done
  <2> QED
    BY <1>0, <2>1, Zenon
<1>6. CASE FromUtf8 \/ ToUtf8
  <2>1. UNCHANGED <<user, commands, inFile, file, from, to>> /\ pc = "convert"
    BY <1>6, Zenon DEF FromUtf8, ToUtf8, Reads, arguments
  <2> QED
    BY <1>6, <1>s, <2>1, BackTurns, Zenon
<1>7. CASE SwapUnits
  <2>1. {from, to} = {"UTF16LE", "UTF16BE"} /\ UNCHANGED <<from, to>>
    BY <1>7, Zenon DEF SwapUnits
  <2>2. "UTF8" \in {from, to}
    BY <2>1, Zenon DEF Back
  <2> QED
    BY <2>1, <2>2, SMTT(20)
<1> QED
  BY <1>1, <1>2, <1>3, <1>4, <1>5, <1>6, <1>7, Zenon DEF Next

\* What the run back has written once it is over.
Comes(bytes) ==
    /\ LiesIn(to, bytes, Returned)
    /\ Way \notin DOMAIN Before => Len(bytes) = Offset(to, Returned)[Len(Returned)]

LEMMA BackEnds ==
    ASSUME TypeOK, FileInv, BackInv, pc = "convert", Back, AtEnd \/ ToUtf8, pc' = "idle"
    PROVE  Comes(out)
<1>1. /\ user \in Files /\ out \in Seq(Byte) /\ pos \in Nat /\ Len(file) \in Nat /\ pos <= Len(file)
      /\ to = user.enc /\ from # to /\ "UTF8" \in {from, to}
  BY LenProperties, Zenon DEF FileInv, TypeOK, Back
<1>2. BackFile /\ (Beyond(Middle) \/ \E k \in 0..Len(Middle) : Passed(Middle, k))
  BY Zenon DEF BackInv
<1> DEFINE n == Offset(from, Middle)[Len(Middle)]
<1>3. Middle \in Seq(CodePoint) /\ Len(Middle) \in Nat /\ n \in Nat
  BY <1>1, MiddleType, EndType, Zenon
<1>4. LiesIn(from, file, Middle) /\ n <= Len(file) /\ (Way \notin DOMAIN Before => Len(file) = n)
  BY <1>2, Zenon DEF BackFile, LiesIn
<1>5. ASSUME Spells(to, out, Returned) PROVE Comes(out)
  BY <1>1, <1>5, SpelledLies, Zenon DEF Comes
\* More than the text is only read from a file that was there before.
<1>6. CASE Beyond(Middle)
  <2>1. /\ pos > n /\ LiesIn(to, out, Rendering(Middle))
        /\ from # "UTF8" => \A i \in 1..Len(Middle) : ~Stops(Middle[i])
    BY <1>6, Zenon DEF Beyond
  <2>2. Rendering(Middle) = Returned
    BY <1>1, <2>1, ReturnsAll, Zenon
  <2>3. Len(file) # n
    <3> HIDE DEF n
    <3> QED
      BY <1>1, <1>3, <2>1, SMTT(20)
  <2> QED
    BY <1>4, <2>1, <2>2, <2>3, Zenon DEF Comes
<1>7. ASSUME NEW k \in 0..Len(Middle), Passed(Middle, k) PROVE Comes(out)
  <2>1. /\ pos = Offset(from, Middle)[k] /\ Spells(to, out, Rendering(SubSeq(Middle, 1, k)))
        /\ from # "UTF8" => \A i \in 1..k : ~Stops(Middle[i])
    BY <1>7, Zenon DEF Passed
  <2>2. k \in Nat /\ (k = Len(Middle) \/ k < Len(Middle))
    BY <1>3, SMTT(20)
  <2>3. CASE k = Len(Middle)
    <3>1. Spells(to, out, Rendering(Middle))
      BY <1>3, <2>1, <2>3, StartGrows, Zenon
    <3>2. Rendering(Middle) = Returned
      BY <1>1, <2>1, <2>3, ReturnsAll, Zenon
    <3> QED
      BY <1>5, <3>1, <3>2, Zenon
  <2>4. CASE k < Len(Middle)
    <3>1. ToUtf8
      <4>1. pos < n
        <5>1. k \in 0..(Len(Middle) - 1) /\ Len(Middle) \in 0..Len(Middle)
          BY <1>3, <2>2, <2>4, SMTT(20)
        <5> QED
          BY <1>3, <2>1, <5>1, OffsetsGrow, Zenon
      <4>2. pos # Len(file)
        <5> HIDE DEF n
        <5> QED
          BY <1>1, <1>3, <1>4, <4>1, SMTT(20)
      <4>3. ~AtEnd
        BY <4>2, Zenon DEF AtEnd
      <4> QED
        BY <4>3, Zenon
    <3>2. from # "UTF8" /\ to = "UTF8"
      BY <3>1, Zenon DEF ToUtf8
    <3>3. Stops(Middle[k + 1])
      <4>1. PICK T : T = Middle
        OBVIOUS
      <4>2. Stops(T[k + 1])
        BY <1>3, <1>4, <1>7, <2>2, <2>4, <3>1, <4>1, TurnStops, Zenon
      <4> QED
        BY <4>1, <4>2, Zenon
    <3>4. Rendering(SubSeq(Middle, 1, k)) = Returned
      BY <1>1, <2>1, <2>2, <2>4, <3>2, <3>3, ReturnsPart, Zenon
    <3> QED
      BY <1>5, <2>1, <3>4, Zenon
  <2> QED
    BY <2>2, <2>3, <2>4, Zenon
<1> QED
  BY <1>2, <1>6, <1>7, Zenon

LEMMA ReturnedType == ASSUME user \in Files PROVE Returned \in Seq(CodePoint)
<1> DEFINE r == NoMarks(BeforeLineEnd(user.text))
           m == Mark
           h == IF to = "UTF8" THEN <<m>> ELSE <<m, m>>
<1>1. r \in Seq(CodePoint) /\ m \in CodePoint
  BY MiddleType, MarkType, Zenon
<1>2. Returned = h \o r
  BY Zenon DEF Returned
<1> HIDE DEF r, m
<1>3. h \in Seq(CodePoint)
  BY <1>1, SMTT(20)
<1> HIDE DEF h
<1>4. h \o r \in Seq(CodePoint)
  BY <1>1, <1>3, ConcatProperties, SMTT(20)
<1> QED
  BY <1>2, <1>4, Zenon

LEMMA ReturnNext ==
    TypeOK /\ FileInv /\ BackInv /\ RoundTrip /\ [Next]_vars => RoundTrip'
<1> DEFINE n == Offset(to, Returned)[Len(Returned)]
           claim == /\ Len(out) >= n /\ Spells(to, SubSeq(out, 1, n), Returned)
                    /\ Way \notin DOMAIN Before => Len(out) = n
<1> SUFFICES ASSUME TypeOK, FileInv, BackInv, RoundTrip, [Next]_vars, pc' = "idle", Back'
             PROVE  claim'
  BY Zenon DEF RoundTrip, Back, Returned, Way
<1>1. CASE UNCHANGED vars
  <2>1. UNCHANGED <<user, commands, inFile, from, to, pc, out>>
    BY <1>1, Zenon DEF vars, arguments
  <2>2. pc = "idle" /\ Back
    BY <2>1, Zenon DEF Back, runs, Whole, MisreadIn, Way
  <2>3. claim
    BY <2>2, Zenon DEF RoundTrip, Back, Returned, Way
  <2> QED
    BY <2>1, <2>3, Zenon DEF Returned, Way
<1>2. CASE Next
  <2>1. pc = "convert" /\ UNCHANGED <<user, commands, inFile, outFile, from, to>>
    BY <1>2, EndOfRun, Zenon
  <2>2. Back
    BY <2>1, Zenon DEF Back, runs, Whole, MisreadIn, Way
  <2>3. out' = out /\ (AtEnd \/ ToUtf8 \/ SwapUnits) /\ from # to /\ "UTF8" \in {from, to}
    BY <1>2, <2>2, EndOfRun, Zenon DEF Back
  <2>4. ~SwapUnits
    <3>1. SwapUnits => {from, to} = {"UTF16LE", "UTF16BE"}
      BY Zenon DEF SwapUnits
    <3>2. "UTF8" \notin {"UTF16LE", "UTF16BE"}
      BY SMTT(20)
    <3> QED
      BY <2>3, <3>1, <3>2, Zenon
  <2>5. Comes(out)
    BY <2>1, <2>2, <2>3, <2>4, BackEnds, Zenon
  <2>6. claim
    <3>1. n <= Len(out) /\ Spells(to, SubSeq(out, 1, n), Returned)
          /\ (Way \notin DOMAIN Before => Len(out) = n)
      BY <2>5, Zenon DEF Comes, LiesIn
    <3>2. Len(out) \in Nat /\ n \in Nat
      <4>1. user \in Files /\ out \in Seq(Byte)
        BY Zenon DEF FileInv, TypeOK
      <4>2. Returned \in Seq(CodePoint)
        BY <4>1, ReturnedType, Zenon
      <4> QED
        BY <4>1, <4>2, EndType, LenProperties, Zenon
    <3>3. \A a, b \in Nat : a <= b => b >= a
      BY SMTT(20)
    <3> QED
      BY <3>1, <3>2, <3>3, Zenon
  <2> QED
    BY <2>1, <2>3, <2>6, Zenon DEF Returned, Way
<1> QED
  BY <1>1, <1>2, Zenon

\* A file that is converted to another form and back, one of the two being UTF-8,
\* comes back as its text up to the first line end, without the marks that were in
\* it, and nothing else if the file in between was a new one: for any text without
\* characters that are misread, and whatever else lies on the disk.
THEOREM ComesBack == Spec => []RoundTrip
<1>1. Init => RoundTrip
  <2> SUFFICES ASSUME Init PROVE RoundTrip
    OBVIOUS
  <2>1. runs = 0
    BY SMTT(20) DEF Init, runs
  <2>2. 0 # 2
    OBVIOUS
  <2> QED
    BY <2>1, <2>2, Zenon DEF RoundTrip
<1> QED
  BY <1>1, TypeCorrect, ArgsMeant, OutputIsComplete, FileInit, FileNext, MarkInit, MarkNext,
     MiddleInit, MiddleNext, BackInit, BackNext, ReturnNext, PTL DEF Spec

=============================================================================
