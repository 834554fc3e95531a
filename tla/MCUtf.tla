------------------------------- MODULE MCUtf -------------------------------
EXTENDS UtfProperties

\* Characters on both sides of the boundaries, with their bytes in UTF-8 and
\* UTF-16BE; line end, mark, and characters that are misread.
Chars == {
    [cp |-> 10,      utf8 |-> <<10>>,                 utf16 |-> <<0, 10>>],
    [cp |-> 127,     utf8 |-> <<127>>,                utf16 |-> <<0, 127>>],
    [cp |-> 128,     utf8 |-> <<194, 128>>,           utf16 |-> <<0, 128>>],
    [cp |-> 2047,    utf8 |-> <<223, 191>>,           utf16 |-> <<7, 255>>],
    [cp |-> 2048,    utf8 |-> <<224, 160, 128>>,      utf16 |-> <<8, 0>>],
    [cp |-> 40960,   utf8 |-> <<234, 128, 128>>,      utf16 |-> <<160, 0>>],
    [cp |-> 65279,   utf8 |-> <<239, 187, 191>>,      utf16 |-> <<254, 255>>],
    [cp |-> 65535,   utf8 |-> <<239, 191, 191>>,      utf16 |-> <<255, 255>>],
    [cp |-> 65536,   utf8 |-> <<240, 144, 128, 128>>, utf16 |-> <<216, 0, 220, 0>>],
    [cp |-> 66559,   utf8 |-> <<240, 144, 143, 191>>, utf16 |-> <<216, 0, 223, 255>>],
    [cp |-> 66560,   utf8 |-> <<240, 144, 144, 128>>, utf16 |-> <<216, 1, 220, 0>>],
    [cp |-> 1113087, utf8 |-> <<244, 143, 175, 191>>, utf16 |-> <<219, 254, 223, 255>>],
    [cp |-> 1114111, utf8 |-> <<244, 143, 191, 191>>, utf16 |-> <<219, 255, 223, 255>>]}

LowHigh(s) == [i \in DOMAIN s |-> IF i % 2 = 1 THEN s[i + 1] ELSE s[i - 1]]
BytesOf(enc, c) ==
    CASE enc = "UTF8" -> c.utf8
      [] enc = "UTF16LE" -> LowHigh(c.utf16)
      [] enc = "UTF16BE" -> c.utf16

Spelled(enc, cs) ==
    LET all[k \in 0..Len(cs)] == IF k = 0 THEN Bom(enc) ELSE all[k - 1] \o BytesOf(enc, cs[k])
    IN  all[Len(cs)]

\* Texts of up to two characters, whole or with up to three bytes missing.
MCFiles ==
    {f \in {[text |-> [k \in DOMAIN cs |-> cs[k].cp], enc |-> enc,
             whole |-> Spelled(enc, cs), cut |-> Len(Spelled(enc, cs)) - missing] :
               enc \in Encodings, cs \in UNION {[1..n -> Chars] : n \in 0..2},
               missing \in 0..3} :
        f.cut >= 0}

\* Zeros, and a lower_bytes that both ways round is a surrogate.
MCStack == {<<0, 0, 0, 0>>, <<0, 0, 221, 221>>}

\* One file is there already.
MCBefore == [old |-> <<97, 98, 99, 100, 101, 102, 103>>]

\* Onto the file that is there, to a new one and back from it; the options and
\* names in another order, a word too many, and lines that are not meant.
MCCommands ==
    {<<"-e", e, "text", "old">> : e \in {"UTF8", "UTF16LE"}}
    \cup {<<"-e", "UTF16LE", "text", "new">>,
          <<"text", "-e", "UTF8", "new", "-e", "UTF16BE">>,
          <<"text", "new", "-e", "UTF8", "old">>}
    \cup {<<"new", "-e", e, "text">> : e \in Encodings} \cup {<<"old", "-e", "UTF8", "text">>}
    \cup {<<"text", "-e", "-h", "old">>, <<"text", "-h", "new">>, <<"text", "new">>,
          <<"-e", "-e", "text", "new">>, <<"text", "new", "-e">>, <<"-e", "UTF8", "text">>}
MCWords == Options \cup Encodings \cup {"text", "old", "new"}
=============================================================================
