------------------------------ MODULE MCCiphers ------------------------------
EXTENDS CiphersProperties

MCPolybius == [i \in 1..94 |-> 32 + i]
MCFm == [i \in 1..26 |-> 64 + i]

\* Codes of one to six symbols, and a character that has none.
MCMorse ==
    33 :> <<1, 0, 1, 0, 1, 1>> @@ 48 :> <<1, 1, 1, 1, 1>> @@ 65 :> <<0, 1>>
    @@ 69 :> <<0>> @@ 72 :> <<0, 0, 0, 0>> @@ 83 :> <<0, 0, 0>> @@ 97 :> <<>>

\* Keys: the first letters, the last ones, a repetition at a distance and one
\* that is refused, characters that are in no alphabet or in one only.
Keys == {<<65>>, <<90, 69>>, [i \in 1..6 |-> 64 + i], [i \in 1..7 |-> 71 - i],
         <<65, 69, 65>>, <<65, 65>>, <<126>>, <<127>>}
Sides == {<<57>>, <<49, 48>>, <<49, 49>>, <<49, 53>>, <<49, 54>>, <<58>>}

Call(flags, values) == [flags |-> flags, values |-> values]

MCInvocations ==
    {Call(<<c, "e">>, <<>>) : c \in {"p", "f"}}
    \cup {Call(<<c, "e", "k">>, <<key>>) : c \in {"p", "f"}, key \in Keys}
    \cup {Call(<<"p", "e", o>>, <<s>>) : o \in {"r", "c"}, s \in Sides}
    \cup {Call(<<"p", "e", "r", "k", "c">>, <<r, key, c>>) :
              r \in {<<57>>, <<49, 53>>}, c \in {<<57>>, <<49, 49>>, <<49, 53>>}, key \in Keys}
    \cup {Call(flags, <<<<57>>>>) :
             flags \in {<<>>, <<"h">>, <<"p">>, <<"x">>, <<"p", "x">>, <<"f", "e", "x">>,
                        <<"p", "e", "r", "r">>, <<"p", "e", "r", "c">>, <<"p", "e", "c", "k">>,
                        <<"p", "e", NoLetter>>, <<"f", "e", NoLetter, NoLetter>>,
                        <<"p", "e", "r", NoLetter>>}}
    \cup {Call(<<"p", "e", o, NoLetter, "k", p, "x">>, <<<<57>>, <<57>>, <<69, 70>>, <<49>>>>) :
              o \in {"r", "c"}, p \in {"r", "x"}}

\* The byte behind three symbols is zero, or it is not and is a dot, a separator or
\* something else.
MCTails == {<<>>, <<0>>, <<2, 3>>, <<3, 1, 3>>, <<0, 0, 2, 1, 3>>}

\* For Polybius characters of the first and last columns and rows, the last ones
\* of the alphabet and one that is not in it; for Morse lines of up to four
\* characters, of which one has no code and one is not in the table.
Lines == UNION {[1..n -> {33, 65, 69, 83, 32}] : n \in 1..4}
MCTexts == [
    p |-> {<<33, 42, 43, 32, 47, 9, 48, 10>>, <<126, 125, 65, 70>>, <<33, 65, 1>>, <<>>},
    f |-> {Append(line, 10) : line \in Lines}
          \cup {<<97, 83, 32, 123>>, <<83, 10, 48, 72, 10>>, <<83, 97, 97, 72, 10>>}]
=============================================================================
