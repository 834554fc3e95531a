----------------------------- MODULE CommandLine -----------------------------
(***************************************************************************)
(* How the shell reads a line: makePrograms and programify of              *)
(* hw4/src/sfish.c.  A line is a sequence of words, blanks and the         *)
(* characters < > and |.                                                   *)
(***************************************************************************)
EXTENDS Naturals, Sequences

Blank == " "
NULL == "NULL"   \* no text at all; not a word of any line

\* setEmpty.
EmptyProgram ==
    [type |-> "PROGRAM", name |-> NULL, args |-> <<>>, infile |-> NULL, outfile |-> NULL]

BuiltIns == {"help", "cd", "pwd", "jobs", "fg", "kill"}
TypeOf(name) == IF name \in BuiltIns THEN name ELSE "PROGRAM"

-----------------------------------------------------------------------------
(* programify: tok says what the next word is *)

NewParser == [program |-> EmptyProgram, tok |-> "PROG", hasRed |-> FALSE]

\* The last of several words behind a redirection is its file.
Word(parser, w) ==
    CASE parser.tok = "PROG" ->
            [parser EXCEPT !.program.name = w, !.program.args = <<w>>,
                           !.program.type = TypeOf(w), !.tok = "ARG"]
      [] parser.tok = "ARG" -> [parser EXCEPT !.program.args = Append(@, w)]
      [] parser.tok = "IN"  -> [parser EXCEPT !.program.infile = w]
      [] parser.tok = "OUT" -> [parser EXCEPT !.program.outfile = w]

\* Where a word is missing the empty one is taken.
WordIsMissing(parser) ==
    CASE parser.tok = "PROG" -> parser.program.name = NULL
      [] parser.tok = "ARG"  -> FALSE
      [] parser.tok = "IN"   -> parser.program.infile = NULL
      [] parser.tok = "OUT"  -> parser.program.outfile = NULL

OnlyRepeatIsBad(parser, to) == parser.tok = to
\* A second < or > in a row, or either of them when both were there before.
Refused(parser, to) == parser.tok = to \/ (parser.tok \in {"IN", "OUT"} /\ parser.hasRed)

\* The first kind of refusal ends the loop, the second does not.
Redirect(parser, to) ==
    LET before == IF WordIsMissing(parser) THEN Word(parser, "") ELSE parser
    IN  [before EXCEPT !.program.type = IF Refused(parser, to) THEN "BAD" ELSE @,
                       !.hasRed = @ \/ parser.tok \in {"IN", "OUT"},
                       !.tok = IF parser.tok = to THEN "END" ELSE to]

Token(parser, t) ==
    IF parser.tok = "END" THEN parser
    ELSE IF t = "<" THEN Redirect(parser, "IN")
    ELSE IF t = ">" THEN Redirect(parser, "OUT")
    ELSE Word(parser, t)

\* The words of a part: the blanks between them are passed over.
Words(part) ==
    LET words[k \in 0..Len(part)] ==
            IF k = 0 THEN <<>>
            ELSE IF part[k] = Blank THEN words[k - 1] ELSE Append(words[k - 1], part[k])
    IN  words[Len(part)]

\* The parser behind each word.
Parsers(words) ==
    LET parser[k \in 0..Len(words)] ==
            IF k = 0 THEN NewParser ELSE Token(parser[k - 1], words[k])
    IN  parser

Programify(part) == Parsers(Words(part))[Len(Words(part))].program

-----------------------------------------------------------------------------
(* makePrograms *)

\* strtok: bars in a row are one, and none is left at the ends.
Parts(line) ==
    LET parts[k \in 0..Len(line)] ==
            IF k = 0 THEN <<>>
            ELSE IF line[k] = "|" THEN parts[k - 1]
            ELSE IF k = 1 \/ line[k - 1] = "|" THEN Append(parts[k - 1], <<line[k]>>)
            ELSE [parts[k - 1] EXCEPT ![Len(parts[k - 1])] = Append(@, line[k])]
    IN  parts[Len(line)]

\* A line of bars only, in which strtok finds no part, is read as one word; "||"
\* stands for all that are longer than one bar.
Bars(line) == IF Len(line) = 1 THEN "|" ELSE "||"

MakePrograms(line) ==
    IF Parts(line) = <<>> THEN <<Programify(<<Bars(line)>>)>>
    ELSE [i \in DOMAIN Parts(line) |-> Programify(Parts(line)[i])]

\* exit is obeyed where it is read, be it behind a bar.
Exits(line) == \E i \in DOMAIN MakePrograms(line) : MakePrograms(line)[i].name = "exit"

=============================================================================
