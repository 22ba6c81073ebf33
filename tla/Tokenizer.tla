------------------------------ MODULE Tokenizer -----------------------------
(***************************************************************************)
(* Tokenizer: from the lines of a configuration file to its tokens. A line *)
(* is a sequence of strings: words, or parts of words, and the characters  *)
(* that decide something, each by itself. Words are joined where no such   *)
(* character separates them.                                               *)
(***************************************************************************)
EXTENDS Naturals, SequencesExt

Blanks == {" ", "\t", "\r"}
Marks  == {"{", "}", ";"}

\* Everything behind the first # of a line is a comment.
KeepComment(line) == line                                       \* mutation
WithoutComment(line) ==
    IF \E k \in DOMAIN line : line[k] = "#"
    THEN SubSeq(line, 1, (CHOOSE k \in DOMAIN line :
                            line[k] = "#" /\ \A j \in 1..(k - 1) : line[j] # "#") - 1)
    ELSE line

trim(line) ==
    LET words == {k \in DOMAIN line : line[k] \notin Blanks} IN
    IF words = {} THEN <<>>
    ELSE SubSeq(line, CHOOSE k \in words : \A j \in words : k <= j,
                      CHOOSE k \in words : \A j \in words : j <= k)

\* current_token goes to the tokens unless it is empty.
Flush(t) == [done |-> IF t.current = "" THEN t.done ELSE Append(t.done, t.current),
             current |-> ""]

Take(t, c) ==
    IF c \in Blanks THEN Flush(t)
    ELSE IF c \in Marks THEN [Flush(t) EXCEPT !.done = Append(@, c)]
    ELSE [t EXCEPT !.current = @ \o c]

\* The tokens of a line; a word does not go on in the next one.
tokenize(line) ==
    LET t[k \in 0..Len(line)] == IF k = 0 THEN [done |-> <<>>, current |-> ""]
                                 ELSE Take(t[k - 1], line[k])
    IN  Flush(t[Len(line)]).done

parse(lines) ==
    FlattenSeq([k \in DOMAIN lines |-> tokenize(trim(WithoutComment(lines[k])))])
=============================================================================
