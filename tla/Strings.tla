------------------------------ MODULE Strings -------------------------------
(***************************************************************************)
(* std::string. A character is a token, and a word whose characters decide *)
(* nothing is a single one. Positions are those of the code, from 0.       *)
(***************************************************************************)
EXTENDS Integers, SequencesExt

CR == "\r"
LF == "\n"
CRLF == <<CR, LF>>
Semicolon == ";"
npos == -1

Min2(m, n) == IF m < n THEN m ELSE n

\* Behind the last character there is a null character.
At(d, k)        == IF k < Len(d) THEN d[k + 1] ELSE "null"
Substr(d, k, n) == SubSeq(d, k + 1, Min2(k + n, Len(d)))
IsCRLF(d, k)    == At(d, k) = CR /\ At(d, k + 1) = LF

\* find(): the first of the positions at which something is, or npos
First(positions)    == IF positions = {} THEN npos ELSE Min(positions)
Positions(d)        == 0..(Len(d) - 1)
FindCRLF(d, k)      == First({j \in Positions(d) : j >= k /\ IsCRLF(d, j)})
Find(d, pattern, k) == First({j \in Positions(d) : j >= k /\ Substr(d, j, Len(pattern)) = pattern})

\* Without such characters at either end
Trim(s, chars) ==
    LET kept == {k \in DOMAIN s : s[k] \notin chars}
    IN  IF kept = {} THEN <<>> ELSE SubSeq(s, Min(kept), Max(kept))

\* What is between the separators, be it nothing
Split(s, separators) ==
    LET from[k \in 0..Len(s)] ==
            LET end == First({j \in Positions(s) : j >= k /\ At(s, j) \in separators})
            IN  IF end = npos THEN <<Substr(s, k, Len(s))>>
                ELSE <<Substr(s, k, end - k)>> \o from[end + 1]
    IN  from[0]

\* What is between the line ends, be it nothing
Lines(text) ==
    LET from[k \in 0..Len(text)] ==
            LET crlf == FindCRLF(text, k)
            IN  IF crlf = npos THEN <<Substr(text, k, Len(text))>>
                ELSE <<Substr(text, k, crlf - k)>> \o from[crlf + 2]
    IN  from[0]

\* A map of lines by their first word keeps the rest of the last one.
LastNamed(lines, name) ==
    LET found == {k \in DOMAIN lines : lines[k] # <<>> /\ lines[k][1] = name}
    IN  IF found = {} THEN <<>> ELSE Tail(lines[Max(found)])

\* The digits that occur, decimal and hexadecimal
Digit == [c \in {"0", "1", "2", "3", "5", "6", "F"} |->
            CASE c = "0" -> 0 [] c = "1" -> 1 [] c = "2" -> 2 [] c = "3" -> 3
              [] c = "5" -> 5 [] c = "6" -> 6 [] c = "F" -> 15]

Strtoul(hex) ==
    LET value[k \in 0..Len(hex)] == IF k = 0 THEN 0 ELSE 16 * value[k - 1] + Digit[hex[k]]
    IN  value[Len(hex)]
=============================================================================
