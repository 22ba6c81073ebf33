---------------------------- MODULE HTTPRequest -----------------------------
(***************************************************************************)
(* What a request says besides its body: the words of its first line, as   *)
(* RequestParser takes them apart, and the cookies HTTPRequest finds.      *)
(***************************************************************************)
EXTENDS Strings

-----------------------------------------------------------------------------
(* The first line *)

\* An istringstream skips white space and gives what is up to the next.
White == {" ", "\t", CR, LF}
Words(line) ==
    LET from[k \in 0..Len(line)] ==
            LET start == First({j \in Positions(line) : j >= k /\ At(line, j) \notin White})
                end   == First({j \in Positions(line) : j >= start /\ At(line, j) \in White})
            IN  IF start = npos THEN <<>>
                ELSE IF end = npos THEN <<Substr(line, start, Len(line))>>
                ELSE <<Substr(line, start, end - start)>> \o from[end + 1]
    IN  from[0]

Versions == {<<"HTTP/1.0">>, <<"HTTP/1.1">>}

parseFirstLine(line) ==
    LET words == Words(line)
    IN  Len(words) = 3 /\ words[3] \in Versions

\* The characters that two digits may stand for
Character == [code \in 0..255 |->
                CASE code = 37 -> "%" [] code = 63 -> "?" [] code = 50 -> "2" [] code = 53 -> "5"
                  [] code = 33 -> "!" [] OTHER -> "other"]

IsCode(s, k) == At(s, k) = "%" /\ k + 2 < Len(s) /\ {At(s, k + 1), At(s, k + 2)} \subseteq DOMAIN Digit

urlDecode(s) ==
    LET from[k \in 0..Len(s)] ==
            IF k = Len(s) THEN <<>>
            ELSE IF IsCode(s, k)
                 THEN <<Character[Strtoul(<<At(s, k + 1), At(s, k + 2)>>)]>> \o from[k + 3]
                 ELSE <<At(s, k)>> \o from[k + 1]
    IN  from[0]

NoTarget == [uri |-> <<>>, query |-> <<>>]

\* The query begins at the first question mark, and keeps its codes.
CutQuery(uri) ==
    LET mark == Find(uri, <<"?">>, 0)
    IN  IF mark = npos THEN [uri |-> uri, query |-> <<>>]
        ELSE [uri |-> Substr(uri, 0, mark), query |-> Substr(uri, mark + 1, Len(uri))]

DecodeFirst(line) == CutQuery(urlDecode(Words(line)[2]))        \* mutation
\* What it is cut from is decoded behind it: a mark with a code belongs to the name.
Target(line) ==
    LET cut == CutQuery(Words(line)[2])
    IN  [uri |-> urlDecode(cut.uri), query |-> cut.query]

-----------------------------------------------------------------------------
(* The cookies *)

trimSpaces(s) == Trim(s, {" ", "\t"})

Equals(part) == Find(part, <<"=">>, 0)
KeyAsItIs(part) == IF Equals(part) = npos THEN <<>> ELSE Substr(part, 0, Equals(part)) \* mutation
KeyOf(part)     == IF Equals(part) = npos THEN <<>> ELSE trimSpaces(Substr(part, 0, Equals(part)))
ValueOf(part)   == trimSpaces(Substr(part, Equals(part) + 1, Len(part)))

\* The map of cookies keeps the last value of a key.
getCookie(value, key) ==
    LET parts == Split(value, {";"})
        found == {k \in DOMAIN parts : KeyOf(parts[k]) = key}
    IN  IF found = {} THEN <<>> ELSE ValueOf(parts[Max(found)])
=============================================================================
