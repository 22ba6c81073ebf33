---------------------------- MODULE ConfigFiles -----------------------------
(***************************************************************************)
(* Configuration files, from what their author means to the settings that  *)
(* hold for a request: Tokenizer, ConfigParser and RouteConfig in a row,   *)
(* over files written in several ways, cut short, damaged or contradicting *)
(* themselves. The instances of ConfigParser for TLC.                      *)
(***************************************************************************)
EXTENDS ConfigParser, Tokenizer, RouteConfig

VARIABLE file   \* the blocks it means, and whether it is a proper file

fileVars == <<vars, file>>

-----------------------------------------------------------------------------
(* The words of the files and what can be seen in them *)

Ports   == {"80", "8080"}
Numbers == "80" :> 80 @@ "8080" :> 8080 @@ "0" :> 0 @@ "70000" :> 70000
           @@ "404" :> 404 @@ "500" :> 500 @@ "299" :> 299 @@ "600" :> 600
           @@ "301" :> 301 @@ "200" :> 200 @@ "10" :> 10 @@ "1073741824" :> 1073741824
Sizes   == "10M" :> <<"10", 1048576>> @@ "10k" :> <<"10", 1024>> @@ "M" :> <<"", 1048576>>
           @@ "xk" :> <<"x", 1024>>
Hosts   == "lo:80" :> <<"lo", "80">> @@ "any:80" :> <<"any", "80">> @@ ":80" :> <<"", "80">>
           @@ "lo:0" :> <<"lo", "0">> @@ "80:" :> <<"80", "">>
Paths   == {"/", "/a", "/e", "/n"}
Keys    == {"server", "location", "{", "}", ";", "listen", "error_page", "client_max_body_size",
            "root", "index", "autoindex", "allowed_methods", "upload_pass", "cgi_pass", "return"}

MCText == DOMAIN Numbers \cup DOMAIN Sizes \cup DOMAIN Hosts \cup Paths \cup Keys
          \cup {"on", "off", "GET", "POST", "DELETE", "PUT", ".py", ".sh", "py", "x", "y",
                "", "lo", "any"}

MCLex ==
    [w \in MCText |->
        [head   |-> IF w \in Paths THEN "/" ELSE IF w \in {".py", ".sh"} THEN "." ELSE "x",
         number |-> IF w \in DOMAIN Numbers THEN Numbers[w] ELSE NaN,
         stem   |-> IF w \in DOMAIN Sizes THEN Sizes[w][1] ELSE w,
         unit   |-> IF w \in DOMAIN Sizes THEN Sizes[w][2] ELSE 1,
         host   |-> IF w \in DOMAIN Hosts THEN Hosts[w][1] ELSE NoHost,
         port   |-> IF w \in DOMAIN Hosts THEN Hosts[w][2] ELSE w]]

-----------------------------------------------------------------------------
(* What authors mean: blocks of clauses, <<key, arguments>> *)

Block(clauses, locations) == [clauses |-> clauses, locations |-> locations]
Place(path, clauses)      == [path |-> path, clauses |-> clauses]

\* Up to two of a list or all of it, in its order or the other way round
Some(list) == LET Chosen(S) == SelectSeq(list, LAMBDA c : c \in S)
              IN  {list} \cup {Chosen({c, d}) : c \in ToSet(list), d \in ToSet(list)} \cup {<<>>}
EitherWay(lists) == lists \cup {Reverse(l) : l \in lists}

ServerClauses == << <<"root", "x">>, <<"error_page", "404", "/e">>, <<"error_page", "500", "/e">>,
                    <<"client_max_body_size", "10M">>, <<"index", "y">> >>
PlaceClauses  == << <<"autoindex", "on">>, <<"root", "y">>, <<"allowed_methods", "GET", "DELETE">>,
                    <<"index", "x">>, <<"upload_pass", "x">>, <<"cgi_pass", ".py", "x">>,
                    <<"cgi_pass", ".sh", "x">>, <<"return", "301", "/n">> >>

Listens == {<<"listen", w>> : w \in {"80", "8080", "lo:80"}}

\* All clauses of a server, all clauses of a location, and several of each
OneServer  == {<<Block(Append(c, <<"listen", "80">>), <<Place("/", <<>>)>>)>> :
                 c \in EitherWay(Some(ServerClauses))}
OnePlace   == {<<Block(<< <<"listen", "lo:80">>, <<"root", "x">>, <<"index", "y">> >>, <<Place("/a", c)>>)>> :
                 c \in EitherWay(Some(PlaceClauses))}
Small      == Some(<< <<"root", "y">>, <<"index", "x">> >>)
SeveralOf  == {<<Block(<<l, <<"root", "x">> >>, <<Place("/", c), Place("/a", d)>>),
                 Block(<<m, <<"client_max_body_size", "10k">> >>, <<Place("/", c)>>)>> :
                 c \in Small, d \in Small, l \in Listens, m \in Listens}
Proper     == {b \in OneServer \cup OnePlace \cup SeveralOf :
                 Len(b) = 2 => b[1].clauses[1] # b[2].clauses[1]}

\* Repeated, a clause contradicts itself, even if it says the same again.
Insert(s, k) == InsertAt(s, k, s[k])
RepeatedIn(b) ==
    {[b EXCEPT !.clauses = Insert(@, k)] : k \in DOMAIN b.clauses}
    \cup {[b EXCEPT !.locations = Insert(@, k)] : k \in DOMAIN b.locations}
    \cup UNION {{[b EXCEPT !.locations[k].clauses = Append(@, @[n])] :
                   n \in DOMAIN b.locations[k].clauses} : k \in DOMAIN b.locations}
Repeated(blocks) ==
    {Insert(blocks, k) : k \in DOMAIN blocks}
    \cup UNION {{[blocks EXCEPT ![k] = r] : r \in RepeatedIn(blocks[k])} : k \in DOMAIN blocks}

\* Values that are none
Wrong(b) ==
    {[b EXCEPT !.clauses = Append(@, c)] :
        c \in {<<"error_page", "299", "/e">>, <<"error_page", "600", "/e">>, <<"x", "y">>,
               <<"client_max_body_size", "M">>, <<"client_max_body_size", "xk">>,
               <<"client_max_body_size", "1073741824">>, <<"autoindex", "on">>}}
    \cup {[b EXCEPT !.clauses = <<<<"listen", w>>>>] : w \in {"x", "0", "70000", ":80", "lo:0", "80:"}}
    \cup {[b EXCEPT !.clauses = <<>>]}
    \cup {[b EXCEPT !.locations = <<Place("/a", <<c>>)>>] :
            c \in {<<"return", "200", "/n">>, <<"return", "x", "/n">>, <<"autoindex", "x">>,
                   <<"allowed_methods", "PUT">>, <<"allowed_methods">>, <<"cgi_pass", "py", "x">>,
                   <<"listen", "80">>}}
    \cup {[b EXCEPT !.locations = <<Place("x", <<>>)>>]}

-----------------------------------------------------------------------------
(* How they write it *)

WriteClauses(cs)  == FlattenSeq([k \in DOMAIN cs |-> cs[k] \o <<";">>])
WritePlace(p)     == <<"location", p.path, "{">> \o WriteClauses(p.clauses) \o <<"}">>
WritePlaces(ps)   == FlattenSeq([k \in DOMAIN ps |-> WritePlace(ps[k])])
WriteServer(b, first)   == <<"server", "{">>
                     \o (IF first THEN WritePlaces(b.locations) \o WriteClauses(b.clauses)
                         ELSE WriteClauses(b.clauses) \o WritePlaces(b.locations))
                     \o <<"}">>
WriteAll(blocks, first) == FlattenSeq([k \in DOMAIN blocks |-> WriteServer(blocks[k], first)])

\* A line for each clause, with blanks only where two words would be joined
Spaced(words) == [k \in 1..(2 * Len(words) - 1) |-> IF k % 2 = 0 THEN " " ELSE words[(k + 1) \div 2]]
Dense(blocks) ==
    FlattenSeq([k \in DOMAIN blocks |->
        <<<<"server", "{">>>>
        \o [n \in DOMAIN blocks[k].clauses |-> Append(Spaced(blocks[k].clauses[n]), ";")]
        \o FlattenSeq([n \in DOMAIN blocks[k].locations |->
               LET p == blocks[k].locations[n] IN
               <<<<"location", "\t", p.path, "{">>>>
               \o [c \in DOMAIN p.clauses |-> Append(Spaced(p.clauses[c]), ";")]
               \o <<<<"}">>>>])
        \o <<<<"}">>>>])

\* The first word of each line in a line of its own, with comments and blanks
Sparse(lines) ==
    FlattenSeq([k \in DOMAIN lines |->
        << <<"\t", lines[k][1], "#", "}", " ", "x">>, <<" ", "\r">> \o Tail(lines[k]) \o <<" ">> >>])

\* Five words on each line, whatever they belong to
Wrapped(words) ==
    [k \in 1..((Len(words) + 4) \div 5) |->
        Spaced(SubSeq(words, 5 * k - 4, Min({5 * k, Len(words)})))]

Layouts(blocks) ==
    {Dense(blocks), Append(Sparse(Dense(blocks)), <<";">>), Wrapped(WriteAll(blocks, TRUE))}

\* One word lost; without one of its methods a file is another proper file.
Lost(words) == {RemoveAt(words, k) : k \in {n \in DOMAIN words : words[n] \notin {"GET", "DELETE"}}}

\* The end lost, but not whole servers
Cut(blocks) ==
    LET words == WriteAll(blocks, FALSE)
        whole == {Len(WriteAll(SubSeq(blocks, 1, k), FALSE)) : k \in 1..Len(blocks)}
    IN  {SubSeq(words, 1, k) : k \in (0..Len(words)) \ whole}

Improper(blocks) ==
    Lost(WriteAll(blocks, TRUE)) \cup Lost(WriteAll(blocks, FALSE)) \cup Cut(blocks)
    \cup {WriteAll(b, FALSE) : b \in Repeated(blocks)}

\* A proper file means its blocks, another one nothing.
ProperFile(blocks, lines) ==
    /\ file = [blocks |-> blocks, proper |-> TRUE]
    /\ tokens = parse(lines)

ImproperFile(words) ==
    /\ file = [blocks |-> <<>>, proper |-> FALSE]
    /\ tokens = words

FilesInit ==
    /\ \/ \E blocks \in Proper :
             \/ \E lines \in Layouts(blocks) : ProperFile(blocks, lines)
             \/ \E words \in Improper(blocks) : ImproperFile(words)
       \/ \E b \in Wrong(Block(<<<<"listen", "80">>>>, <<>>)) : ImproperFile(WriteServer(b, FALSE))
    /\ i = 1 /\ state = "GLOBAL" /\ servers = <<>>
    /\ server_seen = {} /\ location_seen = {}
    /\ verdict = "none"

FilesSpec == FilesInit /\ [][Next /\ UNCHANGED file]_fileVars

-----------------------------------------------------------------------------
(* What it means *)

Arg(clauses, key, default) ==
    IF \E c \in ToSet(clauses) : c[1] = key
    THEN (CHOOSE c \in ToSet(clauses) : c[1] = key)[2] ELSE default

Pairs(clauses, key) == {<<c[2], c[3]>> : c \in {d \in ToSet(clauses) : d[1] = key}}
Codes(clauses, key) == {<<Numbers[p[1]], p[2]>> : p \in Pairs(clauses, key)}
Methods(clauses)    == UNION {ToSet(Tail(c)) : c \in {d \in ToSet(clauses) : d[1] = "allowed_methods"}}

Address == "80" :> <<"0.0.0.0", "80">> @@ "8080" :> <<"0.0.0.0", "8080">> @@ "lo:80" :> <<"lo", "80">>
Limit   == "10M" :> 10 * 1024 * 1024 @@ "10k" :> 10 * 1024 @@ "" :> 1024 * 1024

\* A server without locations has settings too: what is written in it.
MeansServer(s, b) ==
    /\ <<s.host, s.port>> = Address[Arg(b.clauses, "listen", "")]
    /\ getErrorPages(s) = Codes(b.clauses, "error_page")
    /\ getMaxBodySize(s) = Limit[Arg(b.clauses, "client_max_body_size", "")]

\* The settings of a request that matches the location, or none, <<>>
MeansRoute(s, location, b, clauses) ==
    /\ getRoot(s, location) = Arg(clauses, "root", Arg(b.clauses, "root", ""))
    /\ getIndex(s, location) = Arg(clauses, "index", Arg(b.clauses, "index", ""))
    /\ getAutoindex(location) = (Arg(clauses, "autoindex", "off") = "on")
    /\ getAllowedMethods(location) = Methods(clauses)
    /\ getRedirect(location) = Codes(clauses, "return")
    /\ getUploadStore(location) = Arg(clauses, "upload_pass", "")
    /\ getCgiPass(location) = Pairs(clauses, "cgi_pass")

\* A proper file is accepted, in whatever order, spacing and company its clauses
\* are, and every request then has the settings of the innermost block that
\* writes them, those of no other server or location.
ReadAsWritten ==
    file.proper /\ verdict # "none" =>
    /\ verdict = "accepted"
    /\ Len(servers) = Len(file.blocks)
    /\ \A k \in DOMAIN servers :
          LET s == servers[k]  b == file.blocks[k] IN
          /\ MeansServer(s, b)
          /\ MeansRoute(s, <<>>, b, <<>>)
          /\ [n \in DOMAIN s.locations |-> s.locations[n].path]
                = [n \in DOMAIN b.locations |-> b.locations[n].path]
          /\ \A n \in DOMAIN s.locations :
                MeansRoute(s, <<s.locations[n]>>, b, b.locations[n].clauses)

\* A file that is cut short, has lost a word, says something twice or has a
\* value that is none is never taken for another one.
NeverMisread == ~file.proper => verdict # "accepted"
=============================================================================
