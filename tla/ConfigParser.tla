---------------------------- MODULE ConfigParser ----------------------------
(***************************************************************************)
(* Parser::parse: from the tokens of a configuration file to the server    *)
(* blocks, or to an exception. One action is one turn of its loop: a block *)
(* that opens or closes, or a whole directive with its arguments.          *)
(*                                                                         *)
(* A word of the file is a string. What the parser finds out about its     *)
(* characters is in Lex; what it makes of that is modelled.                *)
(***************************************************************************)
EXTENDS Integers, Sequences

CONSTANTS
    Text,     \* the words a file may hold
    Lex,      \* what can be seen in a word, see LexAssumption
    NaN,      \* the number of a word that is none
    NoHost,   \* the host of a word without a colon
    WordSize  \* 2^64

ASSUME LexAssumption ==
    /\ Text \subseteq STRING
    /\ WordSize \in Nat \ {0} /\ NoHost # ""
    /\ Lex \in [Text -> [head   : STRING,             \* its first character
                         number : Int \cup {NaN},     \* its decimal value
                         stem   : Text,               \* without a last k, m or g
                         unit   : Nat,                \* what that letter stands for, or 1
                         host   : Text \cup {NoHost}, \* before the first colon
                         port   : Text]]              \* and behind it

VARIABLES
    tokens,        \* _tokens
    i,             \* index of the loop, from 1
    state,         \* "GLOBAL", "SERVER" or "LOCATION"
    servers,       \* current_server is the last one while it is open, and
                   \* current_location the last one of its locations
    server_seen,   \* directives of the open server block that may come once
    location_seen,
    verdict        \* "none" yet, "accepted", or "rejected" by an exception

vars == <<tokens, i, state, servers, server_seen, location_seen, verdict>>

Location == [path : Text, root : Text \cup {""}, index : Text \cup {""}, autoindex : BOOLEAN,
             methods : SUBSET {"GET", "POST", "DELETE"}, upload_pass : Text \cup {""},
             cgi_pass : SUBSET (Text \X Text), redirect : SUBSET (Int \X Text)]

Server == [port : Text \cup {""}, host : Text \cup {"0.0.0.0"}, root : Text \cup {""},
           index : Text \cup {""}, error_pages : SUBSET (Int \X Text),
           client_max_body_size : Nat, locations : Seq(Location)]

new_server ==
    [port |-> "", host |-> "0.0.0.0", root |-> "", index |-> "", error_pages |-> {},
     client_max_body_size |-> 1048576, locations |-> <<>>]

new_location(path) ==
    [path |-> path, root |-> "", index |-> "", autoindex |-> FALSE, methods |-> {},
     upload_pass |-> "", cgi_pass |-> {}, redirect |-> {}]

Init ==
    /\ tokens \in Seq(Text)
    /\ i = 1 /\ state = "GLOBAL" /\ servers = <<>>
    /\ server_seen = {} /\ location_seen = {}
    /\ verdict = "none"

-----------------------------------------------------------------------------
(* The values of directives *)

isvalidport(w) == Lex[w].number \in 1..65535

split_listen(w) ==
    IF Lex[w].host = NoHost THEN isvalidport(w)
    ELSE Lex[w].host # "" /\ isvalidport(Lex[w].port)

isvalid_error_number(w)  == Lex[w].number \in 300..599
isvalid_return_number(w) == Lex[w].number \in 300..399

\* operator>> reads a minus sign too, and gives up at what has no room.
IsSize(w) == Lex[Lex[w].stem].number \in (1 - WordSize)..(WordSize - 1)
isvalid_client_number(w) == (Lex[Lex[w].stem].number * Lex[w].unit) % WordSize

Defines(map, key) == \E p \in map : p[1] = key

-----------------------------------------------------------------------------
(* What the parser understands at i: the conditions under which none of its *)
(* exceptions is thrown                                                      *)

Reading == verdict = "none" /\ i <= Len(tokens)

Word(n)  == tokens[i + n]
AnyEnd(n) == i + n <= Len(tokens)                               \* mutation
Ends(n)  == i + n <= Len(tokens) /\ tokens[i + n] = ";"
At(key)  == Reading /\ tokens[i] = key

current_server   == servers[Len(servers)]
current_location == current_server.locations[Len(current_server.locations)]

OpensServer ==
    /\ At("server") /\ state = "GLOBAL"
    /\ i + 1 <= Len(tokens) /\ Word(1) = "{"

OpensLocation ==
    /\ At("location") /\ state = "SERVER"
    /\ i + 2 <= Len(tokens) /\ Word(2) = "{"
    /\ Lex[Word(1)].head = "/"
    /\ \A k \in 1..Len(current_server.locations) : current_server.locations[k].path # Word(1)

ClosesLocation == At("}") /\ state = "LOCATION"
ClosesUnnamed  == At("}") /\ state = "SERVER"                   \* mutation
ClosesServer   == At("}") /\ state = "SERVER" /\ current_server.port # ""

InServer(key)   == At(key) /\ state = "SERVER"
InLocation(key) == At(key) /\ state = "LOCATION"

\* mark_seen throws at a directive that may come once in its block.
FirstIn(seen, key) == key \notin seen

OnceInServer(key)   == InServer(key) /\ Ends(2) /\ FirstIn(server_seen, key)
OnceInLocation(key) == InLocation(key) /\ Ends(2) /\ FirstIn(location_seen, key)

IsListen       == OnceInServer("listen") /\ split_listen(Word(1))
IsErrorPage    == /\ InServer("error_page") /\ Ends(3) /\ isvalid_error_number(Word(1))
                  /\ ~Defines(current_server.error_pages, Lex[Word(1)].number)
IsMaxBodySize  == OnceInServer("client_max_body_size") /\ IsSize(Word(1))
IsServerRoot   == OnceInServer("root")
IsServerIndex  == OnceInServer("index")

IsRoot         == OnceInLocation("root")
IsIndex        == OnceInLocation("index")
IsAutoindex    == OnceInLocation("autoindex") /\ Word(1) \in {"on", "off"}
IsUploadPass   == OnceInLocation("upload_pass")
IsCgiPass      == /\ InLocation("cgi_pass") /\ Ends(3) /\ Lex[Word(1)].head = "."
                  /\ ~Defines(current_location.cgi_pass, Word(1))
IsReturn       == /\ InLocation("return") /\ Ends(3) /\ isvalid_return_number(Word(1))
                  /\ current_location.redirect = {}

\* n methods, and the semicolon
IsAllowedMethods(n) ==
    /\ InLocation("allowed_methods") /\ FirstIn(location_seen, "allowed_methods")
    /\ n >= 1 /\ Ends(n + 1)
    /\ \A k \in 1..n : Word(k) \in {"GET", "POST", "DELETE"}

Understood ==
    \/ OpensServer \/ OpensLocation \/ ClosesLocation \/ ClosesServer \/ At(";")
    \/ IsListen \/ IsErrorPage \/ IsMaxBodySize \/ IsServerRoot \/ IsServerIndex
    \/ IsRoot \/ IsIndex \/ IsAutoindex \/ IsUploadPass \/ IsCgiPass \/ IsReturn
    \/ \E n \in 1..Len(tokens) : IsAllowedMethods(n)

-----------------------------------------------------------------------------
(* The turns of the loop *)

Advance(n) == i' = i + n + 1 /\ UNCHANGED <<tokens, verdict>>

\* A seen-set that the previous block leaves behind
KeepSeen(seen)  == seen                                         \* mutation
ClearSeen(seen) == {}

WhenClosed(list) == list                                        \* mutation
WhenOpened(list) == Append(list, new_server)

OpenServer ==
    /\ OpensServer /\ Advance(1)
    /\ state' = "SERVER"
    /\ servers' = WhenOpened(servers)
    /\ server_seen' = ClearSeen(server_seen)
    /\ UNCHANGED location_seen

OpenLocation ==
    /\ OpensLocation /\ Advance(2)
    /\ state' = "LOCATION"
    /\ servers' = [servers EXCEPT ![Len(servers)].locations = Append(@, new_location(Word(1)))]
    /\ location_seen' = ClearSeen(location_seen)
    /\ UNCHANGED server_seen

Close ==
    /\ ClosesLocation \/ ClosesServer
    /\ Advance(0)
    /\ state' = IF state = "LOCATION" THEN "SERVER" ELSE "GLOBAL"
    /\ UNCHANGED <<servers, server_seen, location_seen>>

SkipSemicolon == At(";") /\ Advance(0) /\ UNCHANGED <<state, servers, server_seen, location_seen>>

\* The other directives look at what they have set before.
mark_seen(seen) == seen \cup ({tokens[i]} \ {"error_page", "cgi_pass", "return"})

SetServer(s) ==
    /\ servers' = [servers EXCEPT ![Len(servers)] = s]
    /\ server_seen' = mark_seen(server_seen)
    /\ UNCHANGED <<state, location_seen>>

ServerDirective ==
    \/ /\ IsListen /\ Advance(2)
       /\ SetServer([current_server EXCEPT
                       !.port = IF Lex[Word(1)].host = NoHost THEN Word(1) ELSE Lex[Word(1)].port,
                       !.host = IF Lex[Word(1)].host = NoHost THEN @ ELSE Lex[Word(1)].host])
    \/ /\ IsErrorPage /\ Advance(3)
       /\ SetServer([current_server EXCEPT
                       !.error_pages = @ \cup {<<Lex[Word(1)].number, Word(2)>>}])
    \/ /\ IsMaxBodySize /\ Advance(2)
       /\ SetServer([current_server EXCEPT !.client_max_body_size = isvalid_client_number(Word(1))])
    \/ IsServerRoot /\ Advance(2) /\ SetServer([current_server EXCEPT !.root = Word(1)])
    \/ IsServerIndex /\ Advance(2) /\ SetServer([current_server EXCEPT !.index = Word(1)])

SetLocation(l) ==
    /\ servers' = [servers EXCEPT ![Len(servers)].locations[Len(current_server.locations)] = l]
    /\ location_seen' = mark_seen(location_seen)
    /\ UNCHANGED <<state, server_seen>>

LocationDirective ==
    \/ IsRoot /\ Advance(2) /\ SetLocation([current_location EXCEPT !.root = Word(1)])
    \/ IsIndex /\ Advance(2) /\ SetLocation([current_location EXCEPT !.index = Word(1)])
    \/ IsAutoindex /\ Advance(2) /\ SetLocation([current_location EXCEPT !.autoindex = (Word(1) = "on")])
    \/ \E n \in 1..Len(tokens) :
          /\ IsAllowedMethods(n) /\ Advance(n + 1)
          /\ SetLocation([current_location EXCEPT !.methods = @ \cup {Word(k) : k \in 1..n}])
    \/ IsUploadPass /\ Advance(2) /\ SetLocation([current_location EXCEPT !.upload_pass = Word(1)])
    \/ /\ IsCgiPass /\ Advance(3)
       /\ SetLocation([current_location EXCEPT !.cgi_pass = @ \cup {<<Word(1), Word(2)>>}])
    \/ /\ IsReturn /\ Advance(3)
       /\ SetLocation([current_location EXCEPT !.redirect = @ \cup {<<Lex[Word(1)].number, Word(2)>>}])

Conclude(v) ==
    /\ verdict' = v
    /\ UNCHANGED <<tokens, i, state, servers, server_seen, location_seen>>

\* An exception: no server block leaves parseConfig.
Reject == Reading /\ ~Understood /\ Conclude("rejected")

\* Behind the loop
NoDuplicateBind ==
    \A a, b \in 1..Len(servers) :
       a < b => servers[a].host # servers[b].host \/ servers[a].port # servers[b].port

WithoutState == servers # <<>> /\ NoDuplicateBind                \* mutation
Complete == state = "GLOBAL" /\ servers # <<>> /\ NoDuplicateBind

Finish ==
    /\ verdict = "none" /\ i > Len(tokens)
    /\ Conclude(IF Complete THEN "accepted" ELSE "rejected")

Read ==
    \/ OpenServer \/ OpenLocation \/ Close \/ SkipSemicolon
    \/ ServerDirective \/ LocationDirective
    \/ Reject \/ Finish

Done == verdict # "none" /\ UNCHANGED vars

Next == Read \/ Done

Spec == Init /\ [][Next]_vars

-----------------------------------------------------------------------------
\* Types; the pointers lead to the blocks that are open.
TypeOK ==
    /\ tokens \in Seq(Text)
    /\ i \in Nat \ {0}
    /\ state \in {"GLOBAL", "SERVER", "LOCATION"}
    /\ servers \in Seq(Server)
    /\ server_seen \subseteq STRING /\ location_seen \subseteq STRING
    /\ verdict \in {"none", "accepted", "rejected"}
    /\ state # "GLOBAL" => servers # <<>>
    /\ state = "LOCATION" => current_server.locations # <<>>

\* What createServers, match_location and RouteConfig count on: whatever the
\* file, the blocks that parseConfig returns have an address of their own, with
\* a port; their locations have paths of their own, with a slash; and no code,
\* extension or redirect is there twice or out of range.
Keyed(map, keys) == \A p, q \in map : p[1] \in keys /\ (p[1] = q[1] => p = q)
Extensions       == {w \in Text : Lex[w].head = "."}

UsableLocation(l) ==
    /\ Lex[l.path].head = "/"
    /\ Keyed(l.cgi_pass, Extensions)
    /\ Keyed(l.redirect, 300..399) /\ \A p, q \in l.redirect : p = q

UsableServer(s) ==
    /\ s.port \in Text /\ isvalidport(s.port) /\ s.host # ""
    /\ Keyed(s.error_pages, 300..599)
    /\ \A k \in 1..Len(s.locations) : UsableLocation(s.locations[k])
    /\ \A j, k \in 1..Len(s.locations) : s.locations[j].path = s.locations[k].path => j = k

Usable ==
    verdict = "accepted" =>
       /\ servers # <<>>
       /\ \A k \in 1..Len(servers) : UsableServer(servers[k])
       /\ \A a, b \in 1..Len(servers) :
             servers[a].host = servers[b].host /\ servers[a].port = servers[b].port => a = b
=============================================================================
