-------------------------- MODULE MCMethodHandler --------------------------
(***************************************************************************)
(* A document root with one directory of uploads, the routes the shipped   *)
(* configurations declare.                                                 *)
(***************************************************************************)
EXTENDS DocumentService

CONSTANTS www, up, f, dots, d1

MCTop    == <<www>>
MCPaths  == {<<www>>, <<www, up>>, <<www, up, f>>}
MCData   == {Empty, Torn, d1}
MCBegins == {<<n, n>> : n \in {www, up, f}}

Route == [methods |-> {"GET", "POST", "DELETE"}, redirect |-> FALSE, autoindex |-> TRUE,
          index |-> <<>>, path |-> <<up>>, root |-> <<www>>, scripts |-> {}, upload_pass |-> <<www, up>>]

Uri(names, slash) == [names |-> names, slash |-> slash, dotInQuery |-> FALSE]
Raw               == [kind |-> "raw", name |-> f, data |-> Empty]
Request(method, uri, route, body) ==
    [method |-> method, uri |-> uri, route |-> route, body |-> body]

\* location /uploads of the configurations, one with an index, one of scripts
\* that has its own root, one that redirects, one that only reads
Uploads  == Route
Indexed  == [Route EXCEPT !.methods = {}, !.index = <<f>>, !.autoindex = FALSE, !.upload_pass = <<>>]
Scripts  == [Route EXCEPT !.methods = {"GET", "POST"}, !.root = <<www, up>>, !.scripts = {f},
                          !.index = <<f>>]
\* ... and scripts anywhere
Anywhere == [Scripts EXCEPT !.path = <<>>, !.root = <<www>>]
Moved    == [Route EXCEPT !.redirect = TRUE]
ReadOnly == [Route EXCEPT !.methods = {"GET"}]

Uris   == {Uri(<<up>>, FALSE), Uri(<<up>>, TRUE), Uri(<<up, f>>, FALSE), Uri(<<up, f>>, TRUE)}
Bodies == {Raw} \cup [kind : {"short", "long"}, name : {f, dots}, data : {d1}]
                \cup [kind : {"malformed", "too large"}, name : {f}, data : {Empty}]
\* /up/f%3F.x
Query  == [Uri(<<up, f>>, FALSE) EXCEPT !.dotInQuery = TRUE]

MCRequests ==
    {Request("GET", u, r, Raw) : u \in Uris, r \in {Uploads, Indexed, Scripts, Anywhere}}
    \cup {Request("DELETE", u, Uploads, Raw) : u \in Uris}
    \cup {Request("POST", Uri(<<up>>, FALSE), r, b) : r \in {Uploads, Indexed}, b \in Bodies}
    \cup {Request("GET", Query, Scripts, Raw)}
    \cup {Request(m, Uri(<<dots>>, FALSE), Uploads, Raw) : m \in Route.methods}
    \cup {Request(m, Uri(<<up>>, FALSE), r, Raw) : m \in Route.methods, r \in {Moved, ReadOnly}}
    \cup {Request("POST", Uri(<<up, f>>, FALSE), Scripts, Raw)}

-----------------------------------------------------------------------------
\* docs/MethodHandler.md: a directory whose index file is a script runs that.
IndexIsRun == answer.code = "cgi" /\ request.uri.slash => answer.data = {Index(request)}

\* Between requests nothing depends on the last one, and nobody reads others.
View == <<tree, AllSession, jar, IF at = "idle" THEN <<answer = Pending>> ELSE <<at, request, linked>>>>
=============================================================================
