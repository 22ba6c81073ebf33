--------------------------- MODULE MethodHandler ---------------------------
(***************************************************************************)
(* GET, POST and DELETE on the file system: what MethodHandler decides,    *)
(* in which order, one system call after the other, and how EventLoop and  *)
(* CGIHandler start a script, while other processes change the files. The  *)
(* server has one thread, so it has one request.                           *)
(*                                                                         *)
(* A path is the sequence of its names, from the working directory; a URI  *)
(* is that and how it ends, and whether a dot stands behind a question     *)
(* mark in it: the parser has cut the query off, so that mark was sent as  *)
(* %3F. The pages of errors and the text around a listing are left out.    *)
(***************************************************************************)
EXTENDS Naturals, FiniteSets, SequencesExt

CONSTANTS
    Paths,        \* what can exist, with the directories above it
    Requests,     \* what handleRequestComplete() hands over: a request and its route
    Clients,
    Data,         \* the contents of files
    Empty, Torn,  \* nothing yet, and a part of what was to be written
    Unsafe,       \* names that are ".." or hold a backslash
    Begins,       \* the pairs <<m, n>> such that the name n begins with the name m
    MaxSessions   \* bound on AllSession

ASSUME PathAssumption ==
    /\ Paths \subseteq Seq(UNION {ToSet(p) : p \in Paths}) \ {<<>>}
    /\ \A p \in Paths : Len(p) > 1 => Front(p) \in Paths
    /\ {Empty, Torn} \subseteq Data
    /\ MaxSessions \in Nat

\* upload_pass is a path, empty where it is not declared.
ASSUME RequestAssumption ==
    \A r \in Requests :
        /\ r.route.upload_pass \in Seq(ToSet(r.route.upload_pass))
        /\ r.body.kind \in {"raw", "malformed", "too large", "short", "long"}
        /\ r.body.data \in Data

VARIABLES
    tree,       \* what is at a path
    at,         \* the next system call of the handler, "idle" between requests
    request,    \* the one being handled, or handled last
    answer,     \* to it
    linked,     \* the file that saveTheThing() has open is still at its path
    AllSession,
    jar,        \* of a client: the cookie SESSION_ID, 0 for none
    others      \* flips when another process changes a file

vars == <<tree, at, request, answer, linked, AllSession, jar, others>>

-----------------------------------------------------------------------------
(* The file system *)

Nothing    == [kind |-> "none", data |-> Empty, ok |-> FALSE]
\* ok: a file can be read, written and run, in a directory files can be made and removed
File(data) == [kind |-> "file", data |-> data, ok |-> TRUE]
Nodes == {Nothing} \cup [kind : {"dir"}, data : {Empty}, ok : BOOLEAN]
                   \cup [kind : {"file"}, data : Data, ok : BOOLEAN]

WellFormed(t) == \A p \in Paths : t[p].kind # "none" /\ Len(p) > 1 => t[Front(p)].kind = "dir"
IsEmpty(p)    == \A q \in Paths : Len(q) > 1 /\ Front(q) = p => tree[q].kind = "none"

\* A path with a slash at its end names a directory or nothing.
Kind(p, slash) ==
    IF p \notin Paths \/ (slash /\ tree[p].kind # "dir") THEN "none" ELSE tree[p].kind

\* access(p, R_OK) and access(p, X_OK), and whether p can be opened for reading
Readable(p)  == Kind(p, FALSE) = "dir" \/ (Kind(p, FALSE) = "file" /\ tree[p].ok)
Writable(p)  == p = <<>> \/ (Kind(p, FALSE) = "dir" /\ tree[p].ok)
Names(p)     == {Last(q) : q \in {q \in Paths : Len(q) > 1 /\ Front(q) = p /\ tree[q].kind # "none"}}

-----------------------------------------------------------------------------
(* RouteConfig, CGIHandler::isCGIRequest and the helpers on a URI *)

isAllowed(r)  == r.route.methods = {} \/ r.method \in r.route.methods
isItUnsafe(r) == ToSet(r.uri.names) \cap Unsafe # {}

\* The extension is what follows the last dot of the URI, a decoded question mark
\* and what is behind it included.
isCGIRequest(names, r) ==
    names # <<>> /\ Last(names) \in r.route.scripts /\ ~r.uri.dotInQuery

makeThePath(r) == r.route.root \o r.uri.names

PlainPath(r)   == makeThePath(r)                                \* mutation

\* handleGET takes the last folder of the root and the beginning of the URI for
\* the same folder if the one is a prefix of the other.
SmartPath(r) ==
    LET root == r.route.root
    IN  IF r.uri.names # <<>> /\ <<Last(root), Head(r.uri.names)>> \in Begins
        THEN Front(root) \o r.uri.names
        ELSE makeThePath(r)

IndexPath(r)  == SmartPath(r) \o r.route.index

\* resolveCGI replaces the path of the location by its root.
WithLocation(r) == makeThePath(r)                               \* mutation
ScriptPath(r) ==
    IF IsPrefix(r.route.path, r.uri.names)
    THEN r.route.root \o SubSeq(r.uri.names, Len(r.route.path) + 1, Len(r.uri.names))
    ELSE makeThePath(r)
UploadPath(r) == Append(r.route.upload_pass, r.body.name)

-----------------------------------------------------------------------------
(* Sessions *)

\* An identifier is as good as its counter, and every one made is in AllSession.
SameCounter   == 1                                             \* mutation
makeSessionId == Cardinality(AllSession) + 1

\* The client gets the cookie with the response of the handler, if that is sent.
EnsureSession(r, sent) ==
    IF r.cookie \in AllSession
    THEN UNCHANGED <<AllSession, jar>>
    ELSE /\ AllSession' = AllSession \cup {makeSessionId}
         /\ jar' = IF sent THEN [jar EXCEPT ![r.client] = makeSessionId] ELSE jar

\* Every return of a handler goes through applySession.
Answer(r, code, data) ==
    /\ at' = "idle"
    /\ request' = r
    /\ answer' = [code |-> code, data |-> data]
    /\ EnsureSession(r, TRUE)

Return(code)   == Answer(request, code, Empty)
Continue(call) == at' = call /\ UNCHANGED <<request, answer, AllSession, jar>>

-----------------------------------------------------------------------------
(* What is decided before the file system is looked at *)

NoRequest == [method |-> "none"]
Pending   == [code |-> "none", data |-> Empty]
StaleResponse == UNCHANGED answer                              \* mutation
FreshResponse == answer' = Pending

isSafeAndAllowed(r) == CASE ~isAllowed(r) -> "405"
                         [] isAllowed(r) /\ isItUnsafe(r) -> "403"
                         [] OTHER -> "none"
Redirected(r) == IF r.route.redirect THEN "301" ELSE "none"
tryCGI(r)     == IF ~r.uri.slash /\ isCGIRequest(r.uri.names, r) THEN "cgi" ELSE "none"
TooLarge(r)   == IF r.body.kind = "too large" THEN "413" ELSE "none"
NotAFile(r)   == CASE r.body.kind \in {"raw", "too large"} -> "200"
                   [] r.body.kind = "malformed" -> "400"
                   [] r.body.kind \in {"short", "long"} ->
                         IF r.route.upload_pass = <<>> THEN "500" ELSE "none"

\* The response of a request that sets isCGI is dropped, its cookie with it.
StartCGI(r) ==
    /\ at' = "scriptExists"
    /\ request' = r
    /\ FreshResponse
    /\ EnsureSession(r, FALSE)

\* The first of the codes that is one is the answer; call is the first system call.
Begin(r, codes, call) ==
    \/ \E i \in DOMAIN codes :
          /\ codes[i] # "none" /\ \A j \in 1..(i - 1) : codes[j] = "none"
          /\ IF codes[i] = "cgi" THEN StartCGI(r) ELSE Answer(r, codes[i], Empty)
    \/ /\ \A i \in DOMAIN codes : codes[i] = "none"
       /\ at' = call /\ request' = r /\ FreshResponse /\ UNCHANGED <<AllSession, jar>>

Receive(r) ==
    /\ at = "idle"
    /\ r.cookie \in AllSession \/ Cardinality(AllSession) < MaxSessions
    /\ UNCHANGED <<tree, linked>>
    /\ \/ /\ r.method = "GET"
          /\ Begin(r, <<isSafeAndAllowed(r), Redirected(r), tryCGI(r)>>, "isDirectory")
       \/ /\ r.method = "POST"
          /\ Begin(r, <<isSafeAndAllowed(r), Redirected(r), TooLarge(r), tryCGI(r), NotAFile(r)>>,
                   "storeExists")
       \/ /\ r.method = "DELETE"
          /\ Begin(r, <<isSafeAndAllowed(r)>>, "isDirectory")

\* The client returns the cookie it was given, or none.
ReceiveAny == \E r \in Requests, c \in Clients : \E cookie \in {0, jar[c]} :
                 Receive([client |-> c, cookie |-> cookie, method |-> r.method, uri |-> r.uri,
                          route |-> r.route, body |-> r.body])

-----------------------------------------------------------------------------
(* handleGET: one action per system call *)

Getting(call) == at = call /\ request.method = "GET" /\ UNCHANGED <<tree, linked>>

NoIndex == IF request.route.autoindex THEN Continue("opendir") ELSE Return("403")

GetIsDirectory ==
    /\ Getting("isDirectory")
    /\ IF Kind(SmartPath(request), request.uri.slash) # "dir" THEN Continue("fileExists")
       ELSE IF ~request.uri.slash THEN Return("301")
       ELSE IF request.route.index = <<>> THEN NoIndex
       ELSE Continue("indexExists")

\* The URI that is tested for a script is that of the index file; the request
\* keeps that of the directory.
GetIndexExists ==
    /\ Getting("indexExists")
    /\ IF Kind(IndexPath(request), FALSE) = "none" THEN NoIndex
       ELSE IF isCGIRequest(request.route.index, request) THEN StartCGI(request)
       ELSE Continue("indexReadable")

GetOpendir ==
    /\ Getting("opendir")
    /\ IF Kind(SmartPath(request), TRUE) = "dir"
       THEN Answer(request, "200", Names(SmartPath(request)))
       ELSE Return("500")

GetFileExists ==
    /\ Getting("fileExists")
    /\ IF Kind(SmartPath(request), request.uri.slash) = "none"
       THEN Return("404")
       ELSE Continue("isReadable")

AccessFile(call, path, next) ==
    /\ Getting(call)
    /\ IF Readable(path) THEN Continue(next) ELSE Return("403")

\* A directory can be opened, and nothing be read from it.
ReadFile(call, path) ==
    /\ Getting(call)
    /\ IF Readable(path) THEN Answer(request, "200", tree[path].data) ELSE Return("500")

GetFile ==
    \/ AccessFile("indexReadable", IndexPath(request), "readIndex")
    \/ ReadFile("readIndex", IndexPath(request))
    \/ AccessFile("isReadable", SmartPath(request), "read")
    \/ ReadFile("read", SmartPath(request))

-----------------------------------------------------------------------------
(* handleDELETE *)

Deleting(call) == at = call /\ request.method = "DELETE" /\ UNCHANGED linked
Target         == makeThePath(request)
\* What canDeletePath() takes for the parent: what is before the last slash
Parent         == IF request.uri.slash THEN Target ELSE Front(Target)

DeleteAnything ==                                              \* mutation
    /\ Deleting("isDirectory")
    /\ UNCHANGED tree
    /\ Continue("fileExists")

DeleteIsDirectory ==
    /\ Deleting("isDirectory")
    /\ UNCHANGED tree
    /\ IF Kind(Target, request.uri.slash) = "dir" THEN Return("403") ELSE Continue("fileExists")

DeleteFileExists ==
    /\ Deleting("fileExists")
    /\ UNCHANGED tree
    /\ IF Kind(Target, request.uri.slash) = "none" THEN Return("404") ELSE Continue("canDelete")

DeleteCanDelete ==
    /\ Deleting("canDelete")
    /\ UNCHANGED tree
    /\ IF Writable(Parent) THEN Continue("remove") ELSE Return("403")

\* std::remove() also takes a directory, if it is empty.
CanRemove == /\ Kind(Target, request.uri.slash) # "none"
             /\ IsEmpty(Target)
             /\ Writable(Front(Target))

DeleteRemove ==
    /\ Deleting("remove")
    /\ IF CanRemove
       THEN tree' = [tree EXCEPT ![Target] = Nothing] /\ Return("204")
       ELSE UNCHANGED tree /\ Return("500")

-----------------------------------------------------------------------------
(* handlePOST of a multipart body, with FileUpload::saveTheThing *)

Store         == request.route.upload_pass
Upload        == UploadPath(request)

StoreExists ==
    /\ at = "storeExists"
    /\ UNCHANGED <<tree, linked>>
    /\ IF Kind(Store, FALSE) = "none" THEN Return("500") ELSE Continue("storeIsDirectory")

StoreIsDirectory ==
    /\ at = "storeIsDirectory"
    /\ UNCHANGED <<tree, linked>>
    /\ IF Kind(Store, FALSE) # "dir" \/ request.body.name \in Unsafe
       THEN Return("500")
       ELSE Continue("open")

CanCreate == \/ Kind(Upload, FALSE) = "file" /\ tree[Upload].ok
             \/ Upload \in Paths /\ Kind(Upload, FALSE) = "none" /\ Writable(Store)

\* What was in the file is lost here.
Open ==
    /\ at = "open"
    /\ IF CanCreate
       THEN tree' = [tree EXCEPT ![Upload] = File(Empty)] /\ linked' = TRUE /\ Continue("write")
       ELSE UNCHANGED <<tree, linked>> /\ Return("500")

\* What a write puts where the file was opened, if it is still there
Put(data) == tree' = IF linked THEN [tree EXCEPT ![Upload] = File(data)] ELSE tree

\* A long body is written at once, a short one stays in the buffer of the stream.
Write ==
    /\ at = "write"
    /\ \/ request.body.kind = "long" /\ Put(request.body.data) /\ Continue("close") /\ UNCHANGED linked
       \/ request.body.kind = "long" /\ Put(Torn) /\ Return("500") /\ linked' = FALSE
       \/ request.body.kind = "short" /\ Continue("close") /\ UNCHANGED <<tree, linked>>

\* close() writes what is in the buffer. Nobody asks how it went.
Close ==
    /\ at = "close"
    /\ \/ request.body.kind = "short" /\ \E written \in {request.body.data, Torn} : Put(written)
       \/ request.body.kind = "long" /\ UNCHANGED tree
    /\ linked' = FALSE
    /\ Return("201")

-----------------------------------------------------------------------------
(* CGIHandler::start of a GET or POST that sets isCGI *)

\* The answers of startCGI have no cookie. What a script that runs, or fails to,
\* makes of the request is in EventLoop.
Started(code, data) ==
    /\ at' = "idle"
    /\ answer' = [code |-> code, data |-> data]
    /\ UNCHANGED <<request, AllSession, jar>>

Starting(call) == at = call /\ UNCHANGED <<tree, linked>>

ScriptExists ==
    /\ Starting("scriptExists")
    /\ IF Kind(ScriptPath(request), request.uri.slash) = "none"
       THEN Started("404", Empty)
       ELSE Continue("scriptExecutable")

ScriptExecutable ==
    /\ Starting("scriptExecutable")
    /\ IF Readable(ScriptPath(request)) THEN Continue("fork") ELSE Started("403", Empty)

\* The pipes and the child, either of which may fail
Fork ==
    /\ Starting("fork")
    /\ Started("cgi", {ScriptPath(request)}) \/ Started("500", Empty)

-----------------------------------------------------------------------------
(* Scripts and other processes make, replace and remove files at any time. *)

OthersChange ==
    /\ \E p \in Paths, node \in Nodes :
          /\ node # tree[p] /\ node.data # Torn
          /\ tree' = [tree EXCEPT ![p] = node]
          /\ linked' = (linked /\ p # Upload)
    /\ WellFormed(tree')
    /\ others' = ~others
    /\ UNCHANGED <<at, request, answer, AllSession, jar>>

-----------------------------------------------------------------------------
Init ==
    /\ tree = [p \in Paths |-> Nothing]
    /\ at = "idle"
    /\ request = NoRequest
    /\ answer = Pending
    /\ linked = FALSE
    /\ AllSession = {}
    /\ jar = [c \in Clients |-> 0]
    /\ others = FALSE

Serve ==
    \/ ReceiveAny
    \/ GetIsDirectory \/ GetIndexExists \/ GetOpendir \/ GetFileExists \/ GetFile
    \/ DeleteIsDirectory \/ DeleteFileExists \/ DeleteCanDelete \/ DeleteRemove
    \/ StoreExists \/ StoreIsDirectory \/ Open \/ Write \/ Close
    \/ ScriptExists \/ ScriptExecutable \/ Fork

Next == (Serve /\ UNCHANGED others) \/ OthersChange

Spec == Init /\ [][Next]_vars

-----------------------------------------------------------------------------
\* Types, and the shape of the tree; a file is open only while it is written.
TypeOK ==
    /\ tree \in [Paths -> Nodes] /\ WellFormed(tree)
    /\ linked => at \in {"write", "close"}
    /\ at # "idle" => answer = Pending
    /\ AllSession = 1..Cardinality(AllSession)
    /\ Cardinality(AllSession) <= MaxSessions

\* No two clients have one session, and every cookie leads to a session.
SessionsDistinct ==
    /\ \A c \in Clients : jar[c] \in AllSession \cup {0}
    /\ \A c, e \in Clients : jar[c] = jar[e] => c = e \/ jar[c] = 0
=============================================================================
