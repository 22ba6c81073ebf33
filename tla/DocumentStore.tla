--------------------------- MODULE DocumentStore ---------------------------
(***************************************************************************)
(* What GET, POST and DELETE promise: a URI names one document, for every  *)
(* method; an answer is true at the moment it is given; a request changes  *)
(* the document it names and nothing else; one that is refused changes     *)
(* nothing, save for an upload that breaks off. Others change documents at *)
(* any time. Unnoticed and TookItsPlace say where the code keeps less than *)
(* it should.                                                              *)
(***************************************************************************)
EXTENDS Naturals, Sequences

CONSTANTS
    Paths,
    Empty, Torn,  \* no content, and a part of it
    Place(_),     \* the path a request names
    Index(_),     \* the path of the index file, for a request that names a directory
    Script(_)     \* the path of the script, for a request that names one

VARIABLES
    store,     \* what is at a path: its kind and content
    request, answer,
    stage,     \* of a DELETE "checked", once the path was seen to be no directory; of an upload
               \* "replacing" a document, or "written", even if it is replaced since; or "none"
    others     \* flips when others change something

vars == <<store, request, answer, stage, others>>

Absent(p)   == p \notin Paths \/ store[p].kind = "none"
IsFolder(p) == ~Absent(p) /\ store[p].kind = "dir"
Entries(p)  == {q[Len(q)] : q \in {q \in Paths : ~Absent(q) /\ SubSeq(q, 1, Len(q) - 1) = p}}
Named       == Place(request)

Waiting(method) ==
    /\ request.method = method /\ answer.code = "none"
    /\ UNCHANGED <<request, others>>

Answer(code, data) == answer' = [code |-> code, data |-> data] /\ stage' = "none"

\* Many requests are answered without a look at the documents.
Ask ==
    /\ stage = "none"
    /\ answer.code # "none" \/ request.method = "none"
    /\ \/ answer'.code \in {"none", "301", "400", "403", "405", "413", "500"}
       \/ answer'.code = "200" /\ request'.body.kind = "raw"
    /\ answer'.data = Empty
    /\ UNCHANGED <<store, stage, others>>

Refuse ==
    /\ \/ Waiting("GET") /\ \E code \in {"301", "403", "500"} : Answer(code, Empty)
       \/ Waiting("POST") /\ stage # "replacing" /\ \E code \in {"403", "500"} : Answer(code, Empty)
       \/ Waiting("DELETE") /\ stage = "none" /\ IsFolder(Named) /\ Answer("403", Empty)
       \/ Waiting("DELETE") /\ stage = "checked" /\ \E code \in {"403", "500"} : Answer(code, Empty)
    /\ UNCHANGED store

\* A file's content, or what is in a directory. A directory that took the place
\* of a file at the last moment reads as an empty file.
Fetch ==
    /\ Waiting("GET")
    /\ \/ \E p \in {Named, Index(request)} : ~Absent(p) /\ Answer("200", store[p].data)
       \/ IsFolder(Named) /\ Answer("200", Entries(Named))
    /\ UNCHANGED store

\* With a slash at its end, a URI does not name a file.
NotThere(p) == Absent(p) \/ (request.uri.slash /\ store[p].kind = "file")

Missing ==
    /\ \/ (Waiting("GET") \/ Waiting("DELETE")) /\ NotThere(Named)
       \/ Waiting("POST") /\ stage = "none" /\ NotThere(Script(request))
    /\ Answer("404", Empty)
    /\ UNCHANGED store

\* What is run is what the request names. It was there a moment ago.
Run ==
    /\ Waiting("GET") \/ (Waiting("POST") /\ stage = "none")
    /\ Answer("cgi", {Script(request)})
    /\ UNCHANGED store

\* A directory is refused at the first look; nothing but a file is deleted.
Check ==
    /\ Waiting("DELETE") /\ stage = "none"
    /\ ~IsFolder(Named)
    /\ stage' = "checked"
    /\ UNCHANGED <<store, answer>>

Remove ==
    /\ store' = [store EXCEPT ![Named] = [kind |-> "none", data |-> Empty, ok |-> FALSE]]
    /\ Answer("204", Empty)

Delete == Waiting("DELETE") /\ ~NotThere(Named) /\ ~IsFolder(Named) /\ Remove

\* An exception: an empty directory that took the place of the file since is removed.
TookItsPlace ==
    /\ Waiting("DELETE") /\ stage = "checked"
    /\ IsFolder(Named) /\ Entries(Named) = {}
    /\ Remove

Put(data) == store' = [store EXCEPT ![Named] = [kind |-> "file", data |-> data, ok |-> TRUE]]

Replace ==
    /\ Waiting("POST") /\ stage = "none"
    /\ Put(Empty)
    /\ stage' = "replacing"
    /\ UNCHANGED answer

Write ==
    /\ Waiting("POST") /\ stage = "replacing"
    /\ Put(request.body.data)
    /\ \/ stage' = "written" /\ UNCHANGED answer
       \/ Answer("201", Empty)

\* The other exception: what is short is acknowledged however its writing went.
Unnoticed ==
    /\ Waiting("POST") /\ stage = "replacing" /\ request.body.kind = "short"
    /\ Put(Torn)
    /\ Answer("201", Empty)

Created == Waiting("POST") /\ stage = "written" /\ Answer("201", Empty) /\ UNCHANGED store

BreakOff ==
    /\ Waiting("POST") /\ stage = "replacing"
    /\ Put(Torn)
    /\ Answer("500", Empty)

\* An upload that is replaced before it is written might have been written before.
Others ==
    /\ others' = ~others
    /\ UNCHANGED <<request, answer>>
    /\ \/ UNCHANGED stage
       \/ stage = "replacing" /\ store'[Named] # store[Named] /\ stage' = "written"

Init ==
    /\ \A p \in Paths : Absent(p)
    /\ request.method = "none" /\ answer.code = "none"
    /\ stage = "none"

Next ==
    \/ Ask \/ Refuse \/ Fetch \/ Missing \/ Run
    \/ Check \/ Delete \/ TookItsPlace
    \/ Replace \/ Write \/ Unnoticed \/ Created \/ BreakOff
    \/ Others

Spec == Init /\ [][Next]_vars
=============================================================================
