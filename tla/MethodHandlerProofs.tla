------------------------ MODULE MethodHandlerProofs ------------------------
(***************************************************************************)
(* Whatever requests, routes, clients and other processes there are: the   *)
(* tree stays one, no session has two owners, and the handlers implement   *)
(* DocumentStore wherever they agree on what a URI names.                  *)
(***************************************************************************)
EXTENDS DocumentService, FiniteSetTheorems, TLAPS

ScriptCalls == {"scriptExists", "scriptExecutable", "fork"}
PostCalls   == {"storeExists", "storeIsDirectory", "open", "write", "close"}

\* The file that is open is where it was opened.
Opened == linked => /\ at \in {"write", "close"}
                    /\ Upload \in Paths /\ tree[Upload].kind = "file"

FileInv == tree \in [Paths -> Nodes] /\ WellFormed(tree) /\ linked \in BOOLEAN /\ Opened

\* Every identifier was made once, and the next one is free.
SessionsInv ==
    /\ AllSession = 1..Cardinality(AllSession)
    /\ Cardinality(AllSession) \in 0..MaxSessions
    /\ jar \in [Clients -> AllSession \cup {0}]
    /\ SessionsDistinct

\* There is room for the session that a request still to be answered may need.
Room == at \notin ScriptCalls \cup {"idle"} =>
           request.cookie \in AllSession \/ Cardinality(AllSession) < MaxSessions

SameRequest(q, r) == q.method = r.method /\ q.uri = r.uri /\ q.route = r.route /\ q.body = r.body

\* What is handled was received, by the handler whose calls these are.
Stages ==
    /\ at # "idle" => \E r \in Requests : SameRequest(request, r)
    /\ at \in PostCalls => request.method = "POST" /\ request.body.kind \in {"short", "long"}
    /\ at \in ScriptCalls => request.method \in {"GET", "POST"} /\ request.route.scripts # {}

Answered ==
    /\ at # "idle" => answer = Pending
    /\ at = "idle" => answer.code # "none" \/ request = NoRequest

HandlerInv == SessionsInv /\ Room /\ Stages /\ Answered

Inv == FileInv /\ HandlerInv

-----------------------------------------------------------------------------
(* The session table *)

\* A number that is not taken is added, and one client gets it, or none.
LEMMA SessionMade ==
    ASSUME SessionsInv, NEW r, NEW sent \in BOOLEAN, EnsureSession(r, sent),
           r.cookie \in AllSession \/ Cardinality(AllSession) < MaxSessions
    PROVE  SessionsInv'
<1> DEFINE n == Cardinality(AllSession)
<1>1. CASE r.cookie \in AllSession
  BY <1>1 DEF EnsureSession, SessionsInv, SessionsDistinct
<1>2. CASE r.cookie \notin AllSession
  <2>1. n \in Nat /\ n + 1 <= MaxSessions /\ AllSession = 1..n
    BY <1>2, PathAssumption DEF SessionsInv
  <2>2. AllSession' = AllSession \cup {n + 1}
    BY <1>2 DEF EnsureSession, makeSessionId
  <2>3. AllSession' = 1..(n + 1)
    BY <2>1, <2>2
  <2>4. Cardinality(AllSession') = n + 1
    BY <2>1, <2>3, FS_Interval
  <2>5. /\ jar' \in [Clients -> AllSession' \cup {0}]
        /\ \A c \in Clients : jar'[c] = jar[c] \/ (c = r.client /\ jar'[c] = n + 1)
    BY <1>2, <2>2 DEF EnsureSession, makeSessionId, SessionsInv
  <2>6. \A c \in Clients : jar[c] # n + 1
    BY <2>1 DEF SessionsInv
  <2>7. SessionsDistinct'
    BY <2>1, <2>5, <2>6 DEF SessionsInv, SessionsDistinct
  <2>8. QED
    BY <2>1, <2>3, <2>4, <2>5, <2>7 DEF SessionsInv
<1>3. QED
  BY <1>1, <1>2

-----------------------------------------------------------------------------
(* The ways a system call can end *)

\* ... in an answer that is one,
LEMMA AnswerKeeps ==
    ASSUME SessionsInv, NEW r, r.cookie \in AllSession \/ Cardinality(AllSession) < MaxSessions,
           NEW code, code # "none", NEW data, Answer(r, code, data)
    PROVE  HandlerInv'
<1>1. SessionsInv'
  BY SessionMade DEF Answer
<1>2. (Room /\ Stages /\ Answered)'
  BY DEF Answer, Room, Stages, Answered, ScriptCalls, PostCalls
<1>3. QED
  BY <1>1, <1>2 DEF HandlerInv

\* ... in the next call of the same handler,
LEMMA ContinueKeeps ==
    ASSUME HandlerInv, at # "idle", NEW call, call # "idle", Continue(call),
           call \in PostCalls => at \in PostCalls,
           call \in ScriptCalls <=> at \in ScriptCalls
    PROVE  HandlerInv'
BY DEF Continue, HandlerInv, SessionsInv, SessionsDistinct, Room, Stages, Answered, SameRequest

\* ... in the start of a script,
LEMMA StartKeeps ==
    ASSUME SessionsInv, NEW r, r.cookie \in AllSession \/ Cardinality(AllSession) < MaxSessions,
           \E q \in Requests : SameRequest(r, q),
           r.method \in {"GET", "POST"}, r.route.scripts # {}, StartCGI(r)
    PROVE  HandlerInv'
<1>1. SessionsInv'
  BY SessionMade DEF StartCGI
<1>2. (Room /\ Stages /\ Answered)'
  BY DEF StartCGI, Room, Stages, Answered, ScriptCalls, PostCalls, FreshResponse
<1>3. QED
  BY <1>1, <1>2 DEF HandlerInv

\* ... or in the answer about a script.
LEMMA StartedKeeps ==
    ASSUME HandlerInv, NEW code, code # "none", NEW data, Started(code, data)
    PROVE  HandlerInv'
BY DEF Started, HandlerInv, SessionsInv, SessionsDistinct, Room, Stages, Answered, SameRequest, ScriptCalls, PostCalls

\* A call that leaves the files alone while none is open keeps what is said of them.
LEMMA FilesKept ==
    ASSUME FileInv, at \notin {"write", "close"}, UNCHANGED <<tree, linked>>
    PROVE  FileInv'
BY DEF FileInv, Opened, WellFormed

-----------------------------------------------------------------------------
(* Changes of the tree *)

\* A file is put in the place of a file.
LEMMA FileReplaced ==
    ASSUME tree \in [Paths -> Nodes], WellFormed(tree), NEW p \in Paths, tree[p].kind = "file",
           NEW node \in Nodes, node.kind = "file"
    PROVE  [tree EXCEPT ![p] = node] \in [Paths -> Nodes] /\ WellFormed([tree EXCEPT ![p] = node])
<1>1. \A q \in Paths : Len(q) > 1 => Front(q) \in Paths
  BY PathAssumption
<1>2. \A q \in Paths : Len(q) > 1 /\ Front(q) = p => tree[q].kind = "none" /\ q # p
  BY DEF WellFormed
<1>3. QED
  BY <1>1, <1>2 DEF WellFormed

\* A file is made in a directory.
LEMMA FileMade ==
    ASSUME tree \in [Paths -> Nodes], WellFormed(tree), NEW p \in Paths, tree[p].kind = "none",
           Len(p) > 1 => tree[Front(p)].kind = "dir", NEW node \in Nodes
    PROVE  [tree EXCEPT ![p] = node] \in [Paths -> Nodes] /\ WellFormed([tree EXCEPT ![p] = node])
<1>1. \A q \in Paths : Len(q) > 1 => Front(q) \in Paths
  BY PathAssumption
<1>2. \A q \in Paths : Len(q) > 1 /\ Front(q) = p => tree[q].kind = "none"
  BY DEF WellFormed
<1>3. QED
  BY <1>1, <1>2 DEF WellFormed

\* What nothing is in is removed.
LEMMA NodeRemoved ==
    ASSUME tree \in [Paths -> Nodes], WellFormed(tree), NEW p \in Paths, IsEmpty(p)
    PROVE  [tree EXCEPT ![p] = Nothing] \in [Paths -> Nodes] /\ WellFormed([tree EXCEPT ![p] = Nothing])
<1>1. \A q \in Paths : Len(q) > 1 => Front(q) \in Paths
  BY PathAssumption
<1>2. \A q \in Paths : Len(q) > 1 /\ Front(q) = p => tree[q].kind = "none"
  BY DEF IsEmpty
<1>3. Nothing \in Nodes /\ Nothing.kind = "none"
  BY DEF Nothing, Nodes
<1>4. QED
  BY <1>1, <1>2, <1>3 DEF WellFormed

\* The contents of files are files.
LEMMA FileType == \A data \in Data : File(data) \in Nodes /\ File(data).kind = "file"
BY DEF File, Nodes

\* What the store is named after it is the file.
LEMMA UploadIsIn ==
    ASSUME Stages, at # "idle"
    PROVE  /\ Front(Upload) = Store /\ (Len(Upload) > 1 => Store # <<>>)
           /\ request.body.data \in Data
<1>1. PICK r \in Requests : SameRequest(request, r)
  BY DEF Stages
<1>2. Store \in Seq(ToSet(Store)) /\ request.body.data \in Data
  BY <1>1, RequestAssumption DEF SameRequest, Store
<1>3. ASSUME NEW S, NEW s \in Seq(S), NEW e
      PROVE  Front(Append(s, e)) = s /\ (Len(Append(s, e)) > 1 => s # <<>>)
  BY DEF Front
<1>4. QED
  BY <1>2, <1>3 DEF Upload, UploadPath, Store

-----------------------------------------------------------------------------
(* The handlers *)

\* main starts with no request and no session.
LEMMA InitInv == Init => Inv
<1> SUFFICES ASSUME Init
             PROVE  Inv
  OBVIOUS
<1>1. FileInv
  BY DEF Init, FileInv, WellFormed, Opened, Nothing, Nodes
<1>2. SessionsInv
  <2>1. AllSession = {} /\ Cardinality(AllSession) = 0
    BY FS_EmptySet DEF Init
  <2>2. QED
    BY <2>1, PathAssumption DEF Init, SessionsInv, SessionsDistinct
<1>3. Room /\ Stages /\ Answered
  BY DEF Init, Room, Stages, Answered, ScriptCalls, PostCalls
<1>4. QED
  BY <1>1, <1>2, <1>3 DEF Inv, HandlerInv

\* The checks that come before the first system call
LEMMA BeginKeeps ==
    ASSUME HandlerInv, NEW r, r.cookie \in AllSession \/ Cardinality(AllSession) < MaxSessions,
           \E q \in Requests : SameRequest(r, q),
           NEW codes, NEW call \in {"isDirectory", "storeExists"}, Begin(r, codes, call),
           (\E i \in DOMAIN codes : codes[i] = "cgi")
               => r.method \in {"GET", "POST"} /\ r.route.scripts # {},
           call = "storeExists" /\ (\A i \in DOMAIN codes : codes[i] = "none")
               => r.method = "POST" /\ r.body.kind \in {"short", "long"}
    PROVE  HandlerInv'
<1>1. CASE \E i \in DOMAIN codes : codes[i] = "cgi" /\ StartCGI(r)
  BY <1>1, StartKeeps DEF HandlerInv
<1>2. CASE \E i \in DOMAIN codes : codes[i] # "none" /\ Answer(r, codes[i], Empty)
  BY <1>2, AnswerKeeps DEF HandlerInv
<1>3. CASE /\ \A i \in DOMAIN codes : codes[i] = "none"
           /\ at' = call /\ request' = r /\ FreshResponse /\ UNCHANGED <<AllSession, jar>>
  BY <1>3 DEF HandlerInv, SessionsInv, SessionsDistinct, Room, Stages, Answered, FreshResponse, PostCalls, ScriptCalls
<1>4. QED
  BY <1>1, <1>2, <1>3 DEF Begin

\* A script is only started for a route of scripts.
LEMMA ScriptRoute ==
    ASSUME NEW r, tryCGI(r) = "cgi"
    PROVE  r.route.scripts # {}
BY DEF tryCGI, isCGIRequest

\* What a request is before its first system call
LEMMA ReceiveKeeps == ASSUME Inv, ReceiveAny PROVE Inv'
<1>1. PICK q \in Requests, c \in Clients : \E cookie \in {0, jar[c]} :
         Receive([client |-> c, cookie |-> cookie, method |-> q.method, uri |-> q.uri,
                  route |-> q.route, body |-> q.body])
  BY DEF ReceiveAny
<1>2. PICK cookie \in {0, jar[c]} :
         Receive([client |-> c, cookie |-> cookie, method |-> q.method, uri |-> q.uri,
                  route |-> q.route, body |-> q.body])
  BY <1>1
<1> DEFINE r == [client |-> c, cookie |-> cookie, method |-> q.method, uri |-> q.uri,
                 route |-> q.route, body |-> q.body]
<1>3. SameRequest(r, q) /\ Receive(r)
  BY <1>2 DEF SameRequest
<1> HIDE DEF r
<1>4. /\ r.cookie \in AllSession \/ Cardinality(AllSession) < MaxSessions
      /\ at = "idle" /\ UNCHANGED <<tree, linked>> /\ HandlerInv
      /\ r.body.kind \in {"raw", "malformed", "too large", "short", "long"}
  BY <1>3, RequestAssumption DEF Receive, Inv, SameRequest
<1>5. FileInv'
  BY <1>4, FilesKept DEF Inv
<1>6. isSafeAndAllowed(r) # "cgi" /\ Redirected(r) # "cgi" /\ TooLarge(r) # "cgi" /\ NotAFile(r) # "cgi"
  BY <1>4 DEF isSafeAndAllowed, Redirected, TooLarge, NotAFile
<1>7. NotAFile(r) = "none" => r.body.kind \in {"short", "long"}
  BY <1>4 DEF NotAFile
<1>8. CASE r.method = "GET" /\ Begin(r, <<isSafeAndAllowed(r), Redirected(r), tryCGI(r)>>, "isDirectory")
  <2> DEFINE codes == <<isSafeAndAllowed(r), Redirected(r), tryCGI(r)>>
  <2>1. DOMAIN codes = 1..3 /\ codes[1] # "cgi" /\ codes[2] # "cgi" /\ codes[3] = tryCGI(r)
    BY <1>6
  <2>2. (\E i \in DOMAIN codes : codes[i] = "cgi") => r.route.scripts # {}
    BY <2>1, ScriptRoute
  <2>3. Begin(r, codes, "isDirectory")
    BY <1>8
  <2> HIDE DEF codes
  <2>4. HandlerInv'
    BY <1>3, <1>4, <1>8, <2>2, <2>3, BeginKeeps
  <2>5. QED
    BY <1>5, <2>4 DEF Inv
<1>9. CASE r.method = "POST" /\ Begin(r, <<isSafeAndAllowed(r), Redirected(r), TooLarge(r), tryCGI(r), NotAFile(r)>>,
                                      "storeExists")
  <2> DEFINE codes == <<isSafeAndAllowed(r), Redirected(r), TooLarge(r), tryCGI(r), NotAFile(r)>>
  <2>1. /\ DOMAIN codes = 1..5 /\ codes[1] # "cgi" /\ codes[2] # "cgi" /\ codes[3] # "cgi"
        /\ codes[4] = tryCGI(r) /\ codes[5] # "cgi" /\ codes[5] = NotAFile(r)
    BY <1>6
  <2>2. (\E i \in DOMAIN codes : codes[i] = "cgi") => r.route.scripts # {}
    BY <2>1, ScriptRoute
  <2>3. Begin(r, codes, "storeExists")
    BY <1>9
  <2>4. (\A i \in DOMAIN codes : codes[i] = "none") => r.body.kind \in {"short", "long"}
    BY <1>7, <2>1
  <2> HIDE DEF codes
  <2>5. HandlerInv'
    BY <1>3, <1>4, <1>9, <2>2, <2>3, <2>4, BeginKeeps
  <2>6. QED
    BY <1>5, <2>5 DEF Inv
<1>10. CASE r.method = "DELETE" /\ Begin(r, <<isSafeAndAllowed(r)>>, "isDirectory")
  <2> DEFINE codes == <<isSafeAndAllowed(r)>>
  <2>1. DOMAIN codes = 1..1 /\ codes[1] # "cgi"
    BY <1>6
  <2>2. ~\E i \in DOMAIN codes : codes[i] = "cgi"
    BY <2>1
  <2>3. Begin(r, codes, "isDirectory")
    BY <1>10
  <2> HIDE DEF codes
  <2>4. HandlerInv'
    BY <1>3, <1>4, <2>2, <2>3, BeginKeeps
  <2>5. QED
    BY <1>5, <2>4 DEF Inv
<1>11. QED
  BY <1>3, <1>8, <1>9, <1>10 DEF Receive

\* A handler that has not been answered may be: there is room for its session.
LEMMA CallAnswered ==
    ASSUME Inv, at \notin ScriptCalls \cup {"idle"},
           NEW code, code # "none", NEW data, Answer(request, code, data)
    PROVE  HandlerInv'
BY AnswerKeeps DEF Inv, HandlerInv, Room

\* GET looks at files, and at directories, or starts a script.
GetCalls == {"isDirectory", "indexExists", "indexReadable", "readIndex", "opendir", "fileExists",
             "isReadable", "read"}

Get == GetIsDirectory \/ GetIndexExists \/ GetOpendir \/ GetFileExists \/ GetFile

LEMMA GetEnds ==
    ASSUME Get
    PROVE  /\ at \in GetCalls /\ request.method = "GET" /\ UNCHANGED <<tree, linked>>
           /\ \/ \E call \in GetCalls : Continue(call)
              \/ \E code \in {"200", "301", "403", "404", "500"} : \E data : Answer(request, code, data)
              \/ StartCGI(request) /\ request.route.scripts # {}
<1> USE DEF Getting, GetCalls
<1>1. CASE GetIsDirectory
  BY <1>1 DEF GetIsDirectory, NoIndex, Return
<1>2. CASE GetIndexExists
  BY <1>2 DEF GetIndexExists, NoIndex, Return, isCGIRequest
<1>3. CASE GetOpendir \/ GetFileExists
  BY <1>3 DEF GetOpendir, GetFileExists, Return
<1>4. CASE GetFile
  BY <1>4 DEF GetFile, AccessFile, ReadFile, Return
<1>5. QED
  BY <1>1, <1>2, <1>3, <1>4 DEF Get

LEMMA GetKeeps == ASSUME Inv, Get PROVE Inv'
<1>1. /\ at \in GetCalls /\ request.method = "GET" /\ UNCHANGED <<tree, linked>>
      /\ HandlerInv /\ SessionsInv
  BY GetEnds DEF Inv, HandlerInv
<1>2. at # "idle" /\ at \notin PostCalls /\ at \notin ScriptCalls
  BY <1>1 DEF GetCalls, PostCalls, ScriptCalls
<1>3. FileInv'
  BY <1>1, <1>2, FilesKept DEF Inv, PostCalls
<1>4. CASE \E call \in GetCalls : Continue(call)
  <2>1. PICK call \in GetCalls : Continue(call)
    BY <1>4
  <2>2. call # "idle" /\ call \notin PostCalls /\ call \notin ScriptCalls
    BY DEF GetCalls, PostCalls, ScriptCalls
  <2>3. HandlerInv'
    BY <1>1, <1>2, <2>1, <2>2, ContinueKeeps
  <2>4. QED
    BY <1>3, <2>3 DEF Inv
<1>5. CASE \E code \in {"200", "301", "403", "404", "500"} : \E data : Answer(request, code, data)
  <2>1. HandlerInv'
    BY <1>2, <1>5, CallAnswered
  <2>2. QED
    BY <1>3, <2>1 DEF Inv
<1>6. CASE StartCGI(request) /\ request.route.scripts # {}
  <2>1. HandlerInv'
    BY <1>1, <1>2, <1>6, StartKeeps DEF HandlerInv, Room, Stages
  <2>2. QED
    BY <1>3, <2>1 DEF Inv
<1>7. QED
  BY <1>4, <1>5, <1>6, GetEnds

\* DELETE takes what it names from the tree, if there is nothing in it.
DeleteCalls == {"isDirectory", "fileExists", "canDelete", "remove"}

DeleteFile == DeleteIsDirectory \/ DeleteFileExists \/ DeleteCanDelete \/ DeleteRemove

LEMMA DeleteEnds ==
    ASSUME DeleteFile
    PROVE  /\ at \in DeleteCalls /\ request.method = "DELETE" /\ UNCHANGED linked
           /\ \/ UNCHANGED tree /\ \E call \in DeleteCalls : Continue(call)
              \/ UNCHANGED tree /\ \E code \in {"403", "404", "500"} : Return(code)
              \/ CanRemove /\ tree' = [tree EXCEPT ![Target] = Nothing] /\ Return("204")
<1> USE DEF Deleting, DeleteCalls
<1>1. CASE DeleteIsDirectory
  BY <1>1 DEF DeleteIsDirectory
<1>2. CASE DeleteFileExists \/ DeleteCanDelete
  BY <1>2 DEF DeleteFileExists, DeleteCanDelete
<1>3. CASE DeleteRemove
  BY <1>3 DEF DeleteRemove
<1>4. QED
  BY <1>1, <1>2, <1>3 DEF DeleteFile

LEMMA DeleteKeeps == ASSUME Inv, DeleteFile PROVE Inv'
<1>1. /\ at \in DeleteCalls /\ request.method = "DELETE" /\ UNCHANGED linked
      /\ HandlerInv /\ FileInv
  BY DeleteEnds DEF Inv
<1>2. at # "idle" /\ at \notin PostCalls /\ at \notin ScriptCalls
  BY <1>1 DEF DeleteCalls, PostCalls, ScriptCalls
<1>3. ~linked
  BY <1>1, <1>2 DEF FileInv, Opened, PostCalls
<1>4. CASE UNCHANGED tree /\ \E call \in DeleteCalls : Continue(call)
  <2>1. PICK call \in DeleteCalls : Continue(call)
    BY <1>4
  <2>2. call # "idle" /\ call \notin PostCalls /\ call \notin ScriptCalls
    BY DEF DeleteCalls, PostCalls, ScriptCalls
  <2>3. HandlerInv'
    BY <1>1, <1>2, <2>1, <2>2, ContinueKeeps
  <2>4. QED
    BY <1>1, <1>2, <1>4, <2>3, FilesKept DEF Inv, PostCalls
<1>5. CASE UNCHANGED tree /\ \E code \in {"403", "404", "500"} : Return(code)
  <2>1. HandlerInv'
    BY <1>2, <1>5, CallAnswered DEF Return
  <2>2. QED
    BY <1>1, <1>2, <1>5, <2>1, FilesKept DEF Inv, PostCalls
<1>6. CASE CanRemove /\ tree' = [tree EXCEPT ![Target] = Nothing] /\ Return("204")
  <2>1. HandlerInv'
    BY <1>2, <1>6, CallAnswered DEF Return
  <2>2. Target \in Paths /\ IsEmpty(Target)
    BY <1>6 DEF CanRemove, Kind
  <2>3. tree' \in [Paths -> Nodes] /\ WellFormed(tree')
    BY <1>1, <1>6, <2>2, NodeRemoved DEF FileInv
  <2>4. QED
    BY <1>1, <1>3, <2>1, <2>3 DEF Inv, FileInv, Opened
<1>7. QED
  BY <1>4, <1>5, <1>6, DeleteEnds

\* POST finds the store, opens the file in it, writes and closes it.
Post == StoreExists \/ StoreIsDirectory \/ Open \/ Write \/ Close

LEMMA PostEnds ==
    ASSUME Post
    PROVE  /\ at \in PostCalls
           /\ \/ \E call \in PostCalls : Continue(call)
              \/ \E code \in {"201", "500"} : Return(code)
<1> USE DEF PostCalls
<1>1. CASE StoreExists \/ StoreIsDirectory
  BY <1>1 DEF StoreExists, StoreIsDirectory
<1>2. CASE Open
  BY <1>2 DEF Open
<1>3. CASE Write
  BY <1>3 DEF Write
<1>4. CASE Close
  BY <1>4 DEF Close
<1>5. QED
  BY <1>1, <1>2, <1>3, <1>4 DEF Post

LEMMA PostHandled == ASSUME Inv, Post PROVE HandlerInv'
<1>1. at \in PostCalls /\ HandlerInv
  BY PostEnds DEF Inv
<1>2. at \notin ScriptCalls \cup {"idle"}
  BY <1>1 DEF PostCalls, ScriptCalls
<1>3. CASE \E call \in PostCalls : Continue(call)
  <2>1. PICK call \in PostCalls : Continue(call)
    BY <1>3
  <2>2. call # "idle" /\ call \notin ScriptCalls
    BY DEF PostCalls, ScriptCalls
  <2>3. QED
    BY <1>1, <1>2, <2>1, <2>2, ContinueKeeps
<1>4. CASE \E code \in {"201", "500"} : Return(code)
  BY <1>2, <1>4, CallAnswered DEF Return
<1>5. QED
  BY <1>3, <1>4, PostEnds

\* A write changes what is in the file that was opened, or nothing.
LEMMA PutKeeps ==
    ASSUME FileInv, NEW data \in Data, Put(data)
    PROVE  /\ tree' \in [Paths -> Nodes] /\ WellFormed(tree')
           /\ linked => tree'[Upload].kind = "file"
<1>1. CASE ~linked
  BY <1>1 DEF Put, FileInv
<1>2. CASE linked
  <2>1. Upload \in Paths /\ tree[Upload].kind = "file" /\ tree' = [tree EXCEPT ![Upload] = File(data)]
    BY <1>2 DEF FileInv, Opened, Put
  <2>2. File(data) \in Nodes /\ File(data).kind = "file"
    BY FileType
  <2>3. tree' \in [Paths -> Nodes] /\ WellFormed(tree')
    BY <2>1, <2>2, FileReplaced DEF FileInv
  <2>4. tree'[Upload] = File(data)
    BY <2>1 DEF FileInv
  <2>5. QED
    BY <2>2, <2>3, <2>4
<1>3. QED
  BY <1>1, <1>2

LEMMA PostKeeps == ASSUME Inv, Post PROVE Inv'
<1>1. HandlerInv' /\ FileInv /\ at # "idle" /\ Stages
  BY PostHandled, PostEnds DEF Inv, HandlerInv, PostCalls
<1>2. /\ Front(Upload) = Store /\ (Len(Upload) > 1 => Store # <<>>)
      /\ request.body.data \in Data
  BY <1>1, UploadIsIn
<1>3. Empty \in Data /\ Torn \in Data
  BY PathAssumption
<1>4. Continue("write") \/ Continue("close") => Upload' = Upload
  BY DEF Continue, Upload
<1>5. CASE StoreExists \/ StoreIsDirectory
  BY <1>1, <1>5, FilesKept DEF Inv, StoreExists, StoreIsDirectory
<1>6. CASE Open /\ CanCreate
  <2> DEFINE node == File(Empty)
  <2>1. /\ tree' = [tree EXCEPT ![Upload] = node] /\ linked' = TRUE
        /\ at' = "write" /\ Upload' = Upload
    BY <1>4, <1>6 DEF Open, Continue
  <2>2. node \in Nodes /\ node.kind = "file"
    BY <1>3, FileType
  <2>3. CASE Kind(Upload, FALSE) = "file"
    <3>1. Upload \in Paths /\ tree[Upload].kind = "file"
      BY <2>3 DEF Kind
    <3> HIDE DEF node
    <3>2. tree' \in [Paths -> Nodes] /\ WellFormed(tree') /\ tree'[Upload] = node
      BY <1>1, <2>1, <2>2, <3>1, FileReplaced DEF FileInv
    <3>3. QED
      BY <1>1, <2>1, <2>2, <3>1, <3>2 DEF Inv, FileInv, Opened
  <2>4. CASE Upload \in Paths /\ Kind(Upload, FALSE) = "none" /\ Writable(Store)
    <3>1. tree[Upload].kind = "none" /\ (Len(Upload) > 1 => tree[Front(Upload)].kind = "dir")
      BY <1>2, <2>4 DEF Kind, Writable
    <3> HIDE DEF node
    <3>2. tree' \in [Paths -> Nodes] /\ WellFormed(tree') /\ tree'[Upload] = node
      BY <1>1, <2>1, <2>2, <2>4, <3>1, FileMade DEF FileInv
    <3>3. QED
      BY <1>1, <2>1, <2>2, <2>4, <3>2 DEF Inv, FileInv, Opened
  <2>5. QED
    BY <1>6, <2>3, <2>4 DEF CanCreate
<1>7. CASE Open /\ ~CanCreate
  BY <1>1, <1>7, FilesKept DEF Inv, Open
<1>8. CASE Write
  <2>1. CASE Put(request.body.data) /\ Continue("close") /\ UNCHANGED linked
    <3>1. /\ tree' \in [Paths -> Nodes] /\ WellFormed(tree')
          /\ linked => tree'[Upload].kind = "file"
      BY <1>1, <1>2, <2>1, PutKeeps
    <3>2. QED
      BY <1>1, <1>4, <2>1, <3>1 DEF Continue, Inv, FileInv, Opened
  <2>2. CASE Put(Torn) /\ linked' = FALSE
    BY <1>1, <1>3, <2>2, PutKeeps DEF Inv, FileInv, Opened
  <2>3. CASE Continue("close") /\ UNCHANGED <<tree, linked>>
    BY <1>1, <1>4, <2>3 DEF Continue, Inv, FileInv, Opened, WellFormed
  <2>4. QED
    BY <1>8, <2>1, <2>2, <2>3 DEF Write
<1>9. CASE Close
  <2>1. CASE \E written \in {request.body.data, Torn} : Put(written)
    <3>1. tree' \in [Paths -> Nodes] /\ WellFormed(tree')
      BY <1>1, <1>2, <1>3, <2>1, PutKeeps
    <3>2. QED
      BY <1>1, <1>9, <3>1 DEF Close, Inv, FileInv, Opened
  <2>2. CASE UNCHANGED tree
    BY <1>1, <1>9, <2>2 DEF Close, Inv, FileInv, Opened, WellFormed
  <2>3. QED
    BY <1>9, <2>1, <2>2 DEF Close
<1>10. QED
  BY <1>5, <1>6, <1>7, <1>8, <1>9 DEF Post

\* The start of a script touches neither files nor sessions.
Run == ScriptExists \/ ScriptExecutable \/ Fork

LEMMA ScriptKeeps == ASSUME Inv, Run PROVE Inv'
<1>1. at \in ScriptCalls /\ UNCHANGED <<tree, linked>> /\ HandlerInv
  BY DEF Run, ScriptExists, ScriptExecutable, Fork, Starting, ScriptCalls, Inv
<1>2. FileInv'
  BY <1>1, FilesKept DEF Inv, ScriptCalls
<1>3. CASE \E call \in ScriptCalls : Continue(call)
  <2>1. PICK call \in ScriptCalls : Continue(call)
    BY <1>3
  <2>2. at # "idle" /\ call # "idle" /\ call \notin PostCalls
    BY <1>1 DEF PostCalls, ScriptCalls
  <2>3. HandlerInv'
    BY <1>1, <2>1, <2>2, ContinueKeeps
  <2>4. QED
    BY <1>2, <2>3 DEF Inv
<1>4. CASE \E code \in {"404", "403", "cgi", "500"} : \E data : Started(code, data)
  <2>1. HandlerInv'
    BY <1>1, <1>4, StartedKeeps
  <2>2. QED
    BY <1>2, <2>1 DEF Inv
<1>5. QED
  BY <1>3, <1>4 DEF Run, ScriptExists, ScriptExecutable, Fork, ScriptCalls

\* Others leave a tree, and an open file where it is or nowhere.
LEMMA OthersKeep == ASSUME Inv, OthersChange PROVE Inv'
<1>1. PICK p \in Paths, node \in Nodes :
         tree' = [tree EXCEPT ![p] = node] /\ linked' = (linked /\ p # Upload)
  BY DEF OthersChange
<1>2. WellFormed(tree') /\ UNCHANGED <<at, request, answer, AllSession, jar>>
  BY DEF OthersChange
<1>3. FileInv'
  BY <1>1, <1>2 DEF Inv, FileInv, Opened, Upload
<1>4. HandlerInv'
  BY <1>2 DEF Inv, HandlerInv, SessionsInv, SessionsDistinct, Room, Stages, Answered, SameRequest
<1>5. QED
  BY <1>3, <1>4 DEF Inv

-----------------------------------------------------------------------------
(* The theorems *)

\* Every step of a handler, and of others, keeps the invariant.
THEOREM Invariance == Spec => []Inv
<1>1. Inv /\ [Next]_vars => Inv'
  <2> SUFFICES ASSUME Inv, [Next]_vars
               PROVE  Inv'
    OBVIOUS
  <2>1. CASE ReceiveAny
    BY <2>1, ReceiveKeeps
  <2>2. CASE Get
    BY <2>2, GetKeeps
  <2>3. CASE DeleteFile
    BY <2>3, DeleteKeeps
  <2>4. CASE Post
    BY <2>4, PostKeeps
  <2>5. CASE Run
    BY <2>5, ScriptKeeps
  <2>6. CASE OthersChange
    BY <2>6, OthersKeep
  <2>7. CASE UNCHANGED vars
    BY <2>7 DEF vars, Inv, FileInv, WellFormed, Opened, Upload, HandlerInv, SessionsInv, SessionsDistinct,
                Room, Stages, Answered, SameRequest
  <2>8. QED
    BY <2>1, <2>2, <2>3, <2>4, <2>5, <2>6, <2>7 DEF Next, Serve, Get, DeleteFile, Post, Run
<1>2. QED
  BY <1>1, InitInv, PTL DEF Spec

\* The tree stays a tree whatever requests and other processes do to it, and the
\* table of sessions within its bound.
THEOREM TypeCorrect == Spec => []TypeOK
<1>1. Inv => TypeOK
  BY DEF Inv, FileInv, Opened, HandlerInv, SessionsInv, Answered, TypeOK
<1>2. QED
  BY <1>1, Invariance, PTL

\* makeSessionId gives no identifier twice: no two clients ever share a session.
THEOREM SessionsOwned == Spec => []SessionsDistinct
<1>1. Inv => SessionsDistinct
  BY DEF Inv, HandlerInv, SessionsInv
<1>2. QED
  BY <1>1, Invariance, PTL

-----------------------------------------------------------------------------
(* The handlers implement DocumentStore *)

\* The methods, and the start of a script, take the same path for a URI.
Agree(r) ==
    /\ r.method = "GET" => SmartPath(r) = Place(r)
    /\ r.method = "DELETE" => makeThePath(r) = Place(r)
    /\ r.route.scripts # {} => ScriptPath(r) = Script(r)

NamesAgree == \A r \in Requests : Agree(r)

\* They do where every route has the root Top and no location of its own, and no
\* URI starts with the name of the root.
LEMMA OneRoot ==
    ASSUME NEW r, Top \in Seq(ToSet(Top)), r.uri.names \in Seq(ToSet(r.uri.names)),
           r.route.root = Top, r.route.path = <<>>, r.method # "POST",
           r.uri.names # <<>> => <<Last(Top), Head(r.uri.names)>> \notin Begins
    PROVE  Agree(r)
<1>1. SmartPath(r) = Place(r) /\ makeThePath(r) = Place(r)
  BY DEF SmartPath, makeThePath, Place
<1>2. ScriptPath(r) = Script(r)
  <2>1. IsPrefix(<<>>, r.uri.names)
    BY DEF IsPrefix
  <2>2. SubSeq(r.uri.names, Len(<<>>) + 1, Len(r.uri.names)) = r.uri.names
    OBVIOUS
  <2>3. QED
    BY <2>1, <2>2 DEF ScriptPath, Script
<1>3. QED
  BY <1>1, <1>2 DEF Agree

\* What holds of a request that was received holds of the one that is handled.
LEMMA RequestAgrees ==
    ASSUME NamesAgree, Stages, at # "idle"
    PROVE  Agree(request)
<1>1. PICK r \in Requests : SameRequest(request, r)
  BY DEF Stages
<1>2. Agree(r)
  BY DEF NamesAgree
<1>3. QED
  BY <1>1, <1>2 DEF SameRequest, Agree, Place, Script, SmartPath, makeThePath, ScriptPath, UploadPath

\* The calls of a DELETE whose path was seen to be no directory
CheckedCalls == {"fileExists", "canDelete", "remove"}

\* No document is being replaced before or after the file is open, and none deleted
\* but by DELETE.
LEMMA NoStage ==
    ASSUME at \notin {"write", "close"}, at \notin CheckedCalls \/ request.method # "DELETE"
    PROVE  Stage = "none"
BY DEF Stage, CheckedCalls

LEMMA CheckedStage == ASSUME at \in CheckedCalls, request.method = "DELETE" PROVE Stage = "checked"
BY DEF Stage, CheckedCalls

LEMMA InitImplements == ASSUME Init PROVE Documents!Init
BY DEF Init, Documents!Init, Documents!Absent, Nothing, NoRequest, Pending, Stage

\* Between two calls of a handler nothing can be seen,
LEMMA CallUnseen ==
    ASSUME NEW call, Continue(call), UNCHANGED <<tree, others>>,
           at \notin {"write", "close"}, call \notin {"write", "close"},
           request.method = "DELETE" => (at \in CheckedCalls <=> call \in CheckedCalls)
    PROVE  UNCHANGED Documents!vars
BY DEF Continue, Documents!vars, Stage, CheckedCalls

\* ... and nothing when a script is to be started after the first.
LEMMA StartUnseen ==
    ASSUME Answered, at \notin {"idle", "write", "close"}, StartCGI(request), UNCHANGED <<tree, others>>,
           request.method # "DELETE"
    PROVE  UNCHANGED Documents!vars
BY DEF StartCGI, Answered, FreshResponse, Documents!vars, Stage

\* A handler waits for its answer.
LEMMA WaitingFor ==
    ASSUME Answered, at # "idle", UNCHANGED <<request, others>>
    PROVE  Documents!Waiting(request.method)
BY DEF Answered, Documents!Waiting, Pending

LEMMA AnswerSeen ==
    ASSUME NEW code, NEW data, at' = "idle", answer' = [code |-> code, data |-> data]
    PROVE  Documents!Answer(code, data)
BY DEF Documents!Answer, Stage

LEMMA BeginImplements ==
    ASSUME Answered, at = "idle", UNCHANGED <<tree, others>>,
           NEW r, NEW codes, NEW call \in {"isDirectory", "storeExists"}, Begin(r, codes, call),
           \A i \in DOMAIN codes : (\A j \in 1..(i - 1) : codes[j] = "none") =>
              codes[i] \in {"none", "301", "400", "403", "405", "413", "500", "cgi"}
              \/ (codes[i] = "200" /\ r.body.kind = "raw")
    PROVE  Documents!Ask
<1>1. Stage = "none"
  BY NoStage DEF CheckedCalls
<1>2. answer.code # "none" \/ request.method = "none"
  BY DEF Answered, NoRequest
<1>3. ASSUME NEW i \in DOMAIN codes, codes[i] # "none", codes[i] # "cgi",
             \A j \in 1..(i - 1) : codes[j] = "none", Answer(r, codes[i], Empty)
      PROVE  Documents!Ask
  <2>1. \/ codes[i] \in {"301", "400", "403", "405", "413", "500"}
        \/ codes[i] = "200" /\ r.body.kind = "raw"
    BY <1>3
  <2>2. at' = "idle" /\ request' = r /\ answer' = [code |-> codes[i], data |-> Empty]
    BY <1>3 DEF Answer
  <2>3. Stage' = "none"
    BY <2>2 DEF Stage
  <2>4. QED
    BY <1>1, <1>2, <2>1, <2>2, <2>3 DEF Documents!Ask
<1>4. CASE StartCGI(r)
  BY <1>1, <1>2, <1>4 DEF StartCGI, FreshResponse, Pending, Documents!Ask, Stage
<1>5. CASE at' = call /\ request' = r /\ FreshResponse
  BY <1>1, <1>2, <1>5 DEF FreshResponse, Pending, Documents!Ask, Stage
<1>6. QED
  BY <1>3, <1>4, <1>5 DEF Begin

LEMMA ReceiveImplements == ASSUME Inv, ReceiveAny, UNCHANGED others PROVE Documents!Ask
<1>1. PICK q \in Requests, c \in Clients : \E cookie \in {0, jar[c]} :
         Receive([client |-> c, cookie |-> cookie, method |-> q.method, uri |-> q.uri,
                  route |-> q.route, body |-> q.body])
  BY DEF ReceiveAny
<1>2. PICK cookie \in {0, jar[c]} :
         Receive([client |-> c, cookie |-> cookie, method |-> q.method, uri |-> q.uri,
                  route |-> q.route, body |-> q.body])
  BY <1>1
<1> DEFINE r == [client |-> c, cookie |-> cookie, method |-> q.method, uri |-> q.uri,
                 route |-> q.route, body |-> q.body]
<1>3. Receive(r) /\ r.body.kind \in {"raw", "malformed", "too large", "short", "long"}
  BY <1>2, RequestAssumption
<1> HIDE DEF r
<1>4. Answered /\ at = "idle" /\ UNCHANGED <<tree, others>>
  BY <1>3 DEF Inv, HandlerInv, Receive
<1>5. /\ isSafeAndAllowed(r) \in {"405", "403", "none"}
      /\ Redirected(r) \in {"301", "none"} /\ TooLarge(r) \in {"413", "none"}
      /\ tryCGI(r) \in {"cgi", "none"} /\ NotAFile(r) \in {"200", "400", "500", "none"}
      /\ TooLarge(r) = "none" /\ NotAFile(r) = "200" => r.body.kind = "raw"
  BY <1>3 DEF isSafeAndAllowed, Redirected, TooLarge, tryCGI, NotAFile
<1>6. CASE Begin(r, <<isSafeAndAllowed(r), Redirected(r), tryCGI(r)>>, "isDirectory")
  <2> DEFINE codes == <<isSafeAndAllowed(r), Redirected(r), tryCGI(r)>>
  <2>1. DOMAIN codes = 1..3 /\ \A i \in 1..3 : codes[i] \in {"none", "301", "403", "405", "cgi"}
    BY <1>5
  <2>2. Begin(r, codes, "isDirectory")
    BY <1>6
  <2> HIDE DEF codes
  <2>3. QED
    BY <1>4, <2>1, <2>2, BeginImplements
<1>7. CASE Begin(r, <<isSafeAndAllowed(r), Redirected(r), TooLarge(r), tryCGI(r), NotAFile(r)>>, "storeExists")
  <2> DEFINE codes == <<isSafeAndAllowed(r), Redirected(r), TooLarge(r), tryCGI(r), NotAFile(r)>>
  <2>1. /\ DOMAIN codes = 1..5
        /\ \A i \in 1..4 : codes[i] \in {"none", "301", "403", "405", "413", "cgi"}
        /\ codes[5] \in {"200", "400", "500", "none"}
        /\ codes[3] = "none" /\ codes[5] = "200" => r.body.kind = "raw"
    BY <1>5
  <2>2. Begin(r, codes, "storeExists")
    BY <1>7
  <2> HIDE DEF codes
  <2>3. \A i \in DOMAIN codes : (\A j \in 1..(i - 1) : codes[j] = "none") =>
           codes[i] \in {"none", "301", "400", "403", "405", "413", "500", "cgi"}
           \/ (codes[i] = "200" /\ r.body.kind = "raw")
    <3>1. 3 \in 1..(5 - 1)
      OBVIOUS
    <3>2. QED
      BY <2>1, <3>1
  <2>4. QED
    BY <1>4, <2>2, <2>3, BeginImplements
<1>8. CASE Begin(r, <<isSafeAndAllowed(r)>>, "isDirectory")
  <2> DEFINE codes == <<isSafeAndAllowed(r)>>
  <2>1. DOMAIN codes = 1..1 /\ \A i \in 1..1 : codes[i] \in {"none", "403", "405"}
    BY <1>5
  <2>2. Begin(r, codes, "isDirectory")
    BY <1>8
  <2> HIDE DEF codes
  <2>3. QED
    BY <1>4, <2>1, <2>2, BeginImplements
<1>9. QED
  BY <1>3, <1>6, <1>7, <1>8 DEF Receive

\* There are directories, files and what is not there; the working directory is
\* none of the paths.
LEMMA NodeKinds ==
    ASSUME tree \in [Paths -> Nodes]
    PROVE  \A p \in Paths : tree[p].kind \in {"none", "dir", "file"} /\ p # <<>>
<1>1. \A p \in Paths : p # <<>>
  BY PathAssumption
<1>2. \A node \in Nodes : node.kind \in {"none", "dir", "file"}
  BY DEF Nodes, Nothing
<1>3. QED
  BY <1>1, <1>2

\* What is read is what the URI names, or the index file in it.
LEMMA GetImplements ==
    ASSUME Inv, NamesAgree, Get, UNCHANGED others
    PROVE  Documents!Refuse \/ Documents!Fetch \/ Documents!Missing \/ UNCHANGED Documents!vars
<1>1. /\ at \in GetCalls /\ request.method = "GET" /\ UNCHANGED <<tree, linked, others>>
      /\ Answered /\ Stages /\ tree \in [Paths -> Nodes]
  BY GetEnds DEF Inv, HandlerInv, FileInv
<1>2. at \notin {"idle", "write", "close"}
  BY <1>1 DEF GetCalls
<1>3. /\ SmartPath(request) = Documents!Named
      /\ IndexPath(request) = Index(request)
  BY <1>1, <1>2, RequestAgrees DEF Agree, Documents!Named, IndexPath, Index
<1>4. \A p \in Paths : tree[p].kind \in {"none", "dir", "file"} /\ p # <<>>
  BY <1>1, NodeKinds
<1>5. CASE \E call \in GetCalls : Continue(call)
  BY <1>1, <1>2, <1>5, CallUnseen DEF GetCalls
<1>6. CASE StartCGI(request)
  BY <1>1, <1>2, <1>6, StartUnseen
<1>7. ASSUME NEW code \in {"301", "403", "500"}, Return(code)
      PROVE  Documents!Refuse
  <2>1. Documents!Waiting("GET") /\ Documents!Answer(code, Empty)
    BY <1>1, <1>2, <1>7, WaitingFor, AnswerSeen DEF Return, Answer
  <2>2. QED
    BY <1>1, <2>1 DEF Documents!Refuse
<1>8. CASE GetIsDirectory
  BY <1>5, <1>7, <1>8 DEF GetIsDirectory, NoIndex, GetCalls
<1>9. CASE GetIndexExists
  BY <1>5, <1>6, <1>7, <1>9 DEF GetIndexExists, NoIndex, GetCalls
<1>10. CASE GetOpendir
  <2>1. CASE Kind(SmartPath(request), TRUE) = "dir" /\ Answer(request, "200", Names(SmartPath(request)))
    <3>1. /\ Documents!Named \in Paths /\ Documents!Named # <<>>
          /\ tree[Documents!Named].kind = "dir" /\ ~Documents!Absent(Documents!Named)
      BY <1>3, <1>4, <2>1 DEF Kind, Documents!Absent
    <3>2. Names(SmartPath(request)) = Documents!Entries(Documents!Named)
      <4>1. \A q \in Paths : Front(q) = SubSeq(q, 1, Len(q) - 1) /\ Last(q) = q[Len(q)]
        BY DEF Front, Last
      <4>2. \A q \in Paths : Len(q) \in Nat /\ (Len(q) <= 1 => Front(q) = <<>>)
        BY PathAssumption DEF Front
      <4>3. \A q \in Paths : Front(q) = Documents!Named => Len(q) > 1
        BY <3>1, <4>2
      <4>4. {q \in Paths : Len(q) > 1 /\ Front(q) = Documents!Named /\ tree[q].kind # "none"}
            = {q \in Paths : ~Documents!Absent(q) /\ SubSeq(q, 1, Len(q) - 1) = Documents!Named}
        BY <4>1, <4>3 DEF Documents!Absent
      <4>5. QED
        BY <1>3, <4>1, <4>4 DEF Names, Documents!Entries
    <3>3. Documents!Waiting("GET") /\ Documents!Answer("200", Documents!Entries(Documents!Named))
      BY <1>1, <1>2, <2>1, <3>2, WaitingFor, AnswerSeen DEF Answer
    <3>4. QED
      BY <1>1, <3>1, <3>3 DEF Documents!Fetch, Documents!IsFolder
  <2>2. CASE Return("500")
    BY <1>7, <2>2
  <2>3. QED
    BY <1>10, <2>1, <2>2 DEF GetOpendir
<1>11. CASE GetFileExists
  <2>1. CASE Kind(SmartPath(request), request.uri.slash) = "none" /\ Return("404")
    <3>1. Documents!NotThere(Documents!Named)
      BY <1>3, <1>4, <2>1 DEF Kind, Documents!NotThere, Documents!Absent
    <3>2. Documents!Waiting("GET") /\ Documents!Answer("404", Empty)
      BY <1>1, <1>2, <2>1, WaitingFor, AnswerSeen DEF Return, Answer
    <3>3. QED
      BY <1>1, <3>1, <3>2 DEF Documents!Missing
  <2>2. CASE Continue("isReadable")
    BY <1>5, <2>2 DEF GetCalls
  <2>3. QED
    BY <1>11, <2>1, <2>2 DEF GetFileExists
<1>12. ASSUME NEW path \in {SmartPath(request), IndexPath(request)}, NEW call, ReadFile(call, path)
       PROVE  Documents!Refuse \/ Documents!Fetch
  <2>1. CASE Readable(path) /\ Answer(request, "200", tree[path].data)
    <3>1. path \in {Documents!Named, Index(request)} /\ ~Documents!Absent(path)
      BY <1>3, <1>12, <2>1 DEF Readable, Kind, Documents!Absent
    <3>2. Documents!Waiting("GET") /\ Documents!Answer("200", tree[path].data)
      BY <1>1, <1>2, <2>1, WaitingFor, AnswerSeen DEF Answer
    <3>3. QED
      BY <1>1, <3>1, <3>2 DEF Documents!Fetch
  <2>2. CASE Return("500")
    BY <1>7, <2>2
  <2>3. QED
    BY <1>12, <2>1, <2>2 DEF ReadFile
<1>13. CASE GetFile
  <2>1. CASE AccessFile("indexReadable", IndexPath(request), "readIndex")
    BY <1>5, <1>7, <2>1 DEF AccessFile, GetCalls
  <2>2. CASE AccessFile("isReadable", SmartPath(request), "read")
    BY <1>5, <1>7, <2>2 DEF AccessFile, GetCalls
  <2>3. CASE ReadFile("readIndex", IndexPath(request)) \/ ReadFile("read", SmartPath(request))
    BY <1>12, <2>3
  <2>4. QED
    BY <1>13, <2>1, <2>2, <2>3 DEF GetFile
<1>14. QED
  BY <1>8, <1>9, <1>10, <1>11, <1>13 DEF Get

\* What is removed is what the URI names: a file, or an empty directory in its place.
LEMMA DeleteImplements ==
    ASSUME Inv, NamesAgree, DeleteFile, UNCHANGED others
    PROVE  \/ Documents!Refuse \/ Documents!Check \/ Documents!Delete \/ Documents!TookItsPlace
           \/ Documents!Missing \/ UNCHANGED Documents!vars
<1>1. /\ at \in DeleteCalls /\ request.method = "DELETE" /\ UNCHANGED <<linked, others>>
      /\ Answered /\ Stages /\ tree \in [Paths -> Nodes]
  BY DeleteEnds DEF Inv, HandlerInv, FileInv
<1>2. at \notin {"idle", "write", "close"}
  BY <1>1 DEF DeleteCalls
<1>3. Target = Documents!Named
  BY <1>1, <1>2, RequestAgrees DEF Agree, Documents!Named, Target
<1>4. \A p \in Paths : tree[p].kind \in {"none", "dir", "file"} /\ p # <<>>
  BY <1>1, NodeKinds
<1>5. Kind(Target, request.uri.slash) = "dir" <=> Documents!IsFolder(Documents!Named)
  BY <1>3 DEF Kind, Documents!IsFolder, Documents!Absent
<1>6. Kind(Target, request.uri.slash) = "none" <=> Documents!NotThere(Documents!Named)
  BY <1>3, <1>4 DEF Kind, Documents!NotThere, Documents!Absent
<1>7. ASSUME NEW code, Return(code)
      PROVE  Documents!Waiting("DELETE") /\ Documents!Answer(code, Empty)
  BY <1>1, <1>2, <1>7, WaitingFor, AnswerSeen DEF Return, Answer
<1>8. ASSUME at \in CheckedCalls, NEW call \in CheckedCalls, Continue(call), UNCHANGED tree
      PROVE  UNCHANGED Documents!vars
  BY <1>1, <1>2, <1>8, CallUnseen DEF CheckedCalls
<1>9. ASSUME at \in CheckedCalls, NEW code \in {"403", "500"}, Return(code), UNCHANGED tree
      PROVE  Documents!Refuse
  BY <1>1, <1>7, <1>9, CheckedStage DEF Documents!Refuse
<1>10. CASE DeleteIsDirectory
  <2>1. Stage = "none" /\ UNCHANGED tree
    BY <1>2, <1>10, NoStage DEF DeleteIsDirectory, Deleting, CheckedCalls
  <2>2. CASE Documents!IsFolder(Documents!Named) /\ Return("403")
    BY <1>7, <2>1, <2>2 DEF Documents!Refuse
  <2>3. CASE ~Documents!IsFolder(Documents!Named) /\ Continue("fileExists")
    <3>1. Stage' = "checked" /\ UNCHANGED answer
      BY <1>1, <2>3 DEF Continue, Stage
    <3>2. Documents!Waiting("DELETE")
      BY <1>1, <1>2, <2>3, WaitingFor DEF Continue
    <3>3. QED
      BY <2>1, <2>3, <3>1, <3>2 DEF Documents!Check
  <2>4. QED
    BY <1>5, <1>10, <2>2, <2>3 DEF DeleteIsDirectory
<1>11. CASE DeleteFileExists
  <2>1. at \in CheckedCalls /\ UNCHANGED tree
    BY <1>11 DEF DeleteFileExists, Deleting, CheckedCalls
  <2>2. CASE Documents!NotThere(Documents!Named) /\ Return("404")
    BY <1>7, <2>1, <2>2 DEF Documents!Missing
  <2>3. CASE Continue("canDelete")
    BY <1>8, <2>1, <2>3 DEF CheckedCalls
  <2>4. QED
    BY <1>6, <1>11, <2>2, <2>3 DEF DeleteFileExists
<1>12. CASE DeleteCanDelete
  <2>1. at \in CheckedCalls /\ UNCHANGED tree
    BY <1>12 DEF DeleteCanDelete, Deleting, CheckedCalls
  <2>2. CASE Continue("remove")
    BY <1>8, <2>1, <2>2 DEF CheckedCalls
  <2>3. CASE Return("403")
    BY <1>9, <2>1, <2>3
  <2>4. QED
    BY <1>12, <2>2, <2>3 DEF DeleteCanDelete
<1>13. CASE DeleteRemove
  <2>1. at \in CheckedCalls
    BY <1>13 DEF DeleteRemove, Deleting, CheckedCalls
  <2>2. CASE CanRemove /\ tree' = [tree EXCEPT ![Target] = Nothing] /\ Return("204")
    <3>1. /\ Documents!Named \in Paths /\ Documents!Named # <<>> /\ IsEmpty(Documents!Named)
          /\ ~Documents!NotThere(Documents!Named)
      BY <1>3, <1>4, <1>6, <2>2 DEF CanRemove, Documents!NotThere, Documents!Absent
    <3>2. Documents!Entries(Documents!Named) = {}
      <4>1. \A q \in Paths : Front(q) = SubSeq(q, 1, Len(q) - 1)
        BY DEF Front
      <4>2. \A q \in Paths : Len(q) \in Nat /\ (Len(q) <= 1 => Front(q) = <<>>)
        BY PathAssumption DEF Front
      <4>3. \A q \in Paths : SubSeq(q, 1, Len(q) - 1) = Documents!Named => Documents!Absent(q)
        BY SMTT(30), <3>1, <4>1, <4>2 DEF IsEmpty, Documents!Absent
      <4>4. QED
        BY <4>3 DEF Documents!Entries
    <3>3. Documents!Waiting("DELETE") /\ Documents!Remove
      BY <1>3, <1>7, <2>2 DEF Documents!Remove, Nothing
    <3>4. Stage = "checked"
      BY <1>1, <2>1, CheckedStage
    <3>5. QED
      BY <3>1, <3>2, <3>3, <3>4 DEF Documents!Delete, Documents!TookItsPlace
  <2>3. CASE UNCHANGED tree /\ Return("500")
    BY <1>9, <2>1, <2>3
  <2>4. QED
    BY <1>13, <2>2, <2>3 DEF DeleteRemove
<1>14. QED
  BY <1>10, <1>11, <1>12, <1>13 DEF DeleteFile

\* An upload puts what it was given into the file it names, piece by piece.
LEMMA PostImplements ==
    ASSUME Inv, Post, UNCHANGED others
    PROVE  \/ Documents!Refuse \/ Documents!Replace \/ Documents!Write \/ Documents!Unnoticed
           \/ Documents!Created \/ Documents!BreakOff \/ UNCHANGED Documents!vars
<1>1. /\ at \in PostCalls /\ at # "idle" /\ request.method = "POST" /\ Answered
      /\ request.body.kind \in {"short", "long"} /\ tree \in [Paths -> Nodes] /\ Opened
  BY PostEnds DEF Inv, HandlerInv, FileInv, Stages, PostCalls
<1>2. Documents!Named = Upload
  BY <1>1 DEF Documents!Named, Place, Upload
<1>3. UNCHANGED request => Documents!Waiting("POST")
  BY <1>1, WaitingFor
<1>4. ASSUME NEW code, Return(code)
      PROVE  Documents!Answer(code, Empty) /\ Documents!Waiting("POST")
  BY <1>3, <1>4, AnswerSeen DEF Return, Answer
<1>5. CASE StoreExists \/ StoreIsDirectory
  <2>1. UNCHANGED tree /\ at \notin {"write", "close"}
    BY <1>5 DEF StoreExists, StoreIsDirectory
  <2>2. CASE Continue("storeIsDirectory") \/ Continue("open")
    BY <1>1, <2>1, <2>2, CallUnseen
  <2>3. CASE Return("500")
    BY <1>1, <1>4, <2>1, <2>3, NoStage DEF Documents!Refuse
  <2>4. QED
    BY <1>5, <2>2, <2>3 DEF StoreExists, StoreIsDirectory
<1>6. CASE Open
  <2>1. Stage = "none"
    BY <1>1, <1>6, NoStage DEF Open
  <2>2. CASE tree' = [tree EXCEPT ![Upload] = File(Empty)] /\ linked' = TRUE /\ Continue("write")
    <3>1. Stage' = "replacing" /\ UNCHANGED <<request, answer>>
      BY <2>2 DEF Continue, Stage
    <3>2. QED
      BY <1>2, <1>3, <2>1, <2>2, <3>1 DEF Documents!Replace, Documents!Put, File
  <2>3. CASE UNCHANGED tree /\ Return("500")
    BY <1>4, <2>1, <2>3 DEF Documents!Refuse
  <2>4. QED
    BY <1>6, <2>2, <2>3 DEF Open
<1>7. ASSUME linked, NEW data, Put(data)
      PROVE  Documents!Put(data)
  BY <1>2, <1>7 DEF Put, Documents!Put, File
<1>8. ~linked /\ (\E data : Put(data)) => UNCHANGED tree
  BY DEF Put
<1>9. CASE Write
  <2>1. at = "write" /\ Stage = IF linked THEN "replacing" ELSE "written"
    BY <1>9 DEF Write, Stage
  <2>2. CASE request.body.kind = "long" /\ Put(request.body.data) /\ Continue("close") /\ UNCHANGED linked
    <3>1. Stage' = "written" /\ UNCHANGED <<request, answer>>
      BY <2>2 DEF Continue, Stage
    <3>2. CASE linked
      BY <1>3, <1>7, <2>1, <2>2, <3>1, <3>2 DEF Documents!Write
    <3>3. CASE ~linked
      BY <1>8, <2>1, <2>2, <3>1, <3>3 DEF Documents!vars
    <3>4. QED
      BY <3>2, <3>3
  <2>3. CASE Put(Torn) /\ Return("500")
    <3>1. CASE linked
      BY <1>4, <1>7, <2>1, <2>3, <3>1 DEF Documents!BreakOff
    <3>2. CASE ~linked
      BY <1>4, <1>8, <2>1, <2>3, <3>2 DEF Documents!Refuse
    <3>3. QED
      BY <3>1, <3>2
  <2>4. CASE request.body.kind = "short" /\ Continue("close") /\ UNCHANGED <<tree, linked>>
    BY <2>1, <2>4 DEF Continue, Stage, Documents!vars
  <2>5. QED
    BY <1>9, <2>2, <2>3, <2>4 DEF Write
<1>10. CASE Close
  <2>1. at = "close" /\ Return("201")
    BY <1>10 DEF Close
  <2>2. CASE request.body.kind = "short" /\ \E written \in {request.body.data, Torn} : Put(written)
    <3>1. Stage = IF linked THEN "replacing" ELSE "written"
      BY <2>1, <2>2 DEF Stage
    <3>2. CASE linked
      BY <1>4, <1>7, <2>1, <2>2, <3>1, <3>2 DEF Documents!Write, Documents!Unnoticed
    <3>3. CASE ~linked
      BY <1>4, <1>8, <2>1, <2>2, <3>1, <3>3 DEF Documents!Created
    <3>4. QED
      BY <3>2, <3>3
  <2>3. CASE request.body.kind = "long" /\ UNCHANGED tree
    <3>1. Stage = "written"
      BY <2>1, <2>3 DEF Stage
    <3>2. QED
      BY <1>4, <2>1, <2>3, <3>1 DEF Documents!Created
  <2>4. QED
    BY <1>10, <2>2, <2>3 DEF Close
<1>11. QED
  BY <1>5, <1>6, <1>9, <1>10 DEF Post

\* What is run is what the URI names.
LEMMA RunImplements ==
    ASSUME Inv, NamesAgree, Run, UNCHANGED others
    PROVE  Documents!Refuse \/ Documents!Missing \/ Documents!Run \/ UNCHANGED Documents!vars
<1>1. /\ at \in ScriptCalls /\ UNCHANGED <<tree, linked, others>> /\ Answered /\ Stages
      /\ tree \in [Paths -> Nodes]
  BY DEF Run, ScriptExists, ScriptExecutable, Fork, Starting, ScriptCalls, Inv, HandlerInv, FileInv
<1>2. at \notin {"idle", "write", "close"} /\ Stage = "none"
  BY <1>1, NoStage DEF ScriptCalls, CheckedCalls
<1>3. request.method \in {"GET", "POST"} /\ request.route.scripts # {}
  BY <1>1 DEF Stages
<1>4. ScriptPath(request) = Script(request) /\ (request.method = "GET" => Documents!Named = Script(request))
  BY <1>1, <1>2, <1>3, RequestAgrees DEF Agree, Documents!Named, Place, Script
<1>5. \A p \in Paths : tree[p].kind \in {"none", "dir", "file"}
  BY <1>1, NodeKinds
<1>6. ASSUME NEW code, NEW data, Started(code, data)
      PROVE  Documents!Answer(code, data) /\ Documents!Waiting(request.method)
  BY <1>1, <1>2, <1>6, WaitingFor, AnswerSeen DEF Started
<1>7. CASE \E call \in ScriptCalls : Continue(call)
  BY <1>1, <1>2, <1>3, <1>7, CallUnseen DEF ScriptCalls
<1>8. CASE \E code \in {"403", "500"} : Started(code, Empty)
  <2>1. PICK code \in {"403", "500"} : Started(code, Empty)
    BY <1>8
  <2>2. Documents!Answer(code, Empty) /\ Documents!Waiting(request.method)
    BY <1>6, <2>1
  <2>3. QED
    BY <1>1, <1>2, <1>3, <2>2 DEF Documents!Refuse
<1>9. CASE ScriptExists /\ Started("404", Empty)
  <2>1. Kind(ScriptPath(request), request.uri.slash) = "none" \/ Continue("scriptExecutable")
    BY <1>9 DEF ScriptExists
  <2>2. CASE Kind(ScriptPath(request), request.uri.slash) = "none"
    <3>1. Documents!NotThere(Script(request))
      BY <1>4, <1>5, <2>2 DEF Kind, Documents!NotThere, Documents!Absent
    <3>2. Documents!Answer("404", Empty) /\ Documents!Waiting(request.method)
      BY <1>6, <1>9
    <3>3. QED
      BY <1>1, <1>2, <1>3, <1>4, <3>1, <3>2 DEF Documents!Missing
  <2>3. QED
    BY <1>7, <2>1, <2>2 DEF ScriptCalls
<1>10. CASE Fork /\ Started("cgi", {ScriptPath(request)})
  <2>1. Documents!Answer("cgi", {ScriptPath(request)}) /\ Documents!Waiting(request.method)
    BY <1>6, <1>10
  <2>2. QED
    BY <1>1, <1>2, <1>3, <1>4, <2>1 DEF Documents!Run
<1>11. QED
  BY <1>7, <1>8, <1>9, <1>10 DEF Run, ScriptExists, ScriptExecutable, Fork, ScriptCalls

\* What others do is seen, and may come after what a handler is about to write.
LEMMA OthersImplement == ASSUME Inv, OthersChange PROVE Documents!Others
<1>1. PICK p \in Paths, node \in Nodes :
         /\ node # tree[p] /\ tree' = [tree EXCEPT ![p] = node]
         /\ linked' = (linked /\ p # Upload)
  BY DEF OthersChange
<1>2. others' = ~others /\ UNCHANGED <<at, request, answer>>
  BY DEF OthersChange
<1>3. Opened /\ Stages /\ linked \in BOOLEAN /\ tree \in [Paths -> Nodes]
  BY DEF Inv, FileInv, HandlerInv
<1>4. CASE linked /\ p = Upload
  <2>1. at \in {"write", "close"} /\ request.method = "POST" /\ request.body.kind \in {"short", "long"}
    BY <1>3, <1>4 DEF Opened, Stages, PostCalls
  <2>2. tree'[Documents!Named] # tree[Documents!Named]
    BY <1>1, <1>3, <1>4, <2>1 DEF Documents!Named, Place, Upload
  <2>3. Stage \in {"replacing", "written"} /\ Stage' = "written"
    BY <1>1, <1>2, <1>4, <2>1 DEF Stage
  <2>4. QED
    BY <1>2, <2>2, <2>3 DEF Documents!Others
<1>5. CASE ~(linked /\ p = Upload)
  <2>1. UNCHANGED <<linked, Stage>>
    <3>1. linked' = linked
      BY <1>1, <1>3, <1>5
    <3>2. QED
      BY <1>2, <3>1 DEF Stage
  <2>2. QED
    BY <1>2, <2>1 DEF Documents!Others
<1>6. QED
  BY <1>4, <1>5

\* Wherever the methods agree on what a URI names, the handlers, their system
\* calls interleaved with whatever others do, keep the promise of DocumentStore:
\* an answer is true when it is given, and nothing else is changed.
THEOREM Implementation ==
    ASSUME NamesAgree
    PROVE  Spec => ImplementsStore
<1>1. Init => Documents!Init
  BY InitImplements
<1>2. Inv /\ [Next]_vars => [Documents!Next]_(Documents!vars)
  <2> SUFFICES ASSUME Inv, [Next]_vars
               PROVE  Documents!Next \/ UNCHANGED Documents!vars
    OBVIOUS
  <2>1. CASE ReceiveAny /\ UNCHANGED others
    BY <2>1, ReceiveImplements DEF Documents!Next
  <2>2. CASE Get /\ UNCHANGED others
    BY <2>2, GetImplements DEF Documents!Next
  <2>3. CASE DeleteFile /\ UNCHANGED others
    BY <2>3, DeleteImplements DEF Documents!Next
  <2>4. CASE Post /\ UNCHANGED others
    BY <2>4, PostImplements DEF Documents!Next
  <2>5. CASE Run /\ UNCHANGED others
    BY <2>5, RunImplements DEF Documents!Next
  <2>6. CASE OthersChange
    BY <2>6, OthersImplement DEF Documents!Next
  <2>7. CASE UNCHANGED vars
    BY <2>7 DEF vars, Documents!vars, Stage
  <2>8. QED
    BY <2>1, <2>2, <2>3, <2>4, <2>5, <2>6, <2>7 DEF Next, Serve, Get, DeleteFile, Post, Run
<1>3. QED
  BY <1>1, <1>2, Invariance, PTL DEF Spec, ImplementsStore, Documents!Spec
=============================================================================
