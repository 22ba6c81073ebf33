-------------------------- MODULE EventLoopProofs --------------------------
(***************************************************************************)
(* Theorems of EventLoop. First what the operations on _pollFds return,    *)
(* and the inductive invariant Inv, for any peers and scripts: the step    *)
(* that keeps the types and the places of the listening sockets; then who  *)
(* owns a descriptor, which changes in five ways only -- a client arrives, *)
(* a client goes, a handler opens its pipes, a handler closes some of      *)
(* them, the destructor drops all the clients -- and each is a lemma. Then *)
(* the first regime, where the invariant is Inv with Regular, and each     *)
(* handler of the loop is a lemma. Last, that the loop implements          *)
(* ConnectionService in that regime, handler by handler again.             *)
(***************************************************************************)
EXTENDS EventLoop, EventLoopService, SequenceLemmas, FiniteSetTheorems, WellFoundedInduction

\* The first entry with a descriptor exists as soon as one does.
LEMMA FirstExists ==
    ASSUME NEW p \in Seq(PollFd), NEW f, NEW k \in DOMAIN p, p[k].fd = f
    PROVE  \E j \in DOMAIN p : IsFirst(p, j, f)
<1> DEFINE T == {j \in DOMAIN p : p[j].fd = f}
<1>0. Len(p) \in Nat /\ DOMAIN p = 1..Len(p)
  BY LenProperties
<1>1. T \subseteq Nat /\ T # {}
  BY <1>0
<1>2. PICK j \in T : \A m \in T : ~(<<m, j>> \in OpToRel(<, Nat))
  BY <1>1, NatLessThanWellFounded, WFMin
<1>3. ASSUME NEW m \in 1..(j - 1)
      PROVE  p[m].fd # f
  <2>0. j \in 1..Len(p)
    BY <1>0
  <2>1. m \in DOMAIN p /\ m \in Nat /\ j \in Nat /\ m < j
    BY <2>0, <1>0
  <2>2. <<m, j>> \in OpToRel(<, Nat)
    BY <2>1 DEF OpToRel
  <2>3. QED
    BY <2>1, <2>2, <1>2
<1>4. QED
  BY <1>2, <1>3 DEF IsFirst

\* changeEvent rewrites the mask of one entry at most.
LEMMA ChangeEventProperties ==
    ASSUME NEW p \in Seq(PollFd), NEW f, NEW ev \in Mask
    PROVE  /\ ChangeEvent(p, f, ev) \in Seq(PollFd)
           /\ Len(ChangeEvent(p, f, ev)) = Len(p)
           /\ \A k \in 1..Len(p) : /\ ChangeEvent(p, f, ev)[k].fd = p[k].fd
                                   /\ ChangeEvent(p, f, ev)[k].revents = p[k].revents
                                   /\ p[k].fd # f => ChangeEvent(p, f, ev)[k] = p[k]
<1> DEFINE q == ChangeEvent(p, f, ev)
<1>1. Len(p) \in Nat /\ DOMAIN p = 1..Len(p) /\ \A k \in 1..Len(p) : p[k] \in PollFd
  BY LenProperties, ElementOfSeq
<1>2. \A k \in 1..Len(p) : /\ q[k] \in PollFd
                           /\ q[k].fd = p[k].fd /\ q[k].revents = p[k].revents
                           /\ p[k].fd # f => q[k] = p[k]
  BY <1>1 DEF ChangeEvent, PollFd, IsFirst
<1>3. q \in [1..Len(p) -> PollFd]
  BY <1>1, <1>2 DEF ChangeEvent
<1>4. q \in Seq(PollFd) /\ Len(q) = Len(p)
  BY <1>1, <1>3
<1>5. QED
  BY <1>2, <1>4

\* cleanupCGIWriteFd either erases nothing or the one entry it found.
LEMMA EraseFirstProperties ==
    ASSUME NEW p \in Seq(PollFd), NEW f
    PROVE  \/ EraseFirst(p, f) = p /\ \A k \in 1..Len(p) : p[k].fd # f
           \/ \E k \in 1..Len(p) : p[k].fd = f /\ EraseFirst(p, f) = RemoveAt(p, k)
<1>1. CASE \E k \in DOMAIN p : p[k].fd = f
  <2>1. \E k \in DOMAIN p : IsFirst(p, k, f)
    BY <1>1, FirstExists
  <2> DEFINE first == CHOOSE k \in DOMAIN p : IsFirst(p, k, f)
  <2>2. first \in DOMAIN p /\ IsFirst(p, first, f)
    BY <2>1
  <2>3. EraseFirst(p, f) = RemoveAt(p, first)
    BY <1>1 DEF EraseFirst
  <2>4. QED
    BY <2>2, <2>3, LenProperties DEF IsFirst
<1>2. CASE ~ \E k \in DOMAIN p : p[k].fd = f
  BY <1>2, LenProperties DEF EraseFirst
<1>3. QED
  BY <1>1, <1>2

-----------------------------------------------------------------------------
(* The listening sockets keep their places *)

\* Erasing an entry behind the listening sockets leaves them where they are.
LEMMA RemoveAtPrefix ==
    ASSUME NEW p \in Seq(PollFd), ListeningPrefix(p), NEW k \in 1..Len(p), ~IsServer(p[k].fd)
    PROVE  RemoveAt(p, k) \in Seq(PollFd) /\ ListeningPrefix(RemoveAt(p, k))
<1>1. Len(p) \in Nat /\ NServers \in Nat
  BY LenProperties, SizeAssumption
<1>2. k > NServers
  BY <1>1 DEF ListeningPrefix, IsServer
<1> DEFINE q == RemoveAt(p, k)
<1>3. /\ q \in Seq(PollFd) /\ Len(q) = Len(p) - 1
      /\ \A j \in 1..(Len(p) - 1) : q[j] = IF j < k THEN p[j] ELSE p[j + 1]
  BY RemoveAtProperties
<1> HIDE DEF q
<1>4. \A j \in 1..NServers : q[j] = p[j]
  BY <1>1, <1>2, <1>3
<1>5. ASSUME NEW j \in (NServers + 1)..(Len(p) - 1)
      PROVE  ~IsServer(q[j].fd)
  BY <1>1, <1>2, <1>3, <1>5 DEF ListeningPrefix
<1>6. ListeningPrefix(q)
  BY <1>1, <1>2, <1>3, <1>4, <1>5 DEF ListeningPrefix
<1>7. QED
  BY <1>3, <1>6 DEF q

\* So does erasing the entry of a descriptor that is not a listening one.
LEMMA EraseFirstPrefix ==
    ASSUME NEW p \in Seq(PollFd), ListeningPrefix(p), NEW f, ~IsServer(f)
    PROVE  EraseFirst(p, f) \in Seq(PollFd) /\ ListeningPrefix(EraseFirst(p, f))
BY EraseFirstProperties, RemoveAtPrefix

\* changeEvent on a client never touches the entry of a listening socket.
LEMMA ChangeEventPrefix ==
    ASSUME NEW p \in Seq(PollFd), ListeningPrefix(p), NEW f, ~IsServer(f), NEW ev \in Mask
    PROVE  ChangeEvent(p, f, ev) \in Seq(PollFd) /\ ListeningPrefix(ChangeEvent(p, f, ev))
<1>1. Len(p) \in Nat /\ NServers \in Nat
  BY LenProperties, SizeAssumption
<1>2. \A k \in 1..NServers : p[k].fd # f
  BY <1>1 DEF ListeningPrefix, IsServer
<1>3. QED
  BY <1>1, <1>2, ChangeEventProperties DEF ListeningPrefix

\* Entries pushed at the end leave the listening sockets first.
LEMMA ConcatPrefix ==
    ASSUME NEW p \in Seq(PollFd), ListeningPrefix(p), NEW q \in Seq(PollFd),
           \A k \in 1..Len(q) : ~IsServer(q[k].fd)
    PROVE  p \o q \in Seq(PollFd) /\ ListeningPrefix(p \o q)
<1>1. Len(p) \in Nat /\ Len(q) \in Nat /\ NServers \in Nat
  BY LenProperties, SizeAssumption
<1>2. /\ p \o q \in Seq(PollFd) /\ Len(p \o q) = Len(p) + Len(q)
      /\ \A k \in 1..(Len(p) + Len(q)) :
            (p \o q)[k] = IF k <= Len(p) THEN p[k] ELSE q[k - Len(p)]
  BY ConcatProperties
<1>3. ASSUME NEW k \in (NServers + 1)..(Len(p) + Len(q))
      PROVE  ~IsServer((p \o q)[k].fd)
  <2>1. CASE k <= Len(p)
    BY <1>1, <1>2, <2>1 DEF ListeningPrefix
  <2>2. CASE ~(k <= Len(p))
    <3>1. k - Len(p) \in 1..Len(q)
      BY <1>1, <2>2
    <3>2. QED
      BY <1>1, <1>2, <2>2, <3>1
  <2>3. QED
    BY <2>1, <2>2
<1>4. QED
  BY <1>1, <1>2, <1>3 DEF ListeningPrefix

\* Changing the mask of the visited entry, when that is not a listening socket.
LEMMA ExceptPrefix ==
    ASSUME NEW p \in Seq(PollFd), ListeningPrefix(p), NEW k \in 1..Len(p), ~IsServer(p[k].fd),
           NEW ev \in Mask
    PROVE  [p EXCEPT ![k].events = ev] \in Seq(PollFd) /\ ListeningPrefix([p EXCEPT ![k].events = ev])
<1> DEFINE e == [p[k] EXCEPT !.events = ev]
<1>1. Len(p) \in Nat /\ NServers \in Nat /\ p[k] \in PollFd
  BY LenProperties, ElementOfSeq, SizeAssumption
<1>2. e \in PollFd /\ e.fd = p[k].fd
  BY <1>1 DEF PollFd
<1>3. [p EXCEPT ![k].events = ev] = [p EXCEPT ![k] = e]
  OBVIOUS
<1>4. k > NServers
  BY <1>1 DEF ListeningPrefix, IsServer
<1> HIDE DEF e
<1>5. QED
  BY <1>1, <1>2, <1>3, <1>4, ExceptSeq DEF ListeningPrefix

-----------------------------------------------------------------------------
(* The inductive invariant *)

Inv ==
    /\ TypeOK
    /\ ListeningFirst
    /\ FdOwnership
    /\ ClientMapExact
    /\ OneChildPerHandler

\* An address holds an object of the right type, or the free record.
LEMMA LiveObjects ==
    ASSUME TypeOK
    PROVE  /\ \A a \in ClientAddr : LiveClient(a) => clients[a] \in Client
           /\ \A a \in ClientAddr : ~LiveClient(a) => clients[a] = NoClient
           /\ \A h \in CgiAddr : LiveCgi(h) => cgis[h] \in Cgi
           /\ \A h \in CgiAddr : ~LiveCgi(h) => cgis[h] = NoCgi
<1>1. ASSUME NEW a \in ClientAddr
      PROVE  /\ LiveClient(a) => clients[a] \in Client
             /\ ~LiveClient(a) => clients[a] = NoClient
  <2>1. clients[a] \in Client \/ clients[a] = NoClient
    BY DEF TypeOK
  <2>2. NoClient.fd = NoFd /\ \A c \in Client : c.fd # NoFd
    BY SizeAssumption DEF NoClient, Client, Fd, NoFd
  <2>3. QED
    BY <2>1, <2>2 DEF LiveClient
<1>2. ASSUME NEW h \in CgiAddr
      PROVE  /\ LiveCgi(h) => cgis[h] \in Cgi
             /\ ~LiveCgi(h) => cgis[h] = NoCgi
  <2>1. cgis[h] \in Cgi \/ cgis[h] = NoCgi
    BY DEF TypeOK
  <2>2. NoCgi.live = FALSE /\ \A c \in Cgi : c.live = TRUE
    BY DEF NoCgi, Cgi
  <2>3. QED
    BY <2>1, <2>2 DEF LiveCgi
<1>3. QED
  BY <1>1, <1>2

\* Only accepting, or nothing at all, happens at the entry of a listening socket.
LEMMA AtVisit ==
    ASSUME Inv, NEW branch, Visit(branch)
    PROVE  /\ i \in 1..Len(pollFds) /\ i \in Nat
           /\ pollFds[i] \in PollFd /\ fd \in Fd
           /\ branch \notin {"accept", "nothing"} => ~IsServer(fd)
<1>1. Len(pollFds) \in Nat /\ DOMAIN pollFds = 1..Len(pollFds)
  BY LenProperties DEF Inv, TypeOK
<1>2. i \in 1..Len(pollFds) /\ i \in Nat
  BY <1>1 DEF Visit
<1>3. pollFds[i] \in PollFd
  BY <1>2, ElementOfSeq DEF Inv, TypeOK
<1>4. fd \in Fd
  BY <1>3 DEF PollFd, fd
<1>5. ASSUME IsServer(fd)
      PROVE  Branch(pollFds[i]) \in {"accept", "nothing"}
  <2>1. i \in 1..NServers
    BY <1>1, <1>2, <1>5, SizeAssumption DEF Inv, ListeningFirst, ListeningPrefix, fd
  <2>2. "OUT" \notin pollFds[i].revents
    BY <2>1 DEF Inv, ListeningFirst, ListeningPrefix
  <2>3. cgiStartTime[fd] = "none"
    BY <1>5 DEF Inv, ListeningFirst, IsServer
  <2>4. QED
    BY <1>5, <2>2, <2>3
       DEF Branch, fd, IsCGITimeout, IsClientTimeout, IsError, IsWritable
<1>6. QED
  BY <1>2, <1>3, <1>4, <1>5 DEF Visit

-----------------------------------------------------------------------------
(* Type correctness *)

\* The constructor builds structures of the right type.
LEMMA InitType == Init => TypeOK
<1> SUFFICES ASSUME Init PROVE TypeOK
  OBVIOUS
<1>1. \A k \in 1..NServers : pollFds[k] \in PollFd
  BY SizeAssumption DEF Init, Entry, PollFd, Fd, Mask
<1>2. pollFds \in Seq(PollFd)
  BY <1>1, SizeAssumption DEF Init
<1>3. interrupted \in BOOLEAN
  BY DEF Init
<1>4. QED
  BY <1>2, <1>3, SizeAssumption DEF Init, TypeOK, Fd

\* What the parts of the handlers return.
LEMMA SetResponseType ==
    ASSUME TypeOK, NEW a, LiveClient(a), NEW c \in Conns,
           NEW code \in {"direct", "cgi", "500", "504"}
    PROVE  /\ SetResponse(a, c, code) \in [ClientAddr -> Client \cup {NoClient}]
           /\ \A b \in ClientAddr : SetResponse(a, c, code)[b].fd = clients[b].fd
<1>1. a \in ClientAddr /\ clients[a] \in Client
  BY LiveObjects DEF LiveClient
<1>2. [for |-> c, code |-> code] \in Response
  BY DEF Response
<1>3. [clients[a] EXCEPT !.resp = [for |-> c, code |-> code]] \in Client
  BY <1>1, <1>2 DEF Client
<1>4. QED
  BY <1>1, <1>3 DEF SetResponse, TypeOK, Client

\* writeBody leaves a handler: the rest of the body is not larger than the body,
\* and nothing is left to write if it had room, or the pipe is closed.
LEMMA WriteBodyType ==
    ASSUME NEW H \in Cgi, NEW reads \in BOOLEAN, NEW room \in 0..PipeCap
    PROVE  /\ WriteBody(H, reads, room) \in Cgi
           /\ WriteBody(H, reads, room).rfd = H.rfd
           /\ WriteBody(H, reads, room).wfd \in {H.wfd, NoFd}
           /\ WriteBody(H, reads, room).conn = H.conn
           /\ H.body - WriteBody(H, reads, room).body \in 0..room
           /\ H.body <= room /\ WriteBody(H, reads, room).wfd # NoFd =>
                 WriteBody(H, reads, room).body = 0 /\ WriteBody(H, reads, room).error = H.error
<1>1. PipeCap \in Nat /\ MaxBody \in Nat /\ H.body \in 0..MaxBody
  BY SizeAssumption DEF Cgi
<1> DEFINE left == H.body - Least(H.body, room)
<1>2. left \in 0..MaxBody /\ H.body - left \in 0..room /\ (H.body <= room => left = 0)
  BY <1>1 DEF Least
<1> HIDE DEF left
<1>3. CASE H.wfd = NoFd \/ H.body = 0
  <2>1. WriteBody(H, reads, room) = H
    BY <1>3 DEF WriteBody
  <2>2. H.body - H.body \in 0..room
    BY <1>1
  <2>3. QED
    BY <1>3, <2>1, <2>2
<1>4. CASE ~(H.wfd = NoFd \/ H.body = 0) /\ (~reads \/ room = 0)
  <2>1. WriteBody(H, reads, room) = [H EXCEPT !.error = TRUE, !.wfd = NoFd]
    BY <1>4 DEF WriteBody
  <2>2. [H EXCEPT !.error = TRUE, !.wfd = NoFd] \in Cgi
    BY DEF Cgi
  <2>3. H.body - H.body \in 0..room
    BY <1>1
  <2>4. QED
    BY <2>1, <2>2, <2>3 DEF Cgi
<1>5. CASE ~(H.wfd = NoFd \/ H.body = 0) /\ ~(~reads \/ room = 0)
  <2>1. WriteBody(H, reads, room) =
          [H EXCEPT !.body = left, !.wfd = IF left = 0 THEN NoFd ELSE H.wfd]
    BY <1>5 DEF WriteBody, left
  <2>2. QED
    BY <1>2, <2>1 DEF Cgi
<1>6. QED
  BY <1>3, <1>4, <1>5

\* readOutput leaves a handler, done or not, failed or not.
LEMMA ReadOutputType ==
    ASSUME TypeOK, NEW h, LiveCgi(h)
    PROVE  /\ ReadOutput(h) \in Cgi
           /\ ReadOutput(h).rfd \in {cgis[h].rfd, NoFd}
           /\ ReadOutput(h).wfd = cgis[h].wfd
<1>1. h \in CgiAddr /\ cgis[h] \in Cgi
  BY LiveObjects DEF LiveCgi
<1>2. (child[h].st = "exited" /\ ~child[h].ok) \in BOOLEAN
  OBVIOUS
<1>3. QED
  BY <1>1, <1>2 DEF ReadOutput, Cgi

\* map.erase keeps the type of a map.
LEMMA ForgetType ==
    ASSUME NEW S, NEW map \in [Fd -> S \cup {NULL}], NEW F
    PROVE  Forget(map, F) \in [Fd -> S \cup {NULL}]
BY DEF Forget

\* Deleting a handler frees its address and closes descriptors only.
LEMMA DeleteType ==
    ASSUME TypeOK, NEW h \in CgiAddr, Delete(h)
    PROVE  /\ cgis' \in [CgiAddr -> Cgi \cup {NoCgi}]
           /\ child' \in [CgiAddr -> Child \cup {NoChild}]
           /\ openFds' \subseteq Fd
BY DEF TypeOK, Delete

\* The same when the wait was cut short: the process stays.
LEMMA AbandonType ==
    ASSUME TypeOK, NEW h \in CgiAddr, Abandon(h)
    PROVE  /\ cgis' \in [CgiAddr -> Cgi \cup {NoCgi}]
           /\ child' \in [CgiAddr -> Child \cup {NoChild}]
           /\ openFds' \subseteq Fd
<1>1. 0 \in 0..PipeCap
  BY SizeAssumption
<1>2. Unreaped \in Child
  BY <1>1 DEF Unreaped, NoChild, Child
<1>3. QED
  BY <1>2 DEF TypeOK, Abandon

\* handleClientDisconnected, called on an entry that is not a listening socket.
LEMMA DisconnectType ==
    ASSUME Inv, NEW branch, Visit(branch), ~IsServer(fd), Disconnect, wire' \in [Conns -> SUBSET Response]
    PROVE  TypeOK' /\ ListeningFirst'
<1>1. i \in 1..Len(pollFds) /\ i \in Nat /\ fd \in Fd
  BY AtVisit
<1>2. pollFds' \in Seq(PollFd) /\ ListeningPrefix(pollFds')
  BY <1>1, RemoveAtPrefix DEF Disconnect, Inv, ListeningFirst, TypeOK, fd
<1>3. i' \in Nat
  BY <1>1 DEF Disconnect, AfterErase
<1>4. clientMap' \in [Fd -> ClientAddr \cup {NULL}]
  BY <1>1 DEF Disconnect, ForgetClient, Inv, TypeOK
<1>5. clients' \in [ClientAddr -> Client \cup {NoClient}]
  <2>1. CASE clientMap[fd] = NULL
    BY <2>1 DEF Disconnect, Inv, TypeOK
  <2>2. CASE clientMap[fd] # NULL
    BY <2>2, <1>1 DEF Disconnect, Inv, TypeOK
  <2>3. QED
    BY <2>1, <2>2
<1>6. openFds' \subseteq Fd
  BY DEF Disconnect, Inv, TypeOK
<1>7. UNCHANGED <<maps, cgis, child, nextConn, ctl>>
  BY DEF Disconnect
<1>8. QED
  BY <1>2, <1>3, <1>4, <1>5, <1>6, <1>7 DEF Inv, TypeOK, ListeningFirst, maps, ctl

\* registerCGI adds entries behind the others, for descriptors that were free.
LEMMA RegisterType ==
    ASSUME Inv, Visit("clientRead"), NEW a \in ClientAddr, LiveClient(a), NEW h \in CgiAddr, NEW H \in Cgi,
           H.rfd \in Free, H.wfd \in Free \cup {NoFd}, Register(a, h, H),
           child' \in [CgiAddr -> Child \cup {NoChild}]
    PROVE  TypeOK' /\ ListeningFirst'
<1>1. i \in 1..Len(pollFds) /\ i \in Nat /\ fd \in Fd /\ ~IsServer(fd)
  BY AtVisit
<1>2. /\ H.rfd \in Fd /\ ~IsServer(H.rfd)
      /\ H.wfd # NoFd => H.wfd \in Fd /\ ~IsServer(H.wfd)
  BY DEF Inv, FdOwnership, Free
<1> DEFINE q == IF H.wfd = NoFd THEN <<Entry(H.rfd, "IN")>>
                ELSE <<Entry(H.rfd, "IN"), Entry(H.wfd, "OUT")>>
<1>3. q \in Seq(PollFd) /\ \A k \in 1..Len(q) : ~IsServer(q[k].fd)
  <2>1. Entry(H.rfd, "IN") \in PollFd /\ Entry(H.rfd, "IN").fd = H.rfd
    BY <1>2 DEF Entry, PollFd, Mask
  <2>2. H.wfd # NoFd => Entry(H.wfd, "OUT") \in PollFd /\ Entry(H.wfd, "OUT").fd = H.wfd
    BY <1>2 DEF Entry, PollFd, Mask
  <2>3. QED
    BY <1>2, <2>1, <2>2
<1>4. Paused \in Seq(PollFd) /\ ListeningPrefix(Paused)
  BY <1>1, ExceptPrefix DEF Inv, TypeOK, ListeningFirst, fd, Paused, Mask
<1>5. pollFds' = Paused \o q
  BY DEF Register
<1> HIDE DEF q
<1>6. pollFds' \in Seq(PollFd) /\ ListeningPrefix(pollFds')
  BY <1>3, <1>4, <1>5, ConcatPrefix
<1>7. clients' \in [ClientAddr -> Client \cup {NoClient}]
  <2>1. [clients[a] EXCEPT !.late = FALSE] \in Client
    BY LiveObjects DEF Client, Inv
  <2>2. QED
    BY <2>1 DEF Register, Inv, TypeOK
<1>8. /\ cgiFdToHandler' \in [Fd -> CgiAddr \cup {NULL}]
      /\ cgiFdToClient' \in [Fd -> ClientAddr \cup {NULL}]
      /\ cgiStartTime' \in [Fd -> {"none", "fresh", "late"}]
  BY <1>2 DEF Register, Inv, TypeOK
<1>9. \A f \in 1..NServers : cgiFdToHandler'[f] = NULL /\ cgiStartTime'[f] = "none"
  <2>1. \A f \in 1..NServers : f \in Fd /\ f # H.rfd /\ f # H.wfd
    BY <1>2, SizeAssumption DEF IsServer, Fd, NoFd
  <2>2. QED
    BY <1>2, <2>1 DEF Register, Inv, TypeOK, ListeningFirst
<1>10. cgis' \in [CgiAddr -> Cgi \cup {NoCgi}] /\ openFds' \subseteq Fd
  BY <1>2 DEF Register, Inv, TypeOK
<1>11. i' \in Nat /\ UNCHANGED <<clientMap, net, ctl>>
  BY <1>1 DEF Register
<1>12. QED
  BY <1>6, <1>7, <1>8, <1>9, <1>10, <1>11 DEF Inv, TypeOK, ListeningFirst, net, ctl

\* The common end of handleCGITimeout and handleCGIRead erases two entries, none
\* of them a listening socket's.
LEMMA ConcludeType ==
    ASSUME Inv, NEW branch \in {"cgiTimeout", "cgiRead"}, Visit(branch),
           NEW h, LiveCgi(h), NEW c, LiveClient(c),
           NEW code \in {"direct", "cgi", "500", "504"}, Conclude(h, c, code),
           cgis' \in [CgiAddr -> Cgi \cup {NoCgi}],
           child' \in [CgiAddr -> Child \cup {NoChild}],
           openFds' \subseteq Fd, waiting' \in CgiAddr \cup {NULL}
    PROVE  TypeOK' /\ ListeningFirst'
<1>1. i \in 1..Len(pollFds) /\ i \in Nat /\ fd \in Fd /\ ~IsServer(fd)
  BY AtVisit
<1>2. h \in CgiAddr /\ cgis[h] \in Cgi /\ c \in ClientAddr /\ clients[c] \in Client
  BY LiveObjects DEF Inv, LiveCgi, LiveClient
<1>3. ~IsServer(clients[c].fd) /\ ~IsServer(cgis[h].wfd)
  BY <1>2, SizeAssumption DEF Inv, FdOwnership, Ends, IsServer, NoFd
<1> DEFINE p == ChangeEvent(pollFds, clients[c].fd, "OUT")
           q == EraseFirst(p, cgis[h].wfd)
<1>4. p \in Seq(PollFd) /\ ListeningPrefix(p)
  BY <1>3, ChangeEventPrefix DEF Inv, TypeOK, ListeningFirst, Mask
<1>5. q \in Seq(PollFd) /\ ListeningPrefix(q)
  BY <1>3, <1>4, EraseFirstPrefix
<1>6. i \in DOMAIN q /\ pollFds' = RemoveAt(q, i)
  BY DEF Conclude, CanConclude, Remaining
<1>7. i > NServers
  BY <1>1, SizeAssumption DEF Inv, ListeningFirst, ListeningPrefix, IsServer, fd
<1> HIDE DEF p, q
<1>8. i \in 1..Len(q) /\ ~IsServer(q[i].fd)
  BY <1>5, <1>6, <1>7, LenProperties, SizeAssumption DEF ListeningPrefix
<1>9. pollFds' \in Seq(PollFd) /\ ListeningPrefix(pollFds')
  BY <1>5, <1>6, <1>8, RemoveAtPrefix
<1>10. clients' \in [ClientAddr -> Client \cup {NoClient}]
  <2>1. cgis[h].conn \in Conns
    BY <1>2 DEF Cgi
  <2>2. QED
    BY <2>1, SetResponseType DEF Conclude, Inv
<1>11. /\ cgiFdToHandler' \in [Fd -> CgiAddr \cup {NULL}]
       /\ cgiFdToClient' \in [Fd -> ClientAddr \cup {NULL}]
       /\ cgiStartTime' \in [Fd -> {"none", "fresh", "late"}]
  BY ForgetType DEF Conclude, Inv, TypeOK
<1>12. \A f \in 1..NServers : cgiFdToHandler'[f] = NULL /\ cgiStartTime'[f] = "none"
  BY SizeAssumption DEF Conclude, Forget, Inv, TypeOK, ListeningFirst, Fd
<1>13. i' \in Nat /\ UNCHANGED <<clientMap, net, proc, interrupted>>
  BY <1>1 DEF Conclude, AfterErase
<1>14. QED
  BY <1>9, <1>10, <1>11, <1>12, <1>13 DEF Inv, TypeOK, ListeningFirst, net

\* pipe() returns descriptors of the table that were not open.
LEMMA PipesType ==
    ASSUME NEW F, NEW out \in Pipes(F)
    PROVE  out[1] \in F /\ out[2] \in F /\ out[1] # out[2]
BY DEF Pipes, Lowest

\* A script that cannot start leaves the descriptor table as it was.
LEMMA FailedStart == StartFails => ReadAnswered
<1>1. ASSUME NEW held \in Opened PROVE held \subseteq Free
  <2>1. CASE held = {}
    BY <2>1
  <2>2. CASE \E out \in Pipes(Free) : held = {out[1], out[2]}
    BY <2>2, PipesType
  <2>3. ASSUME NEW out \in Pipes(Free), NEW in \in Pipes(Free \ {out[1], out[2]}),
               held = {out[1], out[2], in[1], in[2]}
        PROVE  held \subseteq Free
    <3>1. out[1] \in Free /\ out[2] \in Free
      BY PipesType
    <3>2. in[1] \in Free \ {out[1], out[2]} /\ in[2] \in Free \ {out[1], out[2]}
      BY PipesType
    <3>3. QED
      BY <2>3, <3>1, <3>2
  <2>4. QED
    BY <2>1, <2>2, <2>3 DEF Opened
<1>2. \A held \in Opened : closeAllPipes(held) = openFds
  BY <1>1 DEF closeAllPipes, Free
<1> QED
  BY <1>2 DEF StartFails, ReadAnswered

\* The client whose request is read, whose response is written, is live.
LEMMA ClientOfVisit ==
    ASSUME Inv, NEW branch, Visit(branch), clientMap[fd] # NULL
    PROVE  /\ clientMap[fd] \in ClientAddr /\ LiveClient(clientMap[fd])
           /\ clients[clientMap[fd]] \in Client /\ clients[clientMap[fd]].fd = fd
<1>1. fd \in Fd /\ fd # NoFd
  BY AtVisit, SizeAssumption DEF Fd, NoFd
<1>2. clientMap[fd] \in ClientAddr
  BY <1>1 DEF Inv, TypeOK
<1>3. clients[clientMap[fd]].fd = fd
  BY <1>1, <1>2 DEF Inv, ClientMapExact
<1>4. LiveClient(clientMap[fd])
  BY <1>1, <1>2, <1>3 DEF LiveClient
<1>5. QED
  BY <1>2, <1>3, <1>4, LiveObjects DEF Inv

\* start() succeeds: a new handler, on descriptors that were free, with a running
\* script.
Started ==
    \E h \in CgiAddr, H \in Cgi, ch \in Child :
       /\ ~LiveCgi(h)
       /\ H.rfd \in Free /\ H.wfd \in Free \cup {NoFd} /\ H.rfd # H.wfd
       /\ H.conn = clients[clientMap[fd]].conn
       /\ MaxBody <= PipeCap /\ H.wfd # NoFd => H.body = 0 /\ ~H.error
       /\ Register(clientMap[fd], h, H)
       /\ child' = [child EXCEPT ![h] = ch]

\* CGIHandler::start and registerCGI: one handler more, whose pipes are watched.
LEMMA StartEffect ==
    ASSUME Inv, StartCGIGet \/ StartCGIPost
    PROVE  /\ Visit("clientRead") /\ clientMap[fd] \in ClientAddr /\ LiveClient(clientMap[fd])
           /\ Started
<1> DEFINE a == clientMap[fd]
<1>0. Visit("clientRead") /\ a # NULL
  BY DEF StartCGIGet, StartCGIPost
<1>1. a \in ClientAddr /\ LiveClient(a) /\ clients[a].conn \in Conns
  BY <1>0, ClientOfVisit DEF Client
<1>2. CASE StartCGIGet
  <2>1. PICK h \in {g \in CgiAddr : ~LiveCgi(g)}, out \in Pipes(Free) :
          /\ Register(a, h, [NoCgi EXCEPT !.live = TRUE, !.rfd = out[1],
                                          !.conn = clients[a].conn])
          /\ child' = [child EXCEPT ![h] = [NoChild EXCEPT !.st = "running", !.stdout = TRUE]]
    BY <1>2 DEF StartCGIGet
  <2> DEFINE H == [NoCgi EXCEPT !.live = TRUE, !.rfd = out[1], !.conn = clients[a].conn]
  <2>2. out[1] \in Free /\ out[1] \in Fd /\ out[1] # NoFd
    BY PipesType DEF Free, Fd, NoFd
  <2>0. 0 \in 0..MaxBody /\ 0 \in 0..PipeCap
    BY SizeAssumption
  <2>3. H \in Cgi /\ H.rfd = out[1] /\ H.wfd = NoFd /\ H.rfd # H.wfd /\ H.conn = clients[a].conn
    BY <1>1, <2>2, <2>0 DEF NoCgi, Cgi
  <2>4. [NoChild EXCEPT !.st = "running", !.stdout = TRUE] \in Child
    BY <2>0 DEF NoChild, Child
  <2> HIDE DEF H
  <2>5. Register(a, h, H)
    BY <2>1 DEF H
  <2>6. QED
    BY <1>0, <1>1, <2>1, <2>2, <2>3, <2>4, <2>5 DEF Started
<1>3. CASE StartCGIPost
  <2>0. PICK h \in {g \in CgiAddr : ~LiveCgi(g)}, body \in 0..MaxBody,
                 reads \in BOOLEAN, out \in Pipes(Free) :
          \E in \in Pipes(Free \ {out[1], out[2]}) :
             LET H == WriteBody([live |-> TRUE, rfd |-> out[1], wfd |-> in[2], body |-> body,
                                 done |-> FALSE, error |-> FALSE, conn |-> clients[a].conn],
                                reads, PipeCap)
             IN  /\ Register(a, h, H)
                 /\ child' = [child EXCEPT ![h] =
                                [NoChild EXCEPT !.st = "running", !.stdin = reads,
                                                !.stdout = TRUE, !.fill = body - H.body]]
    BY <1>3 DEF StartCGIPost
  <2>1. PICK in \in Pipes(Free \ {out[1], out[2]}) :
          LET H == WriteBody([live |-> TRUE, rfd |-> out[1], wfd |-> in[2], body |-> body,
                              done |-> FALSE, error |-> FALSE, conn |-> clients[a].conn],
                             reads, PipeCap)
          IN  /\ Register(a, h, H)
              /\ child' = [child EXCEPT ![h] =
                             [NoChild EXCEPT !.st = "running", !.stdin = reads,
                                             !.stdout = TRUE, !.fill = body - H.body]]
    BY <2>0
  <2> DEFINE new == [live |-> TRUE, rfd |-> out[1], wfd |-> in[2], body |-> body,
                     done |-> FALSE, error |-> FALSE, conn |-> clients[a].conn]
             H == WriteBody(new, reads, PipeCap)
  <2>2. /\ out[1] \in Free /\ out[1] \in Fd
        /\ in[2] \in Free /\ in[2] \in Fd /\ in[2] # out[1] /\ out[1] # NoFd
    BY PipesType DEF Free, Fd, NoFd
  <2>3. /\ new \in Cgi /\ new.rfd = out[1] /\ new.wfd = in[2] /\ new.body = body
        /\ new.conn = clients[a].conn /\ ~new.error
    BY <1>1, <2>2 DEF Cgi
  <2>4. PipeCap \in 0..PipeCap
    BY SizeAssumption
  <2> HIDE DEF new
  <2>5. /\ H \in Cgi /\ H.rfd = out[1] /\ H.wfd \in {in[2], NoFd}
        /\ H.conn = clients[a].conn /\ body - H.body \in 0..PipeCap
        /\ MaxBody <= PipeCap /\ H.wfd # NoFd => H.body = 0 /\ ~H.error
    <3>1. MaxBody <= PipeCap => body <= PipeCap
      BY SizeAssumption
    <3>2. QED
      BY <2>3, <2>4, <3>1, WriteBodyType
  <2> HIDE DEF H
  <2>6. /\ Register(a, h, H)
        /\ child' = [child EXCEPT ![h] =
                       [NoChild EXCEPT !.st = "running", !.stdin = reads,
                                       !.stdout = TRUE, !.fill = body - H.body]]
    BY <2>1 DEF H, new
  <2>7. [NoChild EXCEPT !.st = "running", !.stdin = reads, !.stdout = TRUE,
                        !.fill = body - H.body] \in Child
    BY <2>5 DEF NoChild, Child
  <2>8. QED
    BY <1>0, <1>1, <2>2, <2>5, <2>6, <2>7 DEF Started
<1>4. QED
  BY <1>2, <1>3

\* Starting a script keeps the invariant, for a GET or a POST.
LEMMA StartType ==
    ASSUME Inv, StartCGIGet \/ StartCGIPost
    PROVE  TypeOK' /\ ListeningFirst'
<1> DEFINE a == clientMap[fd]
<1>1. Visit("clientRead") /\ a \in ClientAddr /\ LiveClient(a)
  BY StartEffect
<1>2. PICK h \in CgiAddr, H \in Cgi, ch \in Child :
        /\ H.rfd \in Free /\ H.wfd \in Free \cup {NoFd}
        /\ Register(a, h, H)
        /\ child' = [child EXCEPT ![h] = ch]
  BY StartEffect DEF Started
<1> HIDE DEF a
<1>3. child' \in [CgiAddr -> Child \cup {NoChild}]
  BY <1>2 DEF Inv, TypeOK
<1>4. QED
  BY <1>1, <1>2, <1>3, RegisterType

\* poll() fills in the revents of every entry; a descriptor watched for input
\* is never reported writable.
LEMMA PollType ==
    ASSUME Inv, Poll
    PROVE  TypeOK' /\ ListeningFirst'
<1>1. PICK ready \in SUBSET {f \in openFds : IsServer(f) \/ clientMap[f] # NULL},
           reset \in SUBSET {f \in openFds : clientMap[f] # NULL /\ MayDrop(clientMap[f])} :
        pollFds' = [k \in DOMAIN pollFds |->
                      [pollFds[k] EXCEPT !.revents = Revents(pollFds[k], ready, reset)]]
  BY DEF Poll
<1>2. Len(pollFds) \in Nat /\ DOMAIN pollFds = 1..Len(pollFds) /\ NServers \in Nat
  BY LenProperties, SizeAssumption DEF Inv, TypeOK
<1>3. \A k \in 1..Len(pollFds) : pollFds[k] \in PollFd
  BY ElementOfSeq DEF Inv, TypeOK
<1>4. ASSUME NEW k \in 1..Len(pollFds)
      PROVE  /\ pollFds'[k] \in PollFd
             /\ pollFds'[k].fd = pollFds[k].fd
             /\ pollFds'[k].events = pollFds[k].events
             /\ pollFds[k].events = "IN" => "OUT" \notin pollFds'[k].revents
  <2> DEFINE r == Revents(pollFds[k], ready, reset)
  <2>1. r \subseteq Event /\ (pollFds[k].events = "IN" => "OUT" \notin r)
    BY DEF Revents, Condition, Event
  <2>2. pollFds'[k] = [pollFds[k] EXCEPT !.revents = r]
    BY <1>1, <1>2
  <2> HIDE DEF r
  <2>3. QED
    BY <1>3, <2>1, <2>2 DEF PollFd
<1>5. pollFds' \in [1..Len(pollFds) -> PollFd]
  <2>1. DOMAIN pollFds' = 1..Len(pollFds)
    BY <1>1, <1>2
  <2>2. pollFds' = [k \in 1..Len(pollFds) |-> pollFds'[k]]
    BY <1>1, <1>2
  <2>3. QED
    BY <1>4, <2>1, <2>2
<1>6. pollFds' \in Seq(PollFd) /\ Len(pollFds') = Len(pollFds)
  BY <1>2, <1>5
<1>7. ListeningPrefix(pollFds')
  BY <1>2, <1>4, <1>6 DEF Inv, ListeningFirst, ListeningPrefix
<1>8. QED
  BY <1>6, <1>7 DEF Inv, TypeOK, ListeningFirst, Poll, maps, heap, net, ctl

\* handleNewClient pushes the new socket behind all others.
LEMMA NewClientType ==
    ASSUME Inv, NewClient
    PROVE  TypeOK' /\ ListeningFirst'
<1>1. PICK f \in Lowest(Free), a \in {b \in ClientAddr : ~LiveClient(b)} :
        /\ openFds' = openFds \cup {f}
        /\ pollFds' = Append(pollFds, Entry(f, "IN"))
        /\ clientMap' = [clientMap EXCEPT ![f] = a]
        /\ clients' = [clients EXCEPT ![a] =
                         [fd |-> f, conn |-> nextConn, resp |-> NoResp, late |-> FALSE]]
  BY DEF NewClient
<1>2. f \in Fd /\ ~IsServer(f)
  BY DEF Lowest, Free, Inv, FdOwnership
<1>3. Entry(f, "IN") \in PollFd /\ Entry(f, "IN").fd = f
  BY <1>2 DEF Entry, PollFd, Mask
<1>4. nextConn \in Conns /\ nextConn' \in 1..(MaxConns + 1)
  BY SizeAssumption DEF NewClient, Inv, TypeOK, Conns
<1>5. pollFds' \in Seq(PollFd) /\ ListeningPrefix(pollFds')
  <2>1. pollFds' = pollFds \o <<Entry(f, "IN")>>
    BY <1>1, <1>3, AppendIsConcat DEF Inv, TypeOK
  <2>2. <<Entry(f, "IN")>> \in Seq(PollFd) /\ \A k \in 1..Len(<<Entry(f, "IN")>>) :
           ~IsServer(<<Entry(f, "IN")>>[k].fd)
    BY <1>2, <1>3
  <2>3. QED
    BY <2>1, <2>2, ConcatPrefix DEF Inv, TypeOK, ListeningFirst
<1>6. clients' \in [ClientAddr -> Client \cup {NoClient}]
  <2>1. [fd |-> f, conn |-> nextConn, resp |-> NoResp, late |-> FALSE] \in Client
    BY <1>2, <1>4 DEF Client
  <2>2. QED
    BY <1>1, <2>1 DEF Inv, TypeOK
<1>7. clientMap' \in [Fd -> ClientAddr \cup {NULL}] /\ openFds' \subseteq Fd
  BY <1>1, <1>2 DEF Inv, TypeOK
<1>8. i' \in Nat /\ UNCHANGED <<maps, cgis, child, wire, ctl>>
  BY DEF NewClient, Inv, TypeOK
<1>9. QED
  BY <1>4, <1>5, <1>6, <1>7, <1>8 DEF Inv, TypeOK, ListeningFirst, maps, ctl

\* The three actions that close a connection by handleClientDisconnected alone,
\* and the two that write its response.
LEMMA ClientEndType ==
    ASSUME Inv, \/ ClientTimeout \/ ClientError \/ ClientGone
                \/ ClientWriteFails \/ ClientWriteRest
    PROVE  TypeOK' /\ ListeningFirst'
<1>1. PICK branch \in {"clientTimeout", "error", "clientRead", "clientWrite"} :
        Visit(branch) /\ Disconnect
  BY DEF ClientTimeout, ClientError, ClientGone, ClientWriteFails, ClientWriteRest
<1>2. ~IsServer(fd)
  BY <1>1, AtVisit
<1>3. wire' \in [Conns -> SUBSET Response]
  <2>1. CASE ClientTimeout \/ ClientError \/ ClientGone \/ ClientWriteFails
    BY <2>1 DEF ClientTimeout, ClientError, ClientGone, ClientWriteFails, Inv, TypeOK
  <2>2. CASE ClientWriteRest
    <3>1. clients[clientMap[fd]] \in Client
      BY <2>2, ClientOfVisit DEF ClientWriteRest
    <3>2. QED
      BY <2>2, <3>1 DEF ClientWriteRest, Sent, Client, Inv, TypeOK
  <2>3. QED
    BY <2>1, <2>2
<1>4. QED
  BY <1>1, <1>2, <1>3, DisconnectType

\* A request answered while it is read.
LEMMA AnsweredType ==
    ASSUME Inv, ReadAnswered
    PROVE  TypeOK' /\ ListeningFirst'
<1>1. i \in 1..Len(pollFds) /\ i \in Nat /\ ~IsServer(fd)
  BY AtVisit DEF ReadAnswered, Respond
<1>2. LiveClient(clientMap[fd]) /\ clients[clientMap[fd]].conn \in Conns
  BY ClientOfVisit DEF ReadAnswered, Respond, Client
<1>3. clients' \in [ClientAddr -> Client \cup {NoClient}]
  BY <1>2, SetResponseType DEF ReadAnswered, Respond, Inv
<1>4. pollFds' \in Seq(PollFd) /\ ListeningPrefix(pollFds')
  BY <1>1, ExceptPrefix DEF ReadAnswered, Respond, Inv, TypeOK, ListeningFirst, Mask, fd
<1>5. QED
  BY <1>1, <1>3, <1>4 DEF ReadAnswered, Respond, Inv, TypeOK, ListeningFirst, maps, net, ctl

\* handleCGITimeout ends the script of the visited pipe.
LEMMA TimeoutType ==
    ASSUME Inv, CGITimeout
    PROVE  TypeOK' /\ ListeningFirst'
<1> DEFINE h == cgiFdToHandler[fd]
           c == cgiFdToClient[fd]
<1>1. /\ Visit("cgiTimeout") /\ LiveCgi(h) /\ LiveClient(c)
      /\ Conclude(h, c, "504") /\ Delete(h) /\ UNCHANGED waiting
  BY DEF CGITimeout
<1> HIDE DEF h, c
<1>2. /\ cgis' \in [CgiAddr -> Cgi \cup {NoCgi}]
      /\ child' \in [CgiAddr -> Child \cup {NoChild}]
      /\ openFds' \subseteq Fd
  BY <1>1, DeleteType DEF Inv, LiveCgi
<1>3. waiting' \in CgiAddr \cup {NULL}
  BY <1>1 DEF Inv, TypeOK
<1>4. QED
  BY <1>1, <1>2, <1>3, ConcludeType

\* handleCGIRead, when it ends the script.
LEMMA ReadEndType ==
    ASSUME Inv, CGIReadEnd
    PROVE  TypeOK' /\ ListeningFirst'
<1> DEFINE h == cgiFdToHandler[fd]
           c == cgiFdToClient[fd]
           H == ReadOutput(h)
           code == IF H.error THEN "500" ELSE "cgi"
<1>1. /\ Visit("cgiRead") /\ LiveCgi(h) /\ LiveClient(c) /\ Conclude(h, c, code)
      /\ IF child[h].st = "running" \/ fd = cgis[h].wfd
         THEN /\ waiting' = IF fd = cgis[h].wfd THEN waiting ELSE h
              /\ cgis' = [cgis EXCEPT ![h] = H]
              /\ openFds' = openFds \ ({cgis[h].rfd} \ {H.rfd})
              /\ UNCHANGED child
         ELSE Delete(h) /\ UNCHANGED waiting
  BY DEF CGIReadEnd
<1>2. H \in Cgi /\ h \in CgiAddr
  BY <1>1, ReadOutputType DEF Inv, LiveCgi
<1>3. code \in {"direct", "cgi", "500", "504"}
  OBVIOUS
<1> HIDE DEF h, c, H, code
<1>4. /\ cgis' \in [CgiAddr -> Cgi \cup {NoCgi}]
      /\ child' \in [CgiAddr -> Child \cup {NoChild}]
      /\ openFds' \subseteq Fd
      /\ waiting' \in CgiAddr \cup {NULL}
  <2>1. CASE child[h].st = "running" \/ fd = cgis[h].wfd
    BY <1>1, <1>2, <2>1 DEF Inv, TypeOK
  <2>2. CASE ~(child[h].st = "running" \/ fd = cgis[h].wfd)
    BY <1>1, <1>2, <2>2, DeleteType DEF Inv, TypeOK
  <2>3. QED
    BY <2>1, <2>2
<1>5. QED
  BY <1>1, <1>3, <1>4, ConcludeType

\* handleCGIWrite with nothing left to write.
LEMMA WriteDoneType ==
    ASSUME Inv, CGIWriteDone
    PROVE  TypeOK' /\ ListeningFirst'
<1>1. i \in 1..Len(pollFds) /\ i \in Nat /\ fd \in Fd /\ ~IsServer(fd)
  BY AtVisit DEF CGIWriteDone
<1>2. pollFds' \in Seq(PollFd) /\ ListeningPrefix(pollFds')
  BY <1>1, RemoveAtPrefix DEF CGIWriteDone, Inv, TypeOK, ListeningFirst, fd
<1>3. i' \in Nat
  BY <1>1 DEF CGIWriteDone, AfterErase
<1>4. clients' \in [ClientAddr -> Client \cup {NoClient}]
  <2> DEFINE h == cgiFdToHandler[fd]
             c == cgiFdToClient[fd]
  <2>1. LiveCgi(h) /\ IF cgis[h].error
                      THEN LiveClient(c) /\ clients' = SetResponse(c, cgis[h].conn, "500")
                      ELSE UNCHANGED clients
    BY DEF CGIWriteDone
  <2>2. cgis[h].conn \in Conns
    BY <2>1, LiveObjects DEF Inv, LiveCgi, Cgi
  <2> HIDE DEF h, c
  <2>3. QED
    BY <2>1, <2>2, SetResponseType DEF Inv, TypeOK
<1>5. /\ cgiFdToHandler' \in [Fd -> CgiAddr \cup {NULL}]
      /\ cgiFdToClient' \in [Fd -> ClientAddr \cup {NULL}]
  BY ForgetType DEF CGIWriteDone, Inv, TypeOK
<1>6. \A f \in 1..NServers : cgiFdToHandler'[f] = NULL
  BY SizeAssumption DEF CGIWriteDone, Forget, Inv, ListeningFirst, Fd
<1>7. UNCHANGED <<clientMap, cgiStartTime, cgis, child, openFds, net, ctl>>
  BY DEF CGIWriteDone
<1>8. QED
  BY <1>2, <1>3, <1>4, <1>5, <1>6, <1>7 DEF Inv, TypeOK, ListeningFirst, net, ctl

\* What writeBody takes from the body fits in the script's pipe.
LEMMA CGIWriteBodyEffect ==
    ASSUME Inv, CGIWriteBody
    PROVE  LET h == cgiFdToHandler[fd]
               H == WriteBody(cgis[h], child[h].stdin, PipeCap - child[h].fill)
           IN  /\ h \in CgiAddr /\ cgis[h] \in Cgi /\ child[h] \in Child
               /\ H \in Cgi /\ H.rfd = cgis[h].rfd /\ H.wfd \in {cgis[h].wfd, NoFd}
               /\ child[h].fill + (cgis[h].body - H.body) \in 0..PipeCap
<1> DEFINE h == cgiFdToHandler[fd]
           H == WriteBody(cgis[h], child[h].stdin, PipeCap - child[h].fill)
<1>1. h \in CgiAddr /\ cgis[h] \in Cgi /\ cgis[h].live
  BY LiveObjects DEF CGIWriteBody, Inv, LiveCgi
<1>2. child[h] \in Child
  BY <1>1 DEF Inv, TypeOK, OneChildPerHandler, NoChild
<1>3. child[h].fill \in 0..PipeCap /\ child[h].stdin \in BOOLEAN /\ PipeCap \in Nat
  BY <1>2, SizeAssumption DEF Child
<1>4. PipeCap - child[h].fill \in 0..PipeCap
  BY <1>3
<1>5. /\ H \in Cgi /\ H.rfd = cgis[h].rfd /\ H.wfd \in {cgis[h].wfd, NoFd}
      /\ cgis[h].body - H.body \in 0..(PipeCap - child[h].fill)
  BY <1>1, <1>3, <1>4, WriteBodyType
<1> HIDE DEF H, h
<1>6. child[h].fill + (cgis[h].body - H.body) \in 0..PipeCap
  BY <1>3, <1>5
<1>7. QED
  BY <1>1, <1>2, <1>5, <1>6 DEF H, h

\* handleCGIWrite with a part of the body to write.
LEMMA CGIWriteBodyType ==
    ASSUME Inv, CGIWriteBody
    PROVE  TypeOK' /\ ListeningFirst'
<1> DEFINE h == cgiFdToHandler[fd]
           H == WriteBody(cgis[h], child[h].stdin, PipeCap - child[h].fill)
<1>1. /\ cgis' = [cgis EXCEPT ![h] = H]
      /\ openFds' = openFds \ ({cgis[h].wfd} \ {H.wfd})
      /\ child' = [child EXCEPT ![h] =
                     [child[h] EXCEPT !.fill = child[h].fill + (cgis[h].body - H.body)]]
      /\ i' = i + 1
      /\ UNCHANGED <<pollFds, clientMap, maps, clients, net, ctl>>
  BY DEF CGIWriteBody
<1>2. /\ h \in CgiAddr /\ cgis[h] \in Cgi /\ child[h] \in Child
      /\ H \in Cgi /\ H.rfd = cgis[h].rfd /\ H.wfd \in {cgis[h].wfd, NoFd}
      /\ child[h].fill + (cgis[h].body - H.body) \in 0..PipeCap
  BY CGIWriteBodyEffect
<1> HIDE DEF h, H
<1>3. [child[h] EXCEPT !.fill = child[h].fill + (cgis[h].body - H.body)] \in Child
  BY <1>2 DEF Child
<1>4. /\ cgis' \in [CgiAddr -> Cgi \cup {NoCgi}]
      /\ child' \in [CgiAddr -> Child \cup {NoChild}]
      /\ openFds' \subseteq Fd /\ i' \in Nat
  BY <1>1, <1>2, <1>3 DEF Inv, TypeOK
<1>5. QED
  BY <1>1, <1>4 DEF Inv, TypeOK, ListeningFirst, maps, net, ctl

\* handleCGIRead, when there is more to come.
LEMMA ReadMoreType ==
    ASSUME Inv, CGIReadMore
    PROVE  TypeOK' /\ ListeningFirst'
<1>1. PICK more \in BOOLEAN :
        child' = [child EXCEPT ![cgiFdToHandler[fd]] = [child[cgiFdToHandler[fd]] EXCEPT !.out = more]]
  BY DEF CGIReadMore
<1>2. child[cgiFdToHandler[fd]] \in Child
  BY DEF CGIReadMore, LiveCgi, Inv, TypeOK, OneChildPerHandler, NoChild
<1>3. child' \in [CgiAddr -> Child \cup {NoChild}]
  BY <1>1, <1>2 DEF Inv, TypeOK, Child
<1>4. QED
  BY <1>3 DEF CGIReadMore, Inv, TypeOK, ListeningFirst, maps, net, ctl

\* A step of a script changes the record of its process only.
LEMMA ScriptEffect ==
    ASSUME Inv, NEW h \in CgiAddr, Script(h)
    PROVE  \E ch \in Child : child[h].st = "running" /\ ChildStep(h, ch)
<1>1. child[h] \in Child /\ child[h].st = "running" /\ PipeCap \in Nat
  <2>1. \E ch : ChildStep(h, ch)
    BY DEF Script, ScriptWrites, ScriptReads, ScriptClosesStdin, ScriptClosesStdout, ScriptExits
  <2>2. child[h].st = "running"
    BY <2>1 DEF ChildStep
  <2>3. child[h] \in Child
    BY <2>2 DEF Inv, TypeOK, NoChild
  <2>4. QED
    BY <2>2, <2>3, SizeAssumption
<1>2. CASE ScriptWrites(h)
  BY <1>1, <1>2 DEF ScriptWrites, Child
<1>3. CASE ScriptReads(h)
  <2>1. [child[h] EXCEPT !.fill = child[h].fill - 1] \in Child
    BY <1>1, <1>3 DEF ScriptReads, Child
  <2>2. QED
    BY <1>1, <1>3, <2>1 DEF ScriptReads
<1>4. CASE ScriptClosesStdin(h)
  BY <1>1, <1>4 DEF ScriptClosesStdin, Child
<1>5. CASE ScriptClosesStdout(h)
  BY <1>1, <1>5 DEF ScriptClosesStdout, Child
<1>6. CASE ScriptExits(h)
  <2>1. PICK ok \in BOOLEAN :
          ChildStep(h, [child[h] EXCEPT !.st = "exited", !.ok = ok, !.stdin = FALSE, !.stdout = FALSE])
    BY <1>6 DEF ScriptExits
  <2>2. [child[h] EXCEPT !.st = "exited", !.ok = ok, !.stdin = FALSE, !.stdout = FALSE] \in Child
    BY <1>1 DEF Child
  <2>3. QED
    BY <1>1, <2>1, <2>2
<1>7. QED
  BY <1>2, <1>3, <1>4, <1>5, <1>6 DEF Script

-----------------------------------------------------------------------------
\* A step of the next-state relation keeps the types and the listening sockets.
LEMMA TypeStep ==
    ASSUME Inv, [Next]_vars
    PROVE  TypeOK' /\ ListeningFirst'
<1> USE DEF Inv, maps, heap, net, ctl
<1>1. CASE Poll
  BY <1>1, PollType
<1>2. CASE EndPass
  BY <1>2 DEF EndPass, TypeOK, ListeningFirst
<1>3. CASE Nothing \/ AcceptFails \/ ReadIncomplete
  BY <1>3 DEF Nothing, AcceptFails, ReadIncomplete, Skip, TypeOK, ListeningFirst
<1>4. CASE NewClient
  BY <1>4, NewClientType
<1>5. CASE ClientTimeout \/ ClientError \/ ClientGone \/ ClientWriteFails \/ ClientWriteRest
  BY <1>5, ClientEndType
<1>6. CASE ReadAnswered \/ StartFails
  BY <1>6, FailedStart, AnsweredType
<1>7. CASE StartCGIGet \/ StartCGIPost
  BY <1>7, StartType
<1>8. CASE CGITimeout
  BY <1>8, TimeoutType
<1>9. CASE CGIReadMore
  BY <1>9, ReadMoreType
<1>10. CASE CGIReadEnd
  BY <1>10, ReadEndType
<1>11. CASE Reap \/ Interrupt
  <2>1. waiting \in CgiAddr /\ (Delete(waiting) \/ Abandon(waiting))
    BY <1>11 DEF Reap, Interrupt, TypeOK
  <2>2. QED
    BY <1>11, <2>1, DeleteType, AbandonType DEF Reap, Interrupt, TypeOK, ListeningFirst
<1>12. CASE CGIWriteDone
  BY <1>12, WriteDoneType
<1>13. CASE CGIWriteBody
  BY <1>13, CGIWriteBodyType
<1>14. CASE ClientWritePart
  <2>1. clients[clientMap[fd]] \in Client
    BY <1>14, ClientOfVisit DEF ClientWritePart
  <2>2. wire' \in [Conns -> SUBSET Response]
    BY <1>14, <2>1 DEF ClientWritePart, Sent, Client, TypeOK
  <2>3. QED
    BY <1>14, <2>2 DEF ClientWritePart, TypeOK, ListeningFirst
<1>15. CASE Undefined
  BY <1>15 DEF Undefined, TypeOK, ListeningFirst
<1>16. CASE Stop
  BY <1>16 DEF Stop, TypeOK, ListeningFirst
<1>17. ASSUME NEW h \in CgiAddr, DestroyCgi(h)
       PROVE  TypeOK' /\ ListeningFirst'
  <2>1. /\ cgis' \in [CgiAddr -> Cgi \cup {NoCgi}]
        /\ child' \in [CgiAddr -> Child \cup {NoChild}]
        /\ openFds' \subseteq Fd
    BY <1>17, DeleteType, AbandonType DEF DestroyCgi
  <2>2. /\ cgiFdToHandler' \in [Fd -> CgiAddr \cup {NULL}]
        /\ \A f \in 1..NServers : cgiFdToHandler'[f] = NULL
    BY <1>17, SizeAssumption DEF DestroyCgi, Forget, TypeOK, ListeningFirst, Fd
  <2>3. QED
    BY <1>17, <2>1, <2>2 DEF DestroyCgi, TypeOK, ListeningFirst
<1>18. ASSUME NEW h \in CgiAddr, DestroyDead(h)
       PROVE  TypeOK' /\ ListeningFirst'
  BY <1>18 DEF DestroyDead, TypeOK, ListeningFirst
<1>19. CASE Stopped
  BY <1>19 DEF Stopped, TypeOK, ListeningFirst
<1>20. ASSUME NEW h \in CgiAddr, Script(h)
       PROVE  TypeOK' /\ ListeningFirst'
  <2>1. PICK ch \in Child : ChildStep(h, ch)
    BY <1>20, ScriptEffect
  <2>2. child' \in [CgiAddr -> Child \cup {NoChild}]
    BY <2>1 DEF ChildStep, TypeOK
  <2>3. QED
    BY <2>1, <2>2 DEF ChildStep, TypeOK, ListeningFirst
<1>21. ASSUME NEW a \in ClientAddr, ClientLate(a)
       PROVE  TypeOK' /\ ListeningFirst'
  <2>1. [clients[a] EXCEPT !.late = TRUE] \in Client
    BY <1>21, LiveObjects DEF ClientLate, Client
  <2>2. clients' \in [ClientAddr -> Client \cup {NoClient}]
    BY <1>21, <2>1 DEF ClientLate, TypeOK
  <2>3. QED
    BY <1>21, <2>2 DEF ClientLate, TypeOK, ListeningFirst
<1>22. ASSUME NEW f \in Fd, CGILate(f)
       PROVE  TypeOK' /\ ListeningFirst'
  <2>1. /\ cgiStartTime' \in [Fd -> {"none", "fresh", "late"}]
        /\ \A g \in 1..NServers : cgiStartTime'[g] = "none"
    BY <1>22 DEF CGILate, TypeOK, ListeningFirst
  <2>2. QED
    BY <1>22, <2>1 DEF CGILate, TypeOK, ListeningFirst
<1>23. CASE UNCHANGED vars
  BY <1>23 DEF vars, TypeOK, ListeningFirst
<1>24. QED
  BY <1>1, <1>2, <1>3, <1>4, <1>5, <1>6, <1>7, <1>8, <1>9, <1>10, <1>11, <1>12, <1>13, <1>14,
     <1>15, <1>16, <1>17, <1>18, <1>19, <1>20, <1>21, <1>22, <1>23
     DEF Next, Loop, Shutdown, Clock, Ended

-----------------------------------------------------------------------------
(* Who owns a descriptor *)

\* Descriptors, maps and objects say who owns what; nothing else matters.
LEMMA SameOwners ==
    ASSUME Inv, UNCHANGED <<openFds, clientMap>>,
           \A a \in ClientAddr : clients'[a].fd = clients[a].fd,
           \A h \in CgiAddr : cgis'[h].rfd = cgis[h].rfd /\ cgis'[h].wfd = cgis[h].wfd
    PROVE  FdOwnership' /\ ClientMapExact'
<1>1. \A h \in CgiAddr : Ends(h)' = Ends(h)
  BY DEF Ends
<1>2. \A a \in ClientAddr : LiveClient(a)' = LiveClient(a)
  BY DEF LiveClient
<1>3. FdOwnership'
  BY <1>1, <1>2 DEF Inv, FdOwnership
<1>4. ClientMapExact'
  BY DEF Inv, ClientMapExact
<1>5. QED
  BY <1>3, <1>4

\* A handler closes one end, both or none: they were its own, so nothing else
\* loses a descriptor.
LEMMA EndsClosed ==
    ASSUME Inv, NEW h \in CgiAddr, UNCHANGED clientMap,
           \A a \in ClientAddr : clients'[a].fd = clients[a].fd,
           \A g \in CgiAddr \ {h} : cgis'[g] = cgis[g],
           cgis'[h].rfd \in {cgis[h].rfd, NoFd}, cgis'[h].wfd \in {cgis[h].wfd, NoFd},
           openFds' = openFds \ (Ends(h) \ Ends(h)')
    PROVE  FdOwnership' /\ ClientMapExact'
<1>1. \A g \in CgiAddr \ {h} : Ends(g)' = Ends(g)
  BY DEF Ends
<1>2. Ends(h)' \subseteq Ends(h)
  BY DEF Ends
<1>3. \A a \in ClientAddr : LiveClient(a)' = LiveClient(a)
  BY DEF LiveClient
<1>4. cgis'[h].rfd = cgis'[h].wfd => Ends(h)' = {}
  BY DEF Ends, Inv, FdOwnership
<1>5. FdOwnership'
  <2>1. ASSUME NEW f \in Fd
        PROVE  f \in openFds' <=> \/ IsServer(f)
                                  \/ \E a \in ClientAddr : clients'[a].fd = f
                                  \/ \E g \in CgiAddr : f \in Ends(g)'
    <3>1. CASE f \in Ends(h) \ Ends(h)'
      <4>1. ~IsServer(f) /\ \A a \in ClientAddr : clients[a].fd # f
        BY <3>1 DEF Inv, FdOwnership
      <4>2. \A g \in CgiAddr : f \in Ends(g) => g = h
        BY <3>1 DEF Inv, FdOwnership
      <4>3. QED
        BY <1>1, <3>1, <4>1, <4>2
    <3>2. CASE f \notin Ends(h) \ Ends(h)'
      <4>1. \A g \in CgiAddr : f \in Ends(g)' <=> f \in Ends(g)
        BY <1>1, <1>2, <3>2
      <4>2. QED
        BY <3>2, <4>1 DEF Inv, FdOwnership
    <3>3. QED
      BY <3>1, <3>2
  <2>2. \A a \in ClientAddr : ~IsServer(clients'[a].fd)
    BY DEF Inv, FdOwnership
  <2>3. \A g \in CgiAddr : Ends(g)' \subseteq Ends(g)
    BY <1>1, <1>2
  <2>4. \A g \in CgiAddr \ {h} : cgis'[g].rfd = cgis'[g].wfd => Ends(g)' = {}
    BY <1>1 DEF Inv, FdOwnership
  <2>5. QED
    BY <1>3, <1>4, <2>1, <2>2, <2>3, <2>4 DEF Inv, FdOwnership
<1>6. ClientMapExact'
  BY DEF Inv, ClientMapExact
<1>7. QED
  BY <1>5, <1>6

\* A handler goes on with the record H, in which it may have closed an end.
LEMMA EndClosed ==
    ASSUME Inv, NEW h \in CgiAddr, NEW H, UNCHANGED clientMap,
           \A a \in ClientAddr : clients'[a].fd = clients[a].fd,
           cgis' = [cgis EXCEPT ![h] = H],
           H.rfd \in {cgis[h].rfd, NoFd}, H.wfd \in {cgis[h].wfd, NoFd},
           openFds' = openFds \ (({cgis[h].rfd} \ {H.rfd}) \cup ({cgis[h].wfd} \ {H.wfd}))
    PROVE  FdOwnership' /\ ClientMapExact'
<1>1. cgis'[h] = H /\ \A g \in CgiAddr \ {h} : cgis'[g] = cgis[g]
  BY DEF Inv, TypeOK
<1>2. Ends(h)' = {H.rfd, H.wfd} \ {NoFd}
  BY <1>1 DEF Ends
<1>3. cgis[h].rfd = cgis[h].wfd => cgis[h].rfd = NoFd
  BY DEF Inv, FdOwnership, Ends
<1>4. NoFd \notin openFds
  BY DEF Inv, TypeOK, Fd, NoFd
<1>5. ASSUME NEW f \in openFds
      PROVE  f \in ({cgis[h].rfd} \ {H.rfd}) \cup ({cgis[h].wfd} \ {H.wfd})
               <=> f \in Ends(h) \ Ends(h)'
  BY <1>2, <1>3, <1>4 DEF Ends
<1>6. openFds' = openFds \ (Ends(h) \ Ends(h)')
  BY <1>5
<1>7. QED
  BY <1>1, <1>6, EndsClosed

\* Deleting a handler closes both its ends, whether its process is reaped or not.
LEMMA DeleteEnds ==
    ASSUME Inv, NEW h \in CgiAddr, Delete(h) \/ Abandon(h)
    PROVE  /\ \A g \in CgiAddr \ {h} : cgis'[g] = cgis[g]
           /\ cgis'[h].rfd = NoFd /\ cgis'[h].wfd = NoFd
           /\ openFds' = openFds \ (Ends(h) \ Ends(h)')
<1>1. \A g \in CgiAddr : cgis'[g] = IF g = h THEN NoCgi ELSE cgis[g]
  BY DEF Delete, Abandon, Inv, TypeOK
<1>2. cgis'[h].rfd = NoFd /\ cgis'[h].wfd = NoFd
  BY <1>1 DEF NoCgi
<1>3. NoFd \notin openFds
  BY DEF Inv, TypeOK, Fd, NoFd
<1>4. QED
  BY <1>1, <1>2, <1>3 DEF Delete, Abandon, Ends

\* accept(): the descriptor was free, so nobody had it.
LEMMA ClientArrives ==
    ASSUME Inv, NewClient
    PROVE  FdOwnership' /\ ClientMapExact'
<1>1. PICK f \in Lowest(Free), a \in {b \in ClientAddr : ~LiveClient(b)} :
        /\ openFds' = openFds \cup {f}
        /\ clientMap' = [clientMap EXCEPT ![f] = a]
        /\ clients' = [clients EXCEPT ![a] =
                         [fd |-> f, conn |-> nextConn, resp |-> NoResp, late |-> FALSE]]
  BY DEF NewClient
<1>2. f \in Fd /\ f \notin openFds /\ f # NoFd
  BY DEF Lowest, Free, Fd, NoFd
<1>3. a \in ClientAddr /\ clients[a].fd = NoFd
  BY DEF LiveClient
<1>4. \A b \in ClientAddr : clients'[b].fd = IF b = a THEN f ELSE clients[b].fd
  BY <1>1, <1>3 DEF Inv, TypeOK
<1>5. \A h \in CgiAddr : Ends(h)' = Ends(h) /\ cgis'[h] = cgis[h]
  BY DEF NewClient, Ends
<1>6. /\ ~IsServer(f)
      /\ \A b \in ClientAddr : clients[b].fd # f
      /\ \A h \in CgiAddr : f \notin Ends(h)
  BY <1>2 DEF Inv, FdOwnership
<1>7. FdOwnership'
  <2>1. \A g \in Fd : g \in openFds' <=> \/ IsServer(g)
                                         \/ \E b \in ClientAddr : clients'[b].fd = g
                                         \/ \E h \in CgiAddr : g \in Ends(h)'
    <3> SUFFICES ASSUME NEW g \in Fd
                 PROVE  g \in openFds' <=> \/ IsServer(g)
                                           \/ \E b \in ClientAddr : clients'[b].fd = g
                                           \/ \E h \in CgiAddr : g \in Ends(h)'
      OBVIOUS
    <3>1. CASE g = f
      BY <1>1, <1>3, <1>4, <3>1
    <3>2. CASE g # f
      <4>1. g # NoFd
        BY DEF Fd, NoFd
      <4>2. \A b \in ClientAddr : clients'[b].fd = g <=> clients[b].fd = g
        BY <1>3, <1>4, <3>2, <4>1
      <4>3. QED
        BY <1>1, <1>5, <3>2, <4>2 DEF Inv, FdOwnership
    <3>3. QED
      BY <3>1, <3>2
  <2>2. \A b \in ClientAddr : ~IsServer(clients'[b].fd)
    BY <1>4, <1>6 DEF Inv, FdOwnership
  <2>3. \A b, c \in ClientAddr : LiveClient(b)' /\ clients'[b].fd = clients'[c].fd => b = c
    BY <1>4, <1>6 DEF Inv, FdOwnership, LiveClient
  <2>4. \A b \in ClientAddr, h \in CgiAddr : clients'[b].fd \notin Ends(h)'
    BY <1>4, <1>5, <1>6 DEF Inv, FdOwnership
  <2>5. QED
    BY <1>5, <2>1, <2>2, <2>3, <2>4 DEF Inv, FdOwnership
<1>8. ClientMapExact'
  BY <1>1, <1>2, <1>3, <1>4, <1>6 DEF Inv, TypeOK, ClientMapExact, Fd, NoFd
<1>9. QED
  BY <1>7, <1>8

\* The Client at address a is deleted: its destructor closes its socket.
LEMMA ClientGoes ==
    ASSUME Inv, NEW branch, Visit(branch), Disconnect
    PROVE  FdOwnership' /\ ClientMapExact'
<1>0. fd \in Fd /\ fd # NoFd
  BY AtVisit DEF Fd, NoFd
<1>1. CASE clientMap[fd] = NULL
  <2>1. clientMap' = clientMap
    BY <1>0, <1>1 DEF Disconnect, ForgetClient, Inv, TypeOK
  <2>2. QED
    BY <1>1, <2>1, SameOwners DEF Disconnect
<1>2. CASE clientMap[fd] # NULL
  <2> DEFINE a == clientMap[fd]
  <2>1. a \in ClientAddr /\ clients[a].fd = fd /\ LiveClient(a)
    BY <1>2, ClientOfVisit
  <2>2. /\ clientMap' = [clientMap EXCEPT ![fd] = NULL]
        /\ openFds' = openFds \ {fd}
        /\ clients' = [clients EXCEPT ![a] = NoClient]
    BY <1>2, <2>1 DEF Disconnect, ForgetClient
  <2> HIDE DEF a
  <2>3. \A b \in ClientAddr : clients'[b].fd = IF b = a THEN NoFd ELSE clients[b].fd
    BY <2>1, <2>2 DEF Inv, TypeOK, NoClient
  <2>4. \A h \in CgiAddr : Ends(h)' = Ends(h) /\ cgis'[h] = cgis[h]
    BY DEF Disconnect, Ends
  <2>5. /\ ~IsServer(fd)
        /\ \A b \in ClientAddr : clients[b].fd = fd => b = a
        /\ \A h \in CgiAddr : fd \notin Ends(h)
    BY <2>1 DEF Inv, FdOwnership
  <2>6. \A h \in CgiAddr : NoFd \notin Ends(h)
    BY DEF Ends
  <2>7. FdOwnership'
    <3>1. \A g \in Fd : g \in openFds' <=> \/ IsServer(g)
                                           \/ \E b \in ClientAddr : clients'[b].fd = g
                                           \/ \E h \in CgiAddr : g \in Ends(h)'
      <4> SUFFICES ASSUME NEW g \in Fd
                   PROVE  g \in openFds' <=> \/ IsServer(g)
                                             \/ \E b \in ClientAddr : clients'[b].fd = g
                                             \/ \E h \in CgiAddr : g \in Ends(h)'
        OBVIOUS
      <4>0. g # NoFd
        BY DEF Fd, NoFd
      <4>1. CASE g = fd
        BY <2>2, <2>3, <2>4, <2>5, <4>0, <4>1
      <4>2. CASE g # fd
        <5>1. \A b \in ClientAddr : clients'[b].fd = g <=> clients[b].fd = g
          BY <2>1, <2>3, <4>0, <4>2
        <5>2. QED
          BY <2>2, <2>4, <4>2, <5>1 DEF Inv, FdOwnership
      <4>3. QED
        BY <4>1, <4>2
    <3>2. \A b \in ClientAddr : ~IsServer(clients'[b].fd)
      BY <2>3 DEF Inv, FdOwnership, IsServer, NoFd
    <3>3. \A b, c \in ClientAddr : LiveClient(b)' /\ clients'[b].fd = clients'[c].fd => b = c
      BY <2>3 DEF Inv, FdOwnership, LiveClient
    <3>4. \A b \in ClientAddr, h \in CgiAddr : clients'[b].fd \notin Ends(h)'
      BY <2>3, <2>4, <2>6 DEF Inv, FdOwnership
    <3>5. QED
      BY <2>4, <3>1, <3>2, <3>3, <3>4 DEF Inv, FdOwnership
  <2>8. ClientMapExact'
    BY <1>0, <2>1, <2>2, <2>3, <2>5, NullAssumption DEF Inv, TypeOK, ClientMapExact, Fd, NoFd
  <2>9. QED
    BY <2>7, <2>8
<1>3. QED
  BY <1>1, <1>2

\* ~EventLoop deletes all the clients at once.
LEMMA ClientsDropped ==
    ASSUME Inv, Stop
    PROVE  FdOwnership' /\ ClientMapExact'
<1>1. \A a \in ClientAddr : clients'[a].fd = NoFd
  BY DEF Stop, NoClient
<1>2. \A h \in CgiAddr : Ends(h)' = Ends(h) /\ cgis'[h] = cgis[h] /\ NoFd \notin Ends(h)
  BY DEF Stop, Ends
<1>3. \A f \in Fd : f \in openFds' <=> \/ IsServer(f)
                                       \/ \E a \in ClientAddr : clients'[a].fd = f
                                       \/ \E h \in CgiAddr : f \in Ends(h)'
  <2> SUFFICES ASSUME NEW f \in Fd
               PROVE  f \in openFds' <=> \/ IsServer(f)
                                         \/ \E a \in ClientAddr : clients'[a].fd = f
                                         \/ \E h \in CgiAddr : f \in Ends(h)'
    OBVIOUS
  <2>1. openFds' = openFds \ {clients[a].fd : a \in ClientAddr} /\ f # NoFd
    BY DEF Stop, Fd, NoFd
  <2>2. f \in {clients[a].fd : a \in ClientAddr} <=> \E a \in ClientAddr : clients[a].fd = f
    OBVIOUS
  <2>3. QED
    BY <1>1, <1>2, <2>1, <2>2 DEF Inv, FdOwnership
<1>4. FdOwnership'
  BY <1>1, <1>2, <1>3 DEF Inv, FdOwnership, LiveClient, IsServer, NoFd
<1>5. ClientMapExact'
  BY <1>1, NullAssumption DEF Stop, ClientMapExact, Fd, NoFd
<1>6. QED
  BY <1>4, <1>5

\* A script starts: the ends kept open were free, and are two.
LEMMA HandlerStarts ==
    ASSUME Inv, StartCGIGet \/ StartCGIPost
    PROVE  FdOwnership' /\ ClientMapExact'
<1> DEFINE a == clientMap[fd]
<1>1. PICK h \in CgiAddr, H \in Cgi, ch \in Child :
        /\ ~LiveCgi(h)
        /\ H.rfd \in Free /\ H.wfd \in Free \cup {NoFd} /\ H.rfd # H.wfd
        /\ Register(a, h, H)
        /\ child' = [child EXCEPT ![h] = ch]
  BY StartEffect DEF Started
<1>2. a \in ClientAddr
  BY StartEffect
<1> HIDE DEF a
<1> DEFINE new == {H.rfd, H.wfd} \ {NoFd}
<1>3. \A b \in ClientAddr : clients'[b].fd = clients[b].fd
  BY <1>1, <1>2 DEF Register, Inv, TypeOK, Client, NoClient
<1>4. \A g \in CgiAddr : cgis'[g] = IF g = h THEN H ELSE cgis[g]
  BY <1>1 DEF Register, Inv, TypeOK
<1>5. Ends(h) = {} /\ Ends(h)' = new
  <2>1. cgis[h] = NoCgi
    BY <1>1, LiveObjects DEF Inv
  <2>2. QED
    BY <1>4, <2>1 DEF Ends, NoCgi
<1>6. \A g \in CgiAddr \ {h} : Ends(g)' = Ends(g)
  BY <1>4 DEF Ends
<1>7. openFds' = openFds \cup new /\ UNCHANGED clientMap
  BY <1>1 DEF Register
<1>8. \A f \in new : f \in Fd /\ f \notin openFds
  BY <1>1 DEF Free
<1> HIDE DEF new
<1>9. \A f \in new : /\ ~IsServer(f)
                     /\ \A b \in ClientAddr : clients[b].fd # f
                     /\ \A g \in CgiAddr : f \notin Ends(g)
  BY <1>8 DEF Inv, FdOwnership
<1>10. FdOwnership'
  <2>1. ASSUME NEW f \in Fd
        PROVE  f \in openFds' <=> \/ IsServer(f)
                                  \/ \E b \in ClientAddr : clients'[b].fd = f
                                  \/ \E g \in CgiAddr : f \in Ends(g)'
    <3>1. CASE f \in new
      BY <1>5, <1>7, <3>1
    <3>2. CASE f \notin new
      <4>1. \A g \in CgiAddr : f \in Ends(g)' <=> f \in Ends(g)
        BY <1>5, <1>6, <3>2
      <4>2. QED
        BY <1>3, <1>7, <3>2, <4>1 DEF Inv, FdOwnership
    <3>3. QED
      BY <3>1, <3>2
  <2>2. \A g \in CgiAddr : \A f \in Ends(g)' : ~IsServer(f)
    BY <1>5, <1>6, <1>9 DEF Inv, FdOwnership
  <2>3. \A b \in ClientAddr, g \in CgiAddr : clients'[b].fd \notin Ends(g)'
    BY <1>3, <1>5, <1>6, <1>9 DEF Inv, FdOwnership
  <2>4. \A g1, g2 \in CgiAddr : \A f \in Ends(g1)' : f \in Ends(g2)' => g1 = g2
    BY <1>5, <1>6, <1>9 DEF Inv, FdOwnership
  <2>5. \A g \in CgiAddr : cgis'[g].rfd = cgis'[g].wfd => Ends(g)' = {}
    BY <1>1, <1>4, <1>6 DEF Inv, FdOwnership
  <2>6. \A b, c \in ClientAddr : LiveClient(b)' /\ clients'[b].fd = clients'[c].fd => b = c
    BY <1>3 DEF Inv, FdOwnership, LiveClient
  <2>7. \A b \in ClientAddr : ~IsServer(clients'[b].fd)
    BY <1>3 DEF Inv, FdOwnership
  <2>8. QED
    BY <2>1, <2>2, <2>3, <2>4, <2>5, <2>6, <2>7 DEF FdOwnership
<1>11. ClientMapExact'
  BY <1>3, <1>7 DEF Inv, ClientMapExact
<1>12. QED
  BY <1>10, <1>11

-----------------------------------------------------------------------------
(* Every step *)

\* Ending a script gives its client a response: the same socket, a live handler's
\* connection.
LEMMA ConcludeOwners ==
    ASSUME Inv, NEW h, LiveCgi(h), NEW c, LiveClient(c),
           NEW code \in {"direct", "cgi", "500", "504"}, Conclude(h, c, code)
    PROVE  \A a \in ClientAddr : clients'[a].fd = clients[a].fd
<1>1. cgis[h].conn \in Conns
  BY LiveObjects DEF Inv, LiveCgi, Cgi
<1>2. QED
  BY <1>1, SetResponseType DEF Conclude, Inv

\* The owners of the descriptors agree after any step.
LEMMA OwnerStep ==
    ASSUME Inv, [Next]_vars
    PROVE  FdOwnership' /\ ClientMapExact'
<1> USE DEF maps, heap, net, ctl
<1>1. CASE Poll \/ EndPass
  BY <1>1, SameOwners DEF Poll, EndPass
<1>2. CASE Nothing \/ AcceptFails \/ ReadIncomplete
  BY <1>2, SameOwners DEF Nothing, AcceptFails, ReadIncomplete, Skip
<1>3. CASE NewClient
  BY <1>3, ClientArrives
<1>4. CASE ClientTimeout \/ ClientError \/ ClientGone \/ ClientWriteFails \/ ClientWriteRest
  BY <1>4, ClientGoes
     DEF ClientTimeout, ClientError, ClientGone, ClientWriteFails, ClientWriteRest
<1>5. CASE ReadAnswered \/ StartFails
  <2>0. ReadAnswered
    BY <1>5, FailedStart
  <2>1. LiveClient(clientMap[fd]) /\ clients[clientMap[fd]].conn \in Conns
    BY <2>0, ClientOfVisit DEF ReadAnswered, Respond, Client
  <2>2. \A a \in ClientAddr : clients'[a].fd = clients[a].fd
    BY <2>0, <2>1, SetResponseType DEF ReadAnswered, Respond, Inv
  <2>3. QED
    BY <2>0, <2>2, SameOwners DEF ReadAnswered, Respond
<1>6. CASE StartCGIGet \/ StartCGIPost
  BY <1>6, HandlerStarts
<1>7. CASE CGITimeout
  <2> DEFINE h == cgiFdToHandler[fd]
             c == cgiFdToClient[fd]
  <2>1. LiveCgi(h) /\ LiveClient(c) /\ Conclude(h, c, "504") /\ Delete(h)
    BY <1>7 DEF CGITimeout
  <2> HIDE DEF h, c
  <2>2. QED
    BY <2>1, ConcludeOwners, DeleteEnds, EndsClosed DEF LiveCgi, Conclude
<1>8. CASE CGIReadEnd
  <2> DEFINE h == cgiFdToHandler[fd]
             c == cgiFdToClient[fd]
             H == ReadOutput(h)
             code == IF H.error THEN "500" ELSE "cgi"
  <2>1. /\ LiveCgi(h) /\ LiveClient(c) /\ Conclude(h, c, code)
        /\ IF child[h].st = "running" \/ fd = cgis[h].wfd
           THEN /\ cgis' = [cgis EXCEPT ![h] = H]
                /\ openFds' = openFds \ ({cgis[h].rfd} \ {H.rfd})
           ELSE Delete(h)
    BY <1>8 DEF CGIReadEnd
  <2>2. code \in {"direct", "cgi", "500", "504"}
    OBVIOUS
  <2>3. h \in CgiAddr /\ H.rfd \in {cgis[h].rfd, NoFd} /\ H.wfd = cgis[h].wfd
    BY <2>1, ReadOutputType DEF Inv, LiveCgi
  <2> HIDE DEF h, c, H, code
  <2>4. UNCHANGED clientMap /\ \A a \in ClientAddr : clients'[a].fd = clients[a].fd
    BY <2>1, <2>2, ConcludeOwners DEF Conclude
  <2>5. CASE child[h].st = "running" \/ fd = cgis[h].wfd
    BY <2>1, <2>3, <2>4, <2>5, EndClosed
  <2>6. CASE ~(child[h].st = "running" \/ fd = cgis[h].wfd)
    BY <2>1, <2>3, <2>4, <2>6, DeleteEnds, EndsClosed
  <2>7. QED
    BY <2>5, <2>6
<1>9. CASE CGIReadMore
  BY <1>9, SameOwners DEF CGIReadMore
<1>10. CASE Reap \/ Interrupt
  <2>1. /\ waiting \in CgiAddr /\ (Delete(waiting) \/ Abandon(waiting))
        /\ UNCHANGED <<clientMap, clients>>
    BY <1>10 DEF Reap, Interrupt, Inv, TypeOK
  <2>2. QED
    BY <2>1, DeleteEnds, EndsClosed
<1>11. CASE CGIWriteDone
  <2> DEFINE h == cgiFdToHandler[fd]
             c == cgiFdToClient[fd]
  <2>1. LiveCgi(h) /\ IF cgis[h].error
                      THEN LiveClient(c) /\ clients' = SetResponse(c, cgis[h].conn, "500")
                      ELSE UNCHANGED clients
    BY <1>11 DEF CGIWriteDone
  <2>2. cgis[h].conn \in Conns
    BY <2>1, LiveObjects DEF Inv, LiveCgi, Cgi
  <2> HIDE DEF h, c
  <2>3. \A a \in ClientAddr : clients'[a].fd = clients[a].fd
    BY <2>1, <2>2, SetResponseType DEF Inv
  <2>4. QED
    BY <1>11, <2>3, SameOwners DEF CGIWriteDone
<1>12. CASE CGIWriteBody
  <2> DEFINE h == cgiFdToHandler[fd]
             H == WriteBody(cgis[h], child[h].stdin, PipeCap - child[h].fill)
  <2>1. /\ cgis' = [cgis EXCEPT ![h] = H]
        /\ openFds' = openFds \ ({cgis[h].wfd} \ {H.wfd})
        /\ UNCHANGED <<clientMap, clients>>
    BY <1>12 DEF CGIWriteBody
  <2>2. h \in CgiAddr /\ H.rfd = cgis[h].rfd /\ H.wfd \in {cgis[h].wfd, NoFd}
    BY <1>12, CGIWriteBodyEffect
  <2> HIDE DEF h, H
  <2>3. QED
    BY <2>1, <2>2, EndClosed
<1>13. CASE ClientWritePart
  BY <1>13, SameOwners DEF ClientWritePart
<1>14. CASE Undefined
  BY <1>14, SameOwners DEF Undefined
<1>15. CASE Stop
  BY <1>15, ClientsDropped
<1>16. ASSUME NEW h \in CgiAddr, DestroyCgi(h)
       PROVE  FdOwnership' /\ ClientMapExact'
  BY <1>16, DeleteEnds, EndsClosed DEF DestroyCgi
<1>17. ASSUME NEW h \in CgiAddr, DestroyDead(h)
       PROVE  FdOwnership' /\ ClientMapExact'
  BY <1>17, SameOwners DEF DestroyDead
<1>18. CASE Stopped
  BY <1>18, SameOwners DEF Stopped
<1>19. ASSUME NEW h \in CgiAddr, Script(h)
       PROVE  FdOwnership' /\ ClientMapExact'
  BY <1>19, ScriptEffect, SameOwners DEF ChildStep
<1>20. ASSUME NEW a \in ClientAddr, ClientLate(a)
       PROVE  FdOwnership' /\ ClientMapExact'
  <2>1. \A b \in ClientAddr : clients'[b].fd = clients[b].fd
    BY <1>20, LiveObjects DEF ClientLate, Client, Inv, TypeOK
  <2>2. QED
    BY <1>20, <2>1, SameOwners DEF ClientLate
<1>21. ASSUME NEW f \in Fd, CGILate(f)
       PROVE  FdOwnership' /\ ClientMapExact'
  BY <1>21, SameOwners DEF CGILate
<1>22. CASE UNCHANGED vars
  BY <1>22, SameOwners DEF vars
<1>23. QED
  BY <1>1, <1>2, <1>3, <1>4, <1>5, <1>6, <1>7, <1>8, <1>9, <1>10, <1>11, <1>12, <1>13, <1>14,
     <1>15, <1>16, <1>17, <1>18, <1>19, <1>20, <1>21, <1>22
     DEF Next, Loop, Shutdown, Clock, Ended

\* The handlers and the processes, whatever the loop waits for.
Matched ==
    /\ \A h \in CgiAddr : cgis[h].live => child[h].st # "none"
    /\ \A h \in CgiAddr : child[h].st # "none" => cgis[h].live \/ interrupted

\* A handler is changed into one that is live, its process into another state
\* of a process, or both are gone.
LEMMA ChildKept ==
    ASSUME Inv, NEW h \in CgiAddr, NEW H \in Cgi, NEW ch \in Child,
           cgis' = [cgis EXCEPT ![h] = H], child' = [child EXCEPT ![h] = ch],
           UNCHANGED interrupted
    PROVE  Matched'
BY DEF Matched, Inv, TypeOK, OneChildPerHandler, Cgi, Child

\* A deleted handler leaves no process behind, or one whose wait was cut short.
LEMMA ChildDeleted ==
    ASSUME Inv, NEW h \in CgiAddr,
           \/ Delete(h) /\ UNCHANGED interrupted
           \/ Abandon(h) /\ interrupted'
    PROVE  Matched'
<1>1. CASE Delete(h) /\ UNCHANGED interrupted
  BY <1>1 DEF Matched, Inv, TypeOK, OneChildPerHandler, Delete, NoCgi, NoChild
<1>2. CASE Abandon(h) /\ interrupted'
  <2>1. \A g \in CgiAddr : cgis'[g] = IF g = h THEN NoCgi ELSE cgis[g]
    BY <1>2 DEF Abandon, Inv, TypeOK
  <2>2. \A g \in CgiAddr \ {h} : child'[g] = child[g]
    BY <1>2 DEF Abandon, Inv, TypeOK
  <2>3. QED
    BY <1>2, <2>1, <2>2 DEF Matched, Inv, OneChildPerHandler, NoCgi
<1>3. QED
  BY <1>1, <1>2

\* A live handler has a process.
LEMMA LiveChild ==
    ASSUME Inv, NEW h, LiveCgi(h)
    PROVE  h \in CgiAddr /\ cgis[h] \in Cgi /\ child[h] \in Child
BY LiveObjects DEF Inv, TypeOK, OneChildPerHandler, LiveCgi, NoChild

\* The handlers and the processes agree after any step, and the loop waits only
\* for a handler there is.
LEMMA ChildStepKeeps ==
    ASSUME Inv, [Next]_vars
    PROVE  OneChildPerHandler'
<1> USE DEF maps, heap, net, ctl
<1>1. CASE UNCHANGED <<cgis, child, ctl>>
  BY <1>1 DEF Inv, OneChildPerHandler, LiveCgi
<1>2. CASE \/ Poll \/ EndPass \/ Nothing \/ AcceptFails \/ NewClient \/ ReadIncomplete
           \/ ClientTimeout \/ ClientError \/ ClientGone \/ ClientWriteFails \/ ClientWriteRest
           \/ ReadAnswered \/ StartFails \/ CGIWriteDone \/ ClientWritePart
  BY <1>1, <1>2
     DEF Poll, EndPass, Nothing, AcceptFails, NewClient, ReadIncomplete, Skip, Disconnect,
         ClientTimeout, ClientError, ClientGone, ClientWriteFails, ClientWriteRest,
         ReadAnswered, StartFails, Respond, CGIWriteDone, ClientWritePart
<1>3. CASE StartCGIGet \/ StartCGIPost
  <2>1. PICK h \in CgiAddr, H \in Cgi, ch \in Child :
          Register(clientMap[fd], h, H) /\ child' = [child EXCEPT ![h] = ch]
    BY <1>3, StartEffect DEF Started
  <2>2. Matched'
    BY <2>1, ChildKept DEF Register
  <2>3. waiting' = NULL
    BY <1>3, <2>1, StartEffect DEF Visit, Register
  <2>4. QED
    BY <2>2, <2>3 DEF OneChildPerHandler, Matched
<1>4. CASE CGITimeout
  <2> DEFINE h == cgiFdToHandler[fd]
  <2>1. LiveCgi(h) /\ Delete(h) /\ waiting' = NULL /\ UNCHANGED interrupted
    BY <1>4 DEF CGITimeout, Visit, Conclude
  <2> HIDE DEF h
  <2>2. QED
    BY <2>1, ChildDeleted DEF LiveCgi, OneChildPerHandler, Matched
<1>5. CASE CGIReadEnd
  <2> DEFINE h == cgiFdToHandler[fd]
             H == ReadOutput(h)
  <2>1. /\ LiveCgi(h) /\ waiting = NULL /\ proc = "running" /\ proc' = proc
        /\ UNCHANGED interrupted
        /\ IF child[h].st = "running" \/ fd = cgis[h].wfd
           THEN /\ waiting' \in {h, NULL}
                /\ cgis' = [cgis EXCEPT ![h] = H]
                /\ UNCHANGED child
           ELSE Delete(h) /\ UNCHANGED waiting
    BY <1>5 DEF CGIReadEnd, Visit, Conclude
  <2>2. H \in Cgi
    BY <2>1, ReadOutputType DEF Inv
  <2> HIDE DEF h, H
  <2>3. CASE child[h].st = "running" \/ fd = cgis[h].wfd
    <3>1. child' = [child EXCEPT ![h] = child[h]]
      BY <2>1, <2>3 DEF Inv, TypeOK
    <3>2. Matched'
      BY <2>1, <2>2, <2>3, <3>1, LiveChild, ChildKept
    <3>3. cgis'[h].live
      BY <2>1, <2>2, <2>3 DEF Inv, TypeOK, LiveCgi, Cgi
    <3>4. QED
      BY <2>1, <2>3, <3>2, <3>3 DEF OneChildPerHandler, Matched, LiveCgi
  <2>4. CASE ~(child[h].st = "running" \/ fd = cgis[h].wfd)
    BY <2>1, <2>4, ChildDeleted DEF LiveCgi, OneChildPerHandler, Matched
  <2>5. QED
    BY <2>3, <2>4
<1>6. CASE CGIReadMore
  <2> DEFINE h == cgiFdToHandler[fd]
  <2>1. PICK more \in BOOLEAN : child' = [child EXCEPT ![h] = [child[h] EXCEPT !.out = more]]
    BY <1>6 DEF CGIReadMore
  <2>2. LiveCgi(h) /\ UNCHANGED <<cgis, ctl>>
    BY <1>6 DEF CGIReadMore
  <2> HIDE DEF h
  <2>3. h \in CgiAddr /\ cgis[h] \in Cgi /\ child[h] \in Child
    BY <2>2, LiveChild
  <2>4. [child[h] EXCEPT !.out = more] \in Child
    BY <2>3 DEF Child
  <2>5. cgis' = [cgis EXCEPT ![h] = cgis[h]]
    BY <2>2 DEF Inv, TypeOK
  <2>6. QED
    BY <2>1, <2>2, <2>3, <2>4, <2>5, ChildKept DEF OneChildPerHandler, Matched, Inv, LiveCgi
<1>7. CASE Reap \/ Interrupt
  <2>1. waiting \in CgiAddr /\ waiting' = NULL
    BY <1>7 DEF Reap, Interrupt, Inv, TypeOK
  <2>2. QED
    BY <1>7, <2>1, ChildDeleted DEF Reap, Interrupt, OneChildPerHandler, Matched
<1>8. CASE CGIWriteBody
  <2> DEFINE h == cgiFdToHandler[fd]
             H == WriteBody(cgis[h], child[h].stdin, PipeCap - child[h].fill)
             ch == [child[h] EXCEPT !.fill = child[h].fill + (cgis[h].body - H.body)]
  <2>1. /\ cgis' = [cgis EXCEPT ![h] = H] /\ child' = [child EXCEPT ![h] = ch]
        /\ waiting' = NULL /\ UNCHANGED interrupted
    BY <1>8 DEF CGIWriteBody, Visit
  <2>2. h \in CgiAddr /\ H \in Cgi /\ ch \in Child
    BY <1>8, CGIWriteBodyEffect DEF Child
  <2> HIDE DEF h, H, ch
  <2>3. QED
    BY <2>1, <2>2, ChildKept DEF OneChildPerHandler, Matched
<1>9. CASE Undefined
  BY <1>9 DEF Undefined, Visit, Inv, OneChildPerHandler
<1>10. CASE Stop
  BY <1>10 DEF Stop, Inv, OneChildPerHandler
<1>11. ASSUME NEW h \in CgiAddr, DestroyCgi(h)
       PROVE  OneChildPerHandler'
  <2>1. /\ waiting' = NULL
        /\ \/ Delete(h) /\ UNCHANGED interrupted
           \/ Abandon(h) /\ interrupted'
    BY <1>11 DEF DestroyCgi, Inv, OneChildPerHandler
  <2>2. QED
    BY <2>1, ChildDeleted DEF OneChildPerHandler, Matched
<1>12. ASSUME NEW h \in CgiAddr, DestroyDead(h)
       PROVE  OneChildPerHandler'
  BY <1>12 DEF DestroyDead, Inv, OneChildPerHandler
<1>13. CASE Stopped
  BY <1>13 DEF Stopped, Inv, OneChildPerHandler
<1>14. ASSUME NEW h \in CgiAddr, Script(h)
       PROVE  OneChildPerHandler'
  <2>1. PICK ch \in Child : child[h].st = "running" /\ ChildStep(h, ch)
    BY <1>14, ScriptEffect
  <2>2. \A g \in CgiAddr : child'[g].st # "none" <=> child[g].st # "none"
    BY <2>1 DEF ChildStep, Inv, TypeOK, Child
  <2>3. UNCHANGED <<cgis, ctl>>
    BY <2>1 DEF ChildStep
  <2>4. QED
    BY <2>2, <2>3 DEF OneChildPerHandler, Inv, LiveCgi
<1>15. CASE Clock \/ UNCHANGED vars
  BY <1>1, <1>15 DEF Clock, ClientLate, CGILate, vars
<1>16. QED
  BY <1>2, <1>3, <1>4, <1>5, <1>6, <1>7, <1>8, <1>9, <1>10, <1>11, <1>12, <1>13, <1>14, <1>15
     DEF Next, Loop, Shutdown, Ended

-----------------------------------------------------------------------------
(* The theorems *)

\* The constructor establishes the inductive invariant.
LEMMA InitInv == Init => Inv
<1> SUFFICES ASSUME Init PROVE Inv
  OBVIOUS
<1>1. TypeOK
  BY InitType
<1>2. ListeningFirst
  BY SizeAssumption DEF Init, ListeningFirst, ListeningPrefix, Entry, Fd
<1>3. FdOwnership
  BY SizeAssumption DEF Init, FdOwnership, Ends, LiveClient, NoClient, NoCgi, IsServer, NoFd, Fd
<1>4. ClientMapExact
  BY NullAssumption DEF Init, ClientMapExact, NoClient, NoFd, Fd
<1>5. OneChildPerHandler
  BY DEF Init, OneChildPerHandler, NoCgi, NoChild
<1>6. QED
  BY <1>1, <1>2, <1>3, <1>4, <1>5 DEF Inv

\* Every step keeps it: the four parts, put together.
LEMMA InvStep == Inv /\ [Next]_vars => Inv'
BY TypeStep, OwnerStep, ChildStepKeeps DEF Inv

\* The inductive invariant holds in every reachable state, however peers, scripts
\* and clocks behave and whatever memory and descriptors are reused.
THEOREM Invariance == Spec => []Inv
BY InitInv, InvStep, PTL DEF Spec

\* Every structure of the loop keeps its type through every handler: no map leads
\* outside the heap, no mask or buffer is ill-formed.
THEOREM TypeCorrect == Spec => []TypeOK
<1>1. Inv => TypeOK
  BY DEF Inv
<1>2. QED
  BY <1>1, Invariance, PTL

\* erase() on _pollFds never removes or moves a listening socket, and no CGI map
\* has one as a key.
THEOREM ListeningSafe == Spec => []ListeningFirst
<1>1. Inv => ListeningFirst
  BY DEF Inv
<1>2. QED
  BY <1>1, Invariance, PTL

\* No descriptor leaks and none is closed twice: each open one has exactly one
\* owner.
THEOREM NoDescriptorLeak == Spec => []FdOwnership
<1>1. Inv => FdOwnership
  BY DEF Inv
<1>2. QED
  BY <1>1, Invariance, PTL

\* _clientMap is never stale.
THEOREM ClientMapCorrect == Spec => []ClientMapExact
<1>1. Inv => ClientMapExact
  BY DEF Inv
<1>2. QED
  BY <1>1, Invariance, PTL

\* No script is left unreaped by a deleted handler, and the loop only ever waits
\* for a handler that exists.
THEOREM NoZombie == Spec => []OneChildPerHandler
<1>1. Inv => OneChildPerHandler
  BY DEF Inv
<1>2. QED
  BY <1>1, Invariance, PTL

-----------------------------------------------------------------------------
(* The first regime: every body fits in the pipe, and no client is dropped *)
(* while its script runs.  What holds of the loop then is the conjunction   *)
(* Regular, which talks of the connections, of the answers, of the maps, of *)
(* the array given to poll() and of its answer, and so is inductive.        *)

FirstRegime == ~DropWhileRunning /\ MaxBody <= PipeCap

\* A connection has one client and is worked for by one script.
Connections ==
    /\ \A a \in ClientAddr : LiveClient(a) => clients[a].conn < nextConn
    /\ \A a, b \in ClientAddr :
          LiveClient(a) /\ LiveClient(b) /\ clients[a].conn = clients[b].conn => a = b
    /\ \A h \in CgiAddr : LiveCgi(h) => cgis[h].conn < nextConn
    /\ \A g, h \in CgiAddr : LiveCgi(g) /\ LiveCgi(h) /\ cgis[g].conn = cgis[h].conn => g = h

\* What went out on the connection of a client is part of its one response.
Answers ==
    /\ \A a \in ClientAddr : LiveClient(a) =>
          /\ clients[a].resp # NoResp => clients[a].resp.for = clients[a].conn
          /\ wire[clients[a].conn] \subseteq {clients[a].resp} \ {NoResp}
    /\ \A c \in Conns : /\ \A r \in wire[c] : r.for = c
                        /\ \A r, s \in wire[c] : r = s
                        /\ c >= nextConn => wire[c] = {}

\* No client is late while its script runs, and a body is written by start().
Undisturbed ==
    /\ \A a \in ClientAddr : LiveClient(a) /\ clients[a].late => ~Running(a)
    /\ \A h \in CgiAddr : Served(h) /\ cgis[h].wfd # NoFd => cgis[h].body = 0 /\ ~cgis[h].error

\* The maps lead from the pipes of the served handlers to these and to their clients.
Maps ==
    /\ \A f \in Fd : cgiFdToHandler[f] # NULL =>
          /\ Served(cgiFdToHandler[f])
          /\ f \in {cgis[cgiFdToHandler[f]].rfd, cgis[cgiFdToHandler[f]].wfd}
          /\ LiveClient(cgiFdToClient[f])
          /\ clients[cgiFdToClient[f]].conn = cgis[cgiFdToHandler[f]].conn
    /\ \A f \in Fd : cgiFdToHandler[f] = NULL <=> cgiFdToClient[f] = NULL
    /\ \A f \in Fd : cgiStartTime[f] # "none" <=> \E h \in CgiAddr : Served(h) /\ cgis[h].rfd = f
    /\ \A h \in CgiAddr : Served(h) => cgis[h].rfd \in Fd /\ cgiFdToHandler[cgis[h].rfd] = h

\* _pollFds has one entry for each descriptor with an owner in the maps, and the
\* read end of a script before its write end.
Watched(f) == IsServer(f) \/ clientMap[f] # NULL \/ cgiFdToHandler[f] # NULL
Watch ==
    /\ \A j, k \in DOMAIN pollFds : pollFds[j].fd = pollFds[k].fd => j = k
    /\ \A k \in DOMAIN pollFds : Watched(pollFds[k].fd)
    /\ \A f \in Fd : Watched(f) => \E k \in DOMAIN pollFds : pollFds[k].fd = f
    /\ \A h \in CgiAddr, j, k \in DOMAIN pollFds :
          Served(h) /\ pollFds[j].fd = cgis[h].rfd /\ pollFds[k].fd = cgis[h].wfd => j < k

\* What the entry e is watched for.
Masked(e) ==
    /\ \A a \in ClientAddr : clientMap[e.fd] = a =>
          /\ e.events = "OUT" <=> clients[a].resp # NoResp
          /\ e.events = "PAUSE" <=> \E h \in CgiAddr : Serves(h, a)
    /\ \A h \in CgiAddr : Served(h) =>
          /\ e.fd = cgis[h].rfd => e.events = "IN"
          /\ e.fd = cgis[h].wfd => e.events = "OUT"

\* What the last poll() may have reported of it, as long as it is to be visited.
Reported(e) ==
    /\ \A a \in ClientAddr : clientMap[e.fd] = a =>
          /\ "IN" \in e.revents => e.events = "IN"
          /\ "OUT" \in e.revents => e.events = "OUT"
          /\ Running(a) => e.revents \cap {"HUP", "ERR"} = {}
    /\ \A h \in CgiAddr : Served(h) =>
          /\ e.fd = cgis[h].rfd => "OUT" \notin e.revents
          /\ e.fd = cgis[h].wfd => e.revents \cap {"IN", "HUP"} = {}

Entries == \A k \in DOMAIN pollFds : /\ Masked(pollFds[k])
                                     /\ 0 < i /\ i <= k => Reported(pollFds[k])

Serving == Undisturbed /\ Maps /\ Watch /\ Entries

\* The destructor: no client is left, and every handler is known to a map.
Ending ==
    /\ \A a \in ClientAddr : ~LiveClient(a)
    /\ \A f \in Fd : cgiFdToHandler[f] # NULL => LiveCgi(cgiFdToHandler[f])
    /\ \A h \in CgiAddr : LiveCgi(h) => \E f \in Fd : cgiFdToHandler[f] = h
    /\ proc = "stopped" => \A f \in Fd : cgiFdToHandler[f] = NULL

Regular ==
    /\ proc # "undefined"
    /\ Connections
    /\ Answers
    /\ proc = "running" => Serving
    /\ proc # "running" => Ending

-----------------------------------------------------------------------------
(* What the visit of an entry finds *)

\* Nothing is waited for, so the live handlers are the served ones.
LEMMA AllServed ==
    ASSUME Inv, waiting = NULL
    PROVE  \A h : LiveCgi(h) <=> Served(h)
<1>1. \A h : LiveCgi(h) => h # NULL
  BY NullAssumption DEF LiveCgi
<1>2. QED
  BY <1>1 DEF Served

\* A client's entry is visited: the client is there, and no script works for it.
LEMMA VisitClient ==
    ASSUME Inv, Regular, NEW b \in {"clientTimeout", "error", "clientRead", "clientWrite"}, Visit(b)
    PROVE  /\ clientMap[fd] \in ClientAddr /\ LiveClient(clientMap[fd])
           /\ clients[clientMap[fd]].fd = fd
           /\ cgiFdToHandler[fd] = NULL
           /\ ~Running(clientMap[fd])
           /\ b = "clientRead" => /\ pollFds[i].events = "IN"
                                  /\ clients[clientMap[fd]].resp = NoResp
<1> DEFINE a == clientMap[fd]
           e == pollFds[i]
<1>1. i \in DOMAIN pollFds /\ i \in Nat /\ i > 0 /\ e \in PollFd /\ fd \in Fd /\ ~IsServer(fd)
  BY AtVisit DEF Visit
<1>2. Serving /\ Branch(e) = b /\ waiting = NULL
  BY DEF Visit, Regular
<1>3. e.fd = fd
  BY DEF fd
<1>4. Masked(e) /\ Reported(e) /\ Watched(fd)
  BY <1>1, <1>2, <1>3 DEF Serving, Entries, Watch
<1> HIDE DEF e
<1>5. a # NULL
  <2>1. CASE b = "clientTimeout"
    BY <1>2, <1>3, <2>1 DEF Branch, IsClientTimeout
  <2>2. CASE b # "clientTimeout"
    <3>1. cgiFdToHandler[fd] = NULL
      BY <1>1, <1>2, <1>3, <2>2 DEF Branch, IsError, IsCgiFd
    <3>2. QED
      BY <1>1, <1>4, <3>1 DEF Watched
  <2>3. QED
    BY <2>1, <2>2
<1>6. a \in ClientAddr /\ LiveClient(a) /\ clients[a].fd = fd
  BY <1>5, ClientOfVisit
<1>7. cgiFdToHandler[fd] = NULL
  <2> SUFFICES ASSUME cgiFdToHandler[fd] # NULL PROVE FALSE
    OBVIOUS
  <2>1. fd \in Ends(cgiFdToHandler[fd]) /\ cgiFdToHandler[fd] \in CgiAddr
    BY <1>1, <1>2 DEF Serving, Maps, Ends, Fd, NoFd, Served, LiveCgi
  <2>2. QED
    BY <1>6, <2>1 DEF Inv, FdOwnership
<1> HIDE DEF a
<1>8. ASSUME e.events # "PAUSE" PROVE ~Running(a)
  <2>1. ~ \E h \in CgiAddr : Serves(h, a)
    BY <1>3, <1>4, <1>6, <1>8 DEF Masked, a
  <2>2. QED
    BY <1>2, <2>1, AllServed DEF Serves, Running, LiveCgi
<1>9. CASE b = "clientTimeout"
  BY <1>2, <1>3, <1>6, <1>7, <1>9
     DEF Branch, IsClientTimeout, Serving, Undisturbed, a
<1>10. CASE b = "error"
  BY <1>2, <1>3, <1>4, <1>6, <1>7, <1>10 DEF Branch, IsError, Reported, a
<1>11. CASE b = "clientRead"
  <2>1. "IN" \in e.revents
    BY <1>1, <1>2, <1>3, <1>7, <1>11 DEF Branch, IsError, IsCgiFd, IsReadable
  <2>2. e.events = "IN"
    BY <1>3, <1>4, <1>6, <2>1 DEF Reported, a
  <2>3. clients[a].resp = NoResp
    BY <1>3, <1>4, <1>6, <2>2 DEF Masked, a
  <2>4. QED
    BY <1>6, <1>7, <1>8, <2>2, <2>3 DEF a, e
<1>12. CASE b = "clientWrite"
  <2>1. "OUT" \in e.revents
    BY <1>1, <1>2, <1>3, <1>7, <1>12 DEF Branch, IsWritable
  <2>2. e.events = "OUT"
    BY <1>3, <1>4, <1>6, <2>1 DEF Reported, a
  <2>3. QED
    BY <1>6, <1>7, <1>8, <1>12, <2>2 DEF a
<1>13. QED
  BY <1>9, <1>10, <1>11, <1>12

\* The entry of a pipe is visited: its handler is served, and waited for by a
\* live client that has no response yet.
LEMMA VisitPipe ==
    ASSUME Inv, Regular, NEW b \in {"cgiTimeout", "cgiRead", "cgiWrite"}, Visit(b),
           NEW h, h = cgiFdToHandler[fd], NEW c, c = cgiFdToClient[fd]
    PROVE  /\ h \in CgiAddr /\ Served(h) /\ LiveCgi(h) /\ cgis[h] \in Cgi
           /\ c \in ClientAddr /\ LiveClient(c) /\ clients[c].conn = cgis[h].conn
           /\ clients[c].resp = NoResp
           /\ b # "cgiWrite" => fd = cgis[h].rfd
           /\ b = "cgiWrite" => fd = cgis[h].wfd /\ cgis[h].body = 0 /\ ~cgis[h].error
<1> DEFINE e == pollFds[i]
<1>1. i \in DOMAIN pollFds /\ i \in Nat /\ i > 0 /\ e \in PollFd /\ fd \in Fd /\ ~IsServer(fd)
  BY AtVisit DEF Visit
<1>2. Serving /\ Branch(e) = b /\ waiting = NULL
  BY DEF Visit, Regular
<1>3. e.fd = fd /\ fd # NoFd
  BY <1>1 DEF fd, Fd, NoFd
<1>4. Masked(e) /\ Reported(e)
  BY <1>1, <1>2, <1>3 DEF Serving, Entries
<1> HIDE DEF e
<1>5. h # NULL
  <2>1. CASE b = "cgiTimeout"
    <3>1. cgiStartTime[fd] # "none"
      BY <1>2, <1>3, <2>1 DEF Branch, IsCGITimeout
    <3>2. PICK g \in CgiAddr : Served(g) /\ cgis[g].rfd = fd
      BY <1>1, <1>2, <3>1 DEF Serving, Maps
    <3>3. QED
      BY <1>2, <3>2, NullAssumption DEF Serving, Maps
  <2>2. CASE b # "cgiTimeout"
    BY <1>1, <1>2, <1>3, <2>2 DEF Branch, IsCgiFd
  <2>3. QED
    BY <2>1, <2>2
<1>6. /\ h \in CgiAddr /\ Served(h) /\ fd \in {cgis[h].rfd, cgis[h].wfd}
      /\ c \in ClientAddr /\ LiveClient(c) /\ clients[c].conn = cgis[h].conn
  BY <1>1, <1>2, <1>5 DEF Serving, Maps, Served, LiveCgi, LiveClient
<1>7. LiveCgi(h) /\ cgis[h] \in Cgi
  BY <1>6, LiveObjects DEF Served, Inv
<1>8. clients[c].resp = NoResp
  <2>1. clients[c].fd \in Fd
    BY <1>6, LiveObjects DEF Inv, Client
  <2>2. clientMap[clients[c].fd] = c /\ c # NULL
    BY <1>6, <2>1, NullAssumption DEF Inv, ClientMapExact
  <2>3. PICK k \in DOMAIN pollFds : pollFds[k].fd = clients[c].fd
    BY <1>2, <2>1, <2>2 DEF Serving, Watch, Watched
  <2>4. Masked(pollFds[k])
    BY <1>2, <2>3 DEF Serving, Entries
  <2>5. Serves(h, c)
    BY <1>6 DEF Serves
  <2>6. pollFds[k].events = "PAUSE"
    BY <1>6, <2>2, <2>3, <2>4, <2>5 DEF Masked
  <2>7. QED
    BY <1>6, <2>2, <2>3, <2>4, <2>6 DEF Masked
<1>9. CASE b = "cgiTimeout"
  <2>1. PICK g \in CgiAddr : Served(g) /\ cgis[g].rfd = fd
    BY <1>1, <1>2, <1>3, <1>9 DEF Serving, Maps, Branch, IsCGITimeout
  <2>2. g = h
    BY <1>2, <2>1 DEF Serving, Maps
  <2>3. QED
    BY <1>6, <1>7, <1>8, <1>9, <2>1, <2>2
<1>10. CASE b = "cgiRead"
  <2>1. e.revents \cap {"IN", "HUP"} # {}
    BY <1>1, <1>2, <1>3, <1>10 DEF Branch, IsReadable
  <2>2. fd # cgis[h].wfd
    BY <1>3, <1>4, <1>6, <2>1 DEF Reported
  <2>3. QED
    BY <1>6, <1>7, <1>8, <1>10, <2>2
<1>11. CASE b = "cgiWrite"
  <2>1. "OUT" \in e.revents
    BY <1>1, <1>2, <1>3, <1>11 DEF Branch, IsWritable
  <2>2. fd # cgis[h].rfd
    BY <1>3, <1>4, <1>6, <2>1 DEF Reported
  <2>3. cgis[h].body = 0 /\ ~cgis[h].error
    BY <1>2, <1>3, <1>6, <2>2 DEF Serving, Undisturbed
  <2>4. QED
    BY <1>6, <1>7, <1>8, <1>11, <2>2, <2>3
<1>12. QED
  BY <1>9, <1>10, <1>11

-----------------------------------------------------------------------------
(* Steps that leave the entries as they are *)

\* No client and no handler is new, and those there are keep their connections.
LEMMA SameConnections ==
    ASSUME Connections, nextConn' = nextConn,
           \A a \in ClientAddr : LiveClient(a)' => LiveClient(a) /\ clients'[a].conn = clients[a].conn,
           \A h \in CgiAddr : LiveCgi(h)' => LiveCgi(h) /\ cgis'[h].conn = cgis[h].conn
    PROVE  Connections'
BY DEF Connections

\* No response is made, and nothing goes out.
LEMMA SameAnswers ==
    ASSUME Answers, UNCHANGED <<nextConn, wire>>,
           \A a \in ClientAddr : LiveClient(a)' => /\ LiveClient(a)
                                                  /\ clients'[a].conn = clients[a].conn
                                                  /\ clients'[a].resp = clients[a].resp
    PROVE  Answers'
BY DEF Answers

\* The served handlers and the clients, the maps and the entries stay; a handler
\* that is waited for may go, a client may turn late if no script works for it,
\* and the pass goes on, or is over.
LEMMA SameServing ==
    ASSUME Serving, UNCHANGED <<pollFds, clientMap, cgiFdToHandler, cgiFdToClient>>,
           \A f \in Fd : cgiStartTime'[f] = "none" <=> cgiStartTime[f] = "none",
           \A h : Served(h)' <=> Served(h),
           \A h \in CgiAddr : Served(h) => cgis'[h] = cgis[h],
           \A h \in CgiAddr : LiveCgi(h)' => LiveCgi(h) /\ cgis'[h].conn = cgis[h].conn,
           \A a \in ClientAddr : /\ clients'[a].fd = clients[a].fd
                                 /\ clients'[a].conn = clients[a].conn
                                 /\ clients'[a].resp = clients[a].resp
                                 /\ LiveClient(a) /\ clients'[a].late => ~Running(a),
           i' = 0 \/ (0 < i /\ i <= i'), i \in Nat, i' \in Nat, pollFds \in Seq(PollFd)
    PROVE  Serving'
<1>1. \A a : LiveClient(a)' <=> LiveClient(a)
  BY DEF LiveClient
<1>2. \A a \in ClientAddr : Running(a)' => Running(a)
  <2> SUFFICES ASSUME NEW a \in ClientAddr, NEW h \in CgiAddr,
                      cgis'[h].live, cgis'[h].conn = clients'[a].conn
               PROVE  cgis[h].live /\ cgis[h].conn = clients[a].conn
    BY DEF Running
  <2>1. QED
    BY DEF LiveCgi
<1>3. \A h, a : a \in ClientAddr => (Serves(h, a)' <=> Serves(h, a))
  BY DEF Serves, Served, LiveCgi
<1>4. Undisturbed'
  BY <1>1, <1>2 DEF Serving, Undisturbed
<1>5. Maps'
  <2>1. \A f \in Fd : cgiFdToHandler[f] # NULL =>
          LET h == cgiFdToHandler[f] IN
          /\ Served(h)' /\ f \in {cgis'[h].rfd, cgis'[h].wfd}
          /\ LiveClient(cgiFdToClient[f])' /\ clients'[cgiFdToClient[f]].conn = cgis'[h].conn
    BY <1>1 DEF Serving, Maps, Served, LiveCgi, LiveClient
  <2>2. QED
    BY <2>1 DEF Serving, Maps
<1>6. Watch'
  BY DEF Serving, Watch, Watched
<1>7. ASSUME NEW k \in DOMAIN pollFds
      PROVE  /\ Masked(pollFds[k])'
             /\ 0 < i' /\ i' <= k => Reported(pollFds[k])'
  <2>1. Masked(pollFds[k]) /\ (0 < i /\ i <= k => Reported(pollFds[k]))
    BY DEF Serving, Entries
  <2>2. Masked(pollFds[k])'
    BY <1>3, <2>1 DEF Masked
  <2>3. k \in Nat
    BY LenProperties
  <2>4. 0 < i' /\ i' <= k => 0 < i /\ i <= k
    BY <2>3
  <2>5. Reported(pollFds[k]) => Reported(pollFds[k])'
    BY <1>2 DEF Reported
  <2>6. QED
    BY <2>1, <2>2, <2>4, <2>5
<1>8. QED
  BY <1>4, <1>5, <1>6, <1>7 DEF Serving, Entries

\* Visits that change nothing, the end of a pass, a part of a response written, a
\* part of a script's output read.
LEMMA QuietVisit ==
    ASSUME Inv, Regular,
           EndPass \/ Nothing \/ AcceptFails \/ ReadIncomplete \/ CGIReadMore \/ ClientWritePart
    PROVE  Regular'
<1>1. /\ proc = "running" /\ Serving /\ Connections /\ Answers /\ i \in Nat /\ pollFds \in Seq(PollFd)
      /\ UNCHANGED <<pollFds, clientMap, maps, clients, cgis, nextConn, ctl>>
      /\ i' = 0 \/ i' = i + 1
  BY DEF EndPass, Nothing, AcceptFails, ReadIncomplete, CGIReadMore, ClientWritePart, Skip, Visit,
         Regular, heap, net, Inv, TypeOK
<1>2. i' = 0 \/ (0 < i /\ i <= i')
  <2>1. CASE EndPass
    BY <2>1 DEF EndPass
  <2>2. CASE Nothing \/ AcceptFails \/ ReadIncomplete \/ CGIReadMore \/ ClientWritePart
    <3>1. i \in 1..Len(pollFds)
      BY <2>2, AtVisit DEF Nothing, AcceptFails, ReadIncomplete, CGIReadMore, ClientWritePart, Skip
    <3>2. QED
      BY <1>1, <3>1
  <2>3. QED
    BY <2>1, <2>2
<1>3. /\ \A h : (LiveCgi(h)' <=> LiveCgi(h)) /\ (Served(h)' <=> Served(h))
      /\ \A a : LiveClient(a)' <=> LiveClient(a)
  BY <1>1 DEF LiveCgi, Served, ctl, LiveClient
<1>4. Serving'
  BY <1>1, <1>2, <1>3, SameServing DEF maps, Serving, Undisturbed
<1>5. Connections'
  BY <1>1, <1>3, SameConnections
<1>6. Answers'
  <2>1. CASE ~ClientWritePart
    BY <1>1, <1>3, <2>1, SameAnswers
       DEF EndPass, Nothing, AcceptFails, ReadIncomplete, CGIReadMore, Skip, net
  <2>2. CASE ClientWritePart
    <3> DEFINE a == clientMap[fd]
               r == clients[a].resp
               c == clients[a].conn
    <3>1. a \in ClientAddr /\ LiveClient(a) /\ r # NoResp /\ c \in Conns
      BY <2>2, ClientOfVisit DEF ClientWritePart, Client
    <3>2. r.for = c /\ wire[c] \subseteq {r} \ {NoResp} /\ c < nextConn
      BY <1>1, <3>1 DEF Answers, Connections
    <3>3. wire' = [wire EXCEPT ![c] = wire[c] \cup {r}]
      BY <2>2 DEF ClientWritePart, Sent
    <3> HIDE DEF a, r, c
    <3>4. \A d \in Conns : wire'[d] = IF d = c THEN {r} ELSE wire[d]
      BY <3>1, <3>2, <3>3 DEF Inv, TypeOK
    <3>5. \A b \in ClientAddr : LiveClient(b) /\ clients[b].conn = c => b = a
      BY <1>1, <3>1 DEF Connections, c
    <3>6. ASSUME NEW b \in ClientAddr, LiveClient(b)
          PROVE  /\ clients[b].resp # NoResp => clients[b].resp.for = clients[b].conn
                 /\ wire'[clients[b].conn] \subseteq {clients[b].resp} \ {NoResp}
      <4>1. clients[b].conn \in Conns
        BY <3>6, LiveObjects DEF Inv, Client
      <4>2. CASE clients[b].conn = c
        BY <3>1, <3>2, <3>4, <3>5, <3>6, <4>2 DEF r, c
      <4>3. CASE clients[b].conn # c
        BY <1>1, <3>4, <3>6, <4>1, <4>3 DEF Answers
      <4>4. QED
        BY <4>2, <4>3
    <3>7. ASSUME NEW d \in Conns
          PROVE  /\ \A s \in wire'[d] : s.for = d
                 /\ \A s, t \in wire'[d] : s = t
                 /\ d >= nextConn => wire'[d] = {}
      <4>1. c \in Nat /\ nextConn \in Nat
        BY <3>1 DEF Conns, Inv, TypeOK
      <4>2. CASE d = c
        BY <3>2, <3>4, <4>1, <4>2
      <4>3. CASE d # c
        BY <1>1, <3>4, <4>3 DEF Answers
      <4>4. QED
        BY <4>2, <4>3
    <3>8. QED
      BY <1>1, <1>3, <3>6, <3>7 DEF Answers
  <2>3. QED
    BY <2>1, <2>2
<1>7. proc' = "running"
  BY <1>1 DEF ctl
<1>8. QED
  BY <1>4, <1>5, <1>6, <1>7 DEF Regular

\* What happens outside: a script moves, a clock runs out.
LEMMA OutsideStep ==
    ASSUME FirstRegime, Inv, Regular, (\E h \in CgiAddr : Script(h)) \/ Clock \/ UNCHANGED vars
    PROVE  Regular'
<1> DEFINE Small ==
              /\ UNCHANGED <<pollFds, i, clientMap, cgiFdToHandler, cgiFdToClient, cgis, openFds, net, ctl>>
              /\ \A f \in Fd : cgiStartTime'[f] = "none" <=> cgiStartTime[f] = "none"
              /\ \A a \in ClientAddr : /\ clients'[a].fd = clients[a].fd
                                       /\ clients'[a].conn = clients[a].conn
                                       /\ clients'[a].resp = clients[a].resp
                                       /\ clients'[a].late => clients[a].late \/ ~Running(a)
<1>1. Small
  <2>1. CASE \E h \in CgiAddr : Script(h)
    <3>1. PICK h \in CgiAddr, ch \in Child : ChildStep(h, ch)
      BY <2>1, ScriptEffect
    <3>2. QED
      BY <3>1 DEF ChildStep, maps
  <2>2. ASSUME NEW a \in ClientAddr, ClientLate(a)
        PROVE  Small
    <3>1. clients' = [clients EXCEPT ![a].late = TRUE] /\ ~Running(a)
      BY <2>2 DEF ClientLate, MayDrop, FirstRegime
    <3>2. \A b \in ClientAddr : /\ clients'[b].fd = clients[b].fd
                                /\ clients'[b].conn = clients[b].conn
                                /\ clients'[b].resp = clients[b].resp
                                /\ b # a => clients'[b] = clients[b]
      BY <2>2, <3>1, LiveObjects DEF ClientLate, Client, Inv, TypeOK
    <3>3. QED
      BY <2>2, <3>1, <3>2 DEF ClientLate, maps
  <2>3. ASSUME NEW f \in Fd, CGILate(f)
        PROVE  Small
    BY <2>3 DEF CGILate, heap, Inv, TypeOK
  <2>4. CASE UNCHANGED vars
    BY <2>4 DEF vars, net, ctl
  <2>5. QED
    BY <2>1, <2>2, <2>3, <2>4 DEF Clock
<1>2. /\ \A h : (LiveCgi(h)' <=> LiveCgi(h)) /\ (Served(h)' <=> Served(h))
      /\ \A a : LiveClient(a)' <=> LiveClient(a)
  BY <1>1 DEF LiveCgi, Served, ctl, LiveClient
<1>3. Connections' /\ Answers'
  BY <1>1, <1>2, SameConnections, SameAnswers DEF Regular, net
<1>4. Serving => Serving'
  <2> SUFFICES ASSUME Serving PROVE Serving'
    OBVIOUS
  <2>1. \A a \in ClientAddr : LiveClient(a) /\ clients'[a].late => ~Running(a)
    BY <1>1 DEF Serving, Undisturbed
  <2>2. i \in Nat /\ i' = i /\ pollFds \in Seq(PollFd)
    BY <1>1 DEF Inv, TypeOK
  <2>3. i' = 0 \/ (0 < i /\ i <= i')
    BY <2>2
  <2>4. QED
    BY <1>1, <1>2, <2>1, <2>2, <2>3, SameServing
<1>5. Ending => Ending'
  BY <1>1, <1>2 DEF Ending, ctl
<1>6. QED
  BY <1>1, <1>3, <1>4, <1>5 DEF Regular, ctl

\* waitpid() returns: the handler it was called for goes, which was served no more.
LEMMA WaitEnds ==
    ASSUME Inv, Regular, Reap \/ Interrupt
    PROVE  Regular'
<1> DEFINE w == waiting
<1>1. /\ proc = "running" /\ w # NULL /\ w \in CgiAddr /\ waiting' = NULL /\ proc' = proc
      /\ Delete(w) \/ Abandon(w)
      /\ UNCHANGED <<pollFds, i, clientMap, maps, clients, net>>
  BY DEF Reap, Interrupt, Inv, TypeOK
<1>2. Serving /\ Connections /\ Answers /\ i \in Nat /\ pollFds \in Seq(PollFd)
  BY <1>1 DEF Regular, Inv, TypeOK
<1> HIDE DEF w
<1>3. \A h \in CgiAddr : cgis'[h] = IF h = w THEN NoCgi ELSE cgis[h]
  BY <1>1 DEF Delete, Abandon, Inv, TypeOK
<1>4. \A h \in CgiAddr : LiveCgi(h)' => LiveCgi(h) /\ cgis'[h].conn = cgis[h].conn
  BY <1>3 DEF LiveCgi, NoCgi
<1>5. \A h : Served(h)' <=> Served(h)
  BY <1>1, <1>3, NullAssumption DEF Served, LiveCgi, NoCgi, w
<1>6. \A h \in CgiAddr : Served(h) => cgis'[h] = cgis[h]
  BY <1>3 DEF Served, w
<1>7. Connections' /\ Answers'
  BY <1>1, <1>2, <1>4, SameConnections, SameAnswers DEF net, LiveClient
<1>8. i' = 0 \/ (0 < i /\ i <= i')
  BY <1>1, <1>2
<1>9. Serving'
  BY <1>1, <1>2, <1>4, <1>5, <1>6, <1>8, SameServing DEF maps, Serving, Undisturbed
<1>10. QED
  BY <1>1, <1>7, <1>9 DEF Regular

-----------------------------------------------------------------------------
(* Steps that erase entries, or change the mask of one *)

\* q is p without the entries of the descriptors in F, and with the mask of g's
\* entry set to POLLOUT: pos gives the place each entry of q had in p.
ThinnedBy(p, q, F, g, pos) ==
    /\ \A j \in 1..Len(q) : /\ pos[j] \in 1..Len(p) /\ j <= pos[j]
                            /\ q[j].fd = p[pos[j]].fd /\ q[j].fd \notin F
                            /\ q[j].revents = p[pos[j]].revents
                            /\ IF q[j].fd = g THEN q[j].events = "OUT" ELSE q[j] = p[pos[j]]
    /\ \A j, k \in 1..Len(q) : j < k => pos[j] < pos[k]
    /\ \A k \in 1..Len(p) : p[k].fd \notin F => \E j \in 1..Len(q) : pos[j] = k

Thinned(p, q, F, g) == q \in Seq(PollFd) /\ \E pos : ThinnedBy(p, q, F, g, pos)

Once(p) == \A j, k \in 1..Len(p) : p[j].fd = p[k].fd => j = k

\* erase() of the entry at k, when no other has its descriptor
LEMMA ThinnedRemove ==
    ASSUME NEW p \in Seq(PollFd), Once(p), NEW k \in 1..Len(p)
    PROVE  Thinned(p, RemoveAt(p, k), {p[k].fd}, NoFd)
<1> DEFINE q == RemoveAt(p, k)
           pos == [j \in 1..(Len(p) - 1) |-> IF j < k THEN j ELSE j + 1]
<1>1. /\ q \in Seq(PollFd) /\ Len(q) = Len(p) - 1
      /\ \A j \in 1..(Len(p) - 1) : q[j] = IF j < k THEN p[j] ELSE p[j + 1]
  BY RemoveAtProperties
<1>2. Len(p) \in Nat /\ \A j \in 1..Len(p) : p[j].fd # NoFd
  <2>1. \A j \in 1..Len(p) : p[j] \in PollFd
    BY ElementOfSeq
  <2>2. QED
    BY <2>1, LenProperties DEF PollFd, Fd, NoFd
<1>3. \A j \in 1..(Len(p) - 1) : pos[j] = IF j < k THEN j ELSE j + 1
  OBVIOUS
<1> HIDE DEF q, pos
<1>4. \A j \in 1..Len(q) : pos[j] \in 1..Len(p) /\ j <= pos[j] /\ pos[j] # k /\ q[j] = p[pos[j]]
  BY <1>1, <1>2, <1>3
<1>5. \A j \in 1..Len(q) : q[j].fd # p[k].fd /\ q[j].fd # NoFd
  <2> SUFFICES ASSUME NEW j \in 1..Len(q) PROVE q[j].fd # p[k].fd /\ q[j].fd # NoFd
    OBVIOUS
  <2>1. pos[j] \in 1..Len(p) /\ pos[j] # k /\ q[j] = p[pos[j]]
    BY <1>4
  <2>2. QED
    BY <1>2, <2>1 DEF Once
<1>6. \A j, l \in 1..Len(q) : j < l => pos[j] < pos[l]
  BY <1>1, <1>2, <1>3
<1>7. ASSUME NEW l \in 1..Len(p), p[l].fd \notin {p[k].fd}
      PROVE  \E j \in 1..Len(q) : pos[j] = l
  <2>1. CASE l < k
    <3>1. l \in 1..Len(q) /\ pos[l] = l
      BY <1>1, <1>2, <1>3, <2>1
    <3>2. QED
      BY <3>1
  <2>2. CASE ~(l < k)
    <3>1. l # k
      BY <1>7
    <3>2. l - 1 \in 1..Len(q) /\ pos[l - 1] = l
      BY <1>1, <1>2, <1>3, <2>2, <3>1
    <3>3. QED
      BY <3>2
  <2>3. QED
    BY <2>1, <2>2
<1>8. ThinnedBy(p, q, {p[k].fd}, NoFd, pos)
  BY <1>4, <1>5, <1>6, <1>7 DEF ThinnedBy
<1>9. QED
  BY <1>1, <1>8 DEF Thinned, q

\* A list thinned twice
LEMMA ThinnedTwice ==
    ASSUME NEW p \in Seq(PollFd), NEW q, NEW r, NEW F, NEW G, NEW g,
           Thinned(p, q, F, g), Thinned(q, r, G, NoFd)
    PROVE  Thinned(p, r, F \cup G, g)
<1>1. PICK s : ThinnedBy(p, q, F, g, s)
  BY DEF Thinned
<1>2. PICK t : ThinnedBy(q, r, G, NoFd, t)
  BY DEF Thinned
<1> DEFINE u == [j \in 1..Len(r) |-> s[t[j]]]
<1>3. q \in Seq(PollFd) /\ r \in Seq(PollFd)
  BY DEF Thinned
<1>4. Len(p) \in Nat /\ Len(q) \in Nat /\ Len(r) \in Nat
  BY <1>3, LenProperties
<1>5. \A j \in 1..Len(r) : u[j] = s[t[j]] /\ t[j] \in 1..Len(q) /\ s[t[j]] \in 1..Len(p)
  BY <1>1, <1>2 DEF ThinnedBy
<1> HIDE DEF u
<1>6. ASSUME NEW j \in 1..Len(r)
      PROVE  /\ u[j] \in 1..Len(p) /\ j <= u[j]
             /\ r[j].fd = p[u[j]].fd /\ r[j].fd \notin F \cup G
             /\ r[j].revents = p[u[j]].revents
             /\ IF r[j].fd = g THEN r[j].events = "OUT" ELSE r[j] = p[u[j]]
  <2>1. /\ j <= t[j] /\ t[j] <= s[t[j]] /\ u[j] = s[t[j]]
        /\ t[j] \in 1..Len(q) /\ s[t[j]] \in 1..Len(p)
    BY <1>1, <1>2, <1>5 DEF ThinnedBy
  <2>2. r[j] = q[t[j]] /\ r[j].fd \notin G
    <3>0. r[j] \in PollFd
      BY <1>3, ElementOfSeq
    <3>1. r[j].fd # NoFd
      BY <3>0 DEF PollFd, Fd, NoFd
    <3>2. QED
      BY <1>2, <3>1 DEF ThinnedBy
  <2>3. /\ q[t[j]].fd = p[u[j]].fd /\ q[t[j]].fd \notin F
        /\ q[t[j]].revents = p[u[j]].revents
        /\ IF q[t[j]].fd = g THEN q[t[j]].events = "OUT" ELSE q[t[j]] = p[u[j]]
    BY <1>1, <2>1 DEF ThinnedBy
  <2>4. j <= u[j]
    BY <1>4, <2>1
  <2>5. QED
    BY <2>1, <2>2, <2>3, <2>4
<1>7. ASSUME NEW j \in 1..Len(r), NEW k \in 1..Len(r), j < k
      PROVE  u[j] < u[k]
  <2>1. t[j] < t[k] /\ t[j] \in 1..Len(q) /\ t[k] \in 1..Len(q)
    BY <1>2, <1>7 DEF ThinnedBy
  <2>2. s[t[j]] < s[t[k]]
    BY <1>1, <2>1 DEF ThinnedBy
  <2>3. QED
    BY <1>5, <2>2
<1>8. ASSUME NEW k \in 1..Len(p), p[k].fd \notin F \cup G
      PROVE  \E j \in 1..Len(r) : u[j] = k
  <2>1. PICK m \in 1..Len(q) : s[m] = k
    BY <1>1, <1>8 DEF ThinnedBy
  <2>2. q[m].fd = p[k].fd
    BY <1>1, <2>1 DEF ThinnedBy
  <2>3. PICK j \in 1..Len(r) : t[j] = m
    BY <1>2, <1>8, <2>2 DEF ThinnedBy
  <2>4. QED
    BY <1>5, <2>1, <2>3
<1>9. ThinnedBy(p, r, F \cup G, g, u)
  BY <1>6, <1>7, <1>8 DEF ThinnedBy
<1>10. QED
  BY <1>3, <1>9 DEF Thinned

\* No descriptor comes twice in the thinned list, either.
LEMMA ThinnedOnce ==
    ASSUME NEW p \in Seq(PollFd), NEW q, NEW F, NEW g, Once(p), Thinned(p, q, F, g)
    PROVE  Once(q)
<1>1. PICK s : ThinnedBy(p, q, F, g, s)
  BY DEF Thinned
<1>2. Len(p) \in Nat /\ Len(q) \in Nat
  BY LenProperties DEF Thinned
<1>3. ASSUME NEW j \in 1..Len(q), NEW k \in 1..Len(q), q[j].fd = q[k].fd
      PROVE  j = k
  <2>1. s[j] \in 1..Len(p) /\ s[k] \in 1..Len(p) /\ p[s[j]].fd = p[s[k]].fd
    BY <1>1, <1>3 DEF ThinnedBy
  <2>2. s[j] = s[k]
    BY <2>1 DEF Once
  <2>3. ~(j < k) /\ ~(k < j)
    BY <1>1, <1>2, <2>1, <2>2 DEF ThinnedBy
  <2>4. QED
    BY <2>3
<1>4. QED
  BY <1>3 DEF Once

\* The mask of one entry is set, and nothing erased.
LEMMA ThinnedMask ==
    ASSUME NEW p \in Seq(PollFd), NEW q \in Seq(PollFd), NEW g, Len(q) = Len(p),
           \A k \in 1..Len(p) : /\ q[k].fd = p[k].fd /\ q[k].revents = p[k].revents
                                /\ IF q[k].fd = g THEN q[k].events = "OUT" ELSE q[k] = p[k]
    PROVE  Thinned(p, q, {}, g)
<1> DEFINE pos == [j \in 1..Len(q) |-> j]
<1>1. ThinnedBy(p, q, {}, g, pos)
  BY LenProperties DEF ThinnedBy
<1>2. QED
  BY <1>1 DEF Thinned

\* What is left of the entries is right if the state of their descriptors stays,
\* but for the entry whose mask is set, about which the caller knows.
LEMMA ThinnedServing ==
    ASSUME Watch, Entries, 0 < i, i \in Nat, i' \in Nat, i <= i', pollFds \in Seq(PollFd),
           NEW F, NEW g, Thinned(pollFds, pollFds', F, g),
           \A f \in Fd : Watched(f)' <=> Watched(f) /\ f \notin F,
           \A h \in CgiAddr : Served(h)' => /\ Served(h)
                                            /\ cgis'[h].rfd = cgis[h].rfd
                                            /\ cgis'[h].wfd = cgis[h].wfd,
           \A f \in Fd \ F : \A a \in ClientAddr : f # g /\ clientMap'[f] = a =>
              /\ clientMap[f] = a
              /\ clients'[a].resp = clients[a].resp
              /\ \A h \in CgiAddr : Serves(h, a)' <=> Serves(h, a)
              /\ Running(a)' => Running(a),
           \A e \in PollFd : e.fd = g /\ e.events = "OUT" => Masked(e)',
           \A e \in PollFd, k \in 1..Len(pollFds) :
              e.fd = g /\ e.events = "OUT" /\ pollFds[k].fd = g /\ e.revents = pollFds[k].revents
                /\ i' <= k => Reported(e)'
    PROVE  Watch' /\ Entries'
<1> DEFINE p == pollFds
           q == pollFds'
<1>1. PICK s : ThinnedBy(p, q, F, g, s)
  BY DEF Thinned
<1>2. /\ Len(p) \in Nat /\ Len(q) \in Nat
      /\ DOMAIN p = 1..Len(p) /\ DOMAIN q = 1..Len(q)
      /\ \A k \in 1..Len(p) : p[k] \in PollFd /\ p[k].fd \in Fd
      /\ \A k \in 1..Len(q) : q[k] \in PollFd /\ q[k].fd \in Fd
  <2>1. p \in Seq(PollFd) /\ q \in Seq(PollFd)
    BY DEF Thinned
  <2> HIDE DEF p, q
  <2>2. /\ \A k \in 1..Len(p) : p[k] \in PollFd
        /\ \A k \in 1..Len(q) : q[k] \in PollFd
    BY <2>1, ElementOfSeq
  <2>3. QED
    BY <2>1, <2>2, LenProperties DEF PollFd
<1>3. Once(p) /\ \A k \in 1..Len(p) : Watched(p[k].fd)
  BY <1>2 DEF Watch, Once
<1>4. Once(q)
  BY <1>3, ThinnedOnce
<1> HIDE DEF p, q
<1>5. \A j \in 1..Len(q) : /\ s[j] \in 1..Len(p) /\ j <= s[j]
                           /\ q[j].fd = p[s[j]].fd /\ q[j].fd \notin F
                           /\ q[j].revents = p[s[j]].revents
                           /\ IF q[j].fd = g THEN q[j].events = "OUT" ELSE q[j] = p[s[j]]
  BY <1>1 DEF ThinnedBy
<1>6. Watch'
  <2>1. ASSUME NEW k \in 1..Len(q)
        PROVE  Watched(pollFds[k].fd)'
    <3>1. s[k] \in 1..Len(p) /\ q[k].fd = p[s[k]].fd /\ q[k].fd \notin F /\ q[k].fd \in Fd
      BY <1>2, <1>5
    <3>2. \A f \in Fd : f = q[k].fd => Watched(f) /\ f \notin F
      BY <1>3, <3>1
    <3>3. \A f \in Fd : f = q[k].fd => Watched(f)'
      BY <3>2
    <3>4. QED
      BY <3>1, <3>3 DEF Watched, q
  <2>2. ASSUME NEW f \in Fd, Watched(f)'
        PROVE  \E k \in 1..Len(q) : q[k].fd = f
    <3>1. Watched(f) /\ f \notin F
      BY <2>2
    <3>2. PICK m \in 1..Len(p) : p[m].fd = f
      BY <1>2, <3>1 DEF Watch, p
    <3>3. PICK k \in 1..Len(q) : s[k] = m
      BY <1>1, <3>1, <3>2 DEF ThinnedBy
    <3>4. QED
      BY <1>5, <3>2, <3>3
  <2>3. ASSUME NEW h \in CgiAddr, NEW j \in 1..Len(q), NEW k \in 1..Len(q),
               Served(h)', q[j].fd = cgis'[h].rfd, q[k].fd = cgis'[h].wfd
        PROVE  j < k
    <3>1. /\ Served(h) /\ s[j] \in 1..Len(p) /\ s[k] \in 1..Len(p)
          /\ p[s[j]].fd = cgis[h].rfd /\ p[s[k]].fd = cgis[h].wfd
      BY <1>5, <2>3
    <3>2. s[j] < s[k]
      BY <1>2, <3>1 DEF Watch, p
    <3>3. j # k /\ ~(k < j)
      BY <1>1, <1>2, <3>1, <3>2 DEF ThinnedBy
    <3>4. QED
      BY <3>3
  <2>4. QED
    BY <1>2, <1>4, <2>1, <2>2, <2>3 DEF Watch, Once, q
<1>7. ASSUME NEW k \in 1..Len(q)
      PROVE  Masked(pollFds[k])' /\ (0 < i' /\ i' <= k => Reported(pollFds[k])')
  <2> DEFINE e == q[k]
             m == s[k]
  <2>1. /\ e \in PollFd /\ e.fd \in Fd /\ e.fd \notin F /\ m \in 1..Len(p) /\ k <= m
        /\ e.fd = p[m].fd /\ e.revents = p[m].revents
        /\ IF e.fd = g THEN e.events = "OUT" ELSE e = p[m]
    BY <1>2, <1>5
  <2>2. Masked(p[m]) /\ (i <= m => Reported(p[m]))
    BY <1>2, <2>1 DEF Entries, p
  <2> HIDE DEF e, m
  <2>3. i' <= k => i <= m /\ i' <= m
    BY <1>2, <2>1
  <2>4. CASE e.fd = g
    <3>1. \A x \in PollFd : x = e => Masked(x)'
      BY <2>1, <2>4
    <3>2. i' <= k => \A x \in PollFd : x = e => Reported(x)'
      BY <2>1, <2>3, <2>4 DEF p
    <3>3. QED
      BY <2>1, <3>1, <3>2 DEF e, q, Masked, Reported
  <2>5. CASE e.fd # g
    <3>0. e = p[m]
      BY <2>1, <2>5
    <3>1. Masked(e) /\ (i <= m => Reported(e))
      BY <2>2, <3>0
    <3>2. \A a \in ClientAddr : clientMap'[e.fd] = a =>
              /\ clientMap[e.fd] = a
              /\ clients'[a].resp = clients[a].resp
              /\ \A h \in CgiAddr : Serves(h, a)' <=> Serves(h, a)
              /\ Running(a)' => Running(a)
      BY <2>1, <2>5
    <3>3. /\ \A a \in ClientAddr : clientMap'[e.fd] = a =>
                /\ e.events = "OUT" <=> clients'[a].resp # NoResp
                /\ e.events = "PAUSE" <=> \E h \in CgiAddr : Serves(h, a)'
          /\ \A h \in CgiAddr : Served(h)' =>
                /\ e.fd = cgis'[h].rfd => e.events = "IN"
                /\ e.fd = cgis'[h].wfd => e.events = "OUT"
      BY <3>1, <3>2 DEF Masked
    <3>4. i <= m =>
          /\ \A a \in ClientAddr : clientMap'[e.fd] = a =>
                /\ "IN" \in e.revents => e.events = "IN"
                /\ "OUT" \in e.revents => e.events = "OUT"
                /\ Running(a)' => e.revents \cap {"HUP", "ERR"} = {}
          /\ \A h \in CgiAddr : Served(h)' =>
                /\ e.fd = cgis'[h].rfd => "OUT" \notin e.revents
                /\ e.fd = cgis'[h].wfd => e.revents \cap {"IN", "HUP"} = {}
      BY <3>1, <3>2 DEF Reported
    <3>5. QED
      BY <2>3, <3>3, <3>4 DEF Masked, Reported, e, q
  <2>6. QED
    BY <2>4, <2>5
<1>8. QED
  BY <1>2, <1>6, <1>7 DEF Entries, q

-----------------------------------------------------------------------------
(* poll(), connections, and answers made at once *)

\* Facts about the array and the objects that the steps below use.
LEMMA Ground ==
    ASSUME Inv
    PROVE  /\ pollFds \in Seq(PollFd) /\ Len(pollFds) \in Nat /\ DOMAIN pollFds = 1..Len(pollFds)
           /\ \A k \in 1..Len(pollFds) : pollFds[k] \in PollFd /\ pollFds[k].fd \in Fd
           /\ i \in Nat
           /\ NoFd \notin Fd
           /\ \A f \in Fd, a \in ClientAddr : clientMap[f] = a <=> clients[a].fd = f
           /\ \A f \in Fd : clientMap[f] # NULL => clientMap[f] \in ClientAddr
           /\ NULL \notin ClientAddr /\ NULL \notin CgiAddr
           /\ \A h \in CgiAddr, f \in Fd :
                 f = cgis[h].rfd \/ f = cgis[h].wfd =>
                    /\ f \in openFds /\ ~IsServer(f) /\ clientMap[f] = NULL
                    /\ cgis[h].rfd # cgis[h].wfd
                    /\ \A g \in CgiAddr : f = cgis[g].rfd \/ f = cgis[g].wfd => g = h
<1>1. pollFds \in Seq(PollFd) /\ i \in Nat
  BY DEF Inv, TypeOK
<1>2. \A k \in 1..Len(pollFds) : pollFds[k] \in PollFd
  BY <1>1, ElementOfSeq
<1>3. NoFd \notin Fd /\ NULL \notin ClientAddr /\ NULL \notin CgiAddr
  BY NullAssumption DEF Fd, NoFd
<1>4. /\ \A f \in Fd, a \in ClientAddr : clientMap[f] = a <=> clients[a].fd = f
      /\ \A f \in Fd : clientMap[f] # NULL => clientMap[f] \in ClientAddr
  BY DEF Inv, ClientMapExact, TypeOK
<1>5. ASSUME NEW h \in CgiAddr, NEW f \in Fd, f = cgis[h].rfd \/ f = cgis[h].wfd
      PROVE  /\ f \in openFds /\ ~IsServer(f) /\ clientMap[f] = NULL
             /\ cgis[h].rfd # cgis[h].wfd
             /\ \A g \in CgiAddr : f = cgis[g].rfd \/ f = cgis[g].wfd => g = h
  <2>1. f \in Ends(h) /\ \A g \in CgiAddr : f = cgis[g].rfd \/ f = cgis[g].wfd => f \in Ends(g)
    BY <1>3, <1>5 DEF Ends
  <2>2. \A a \in ClientAddr : clients[a].fd # f
    BY <2>1 DEF Inv, FdOwnership
  <2>3. QED
    BY <1>4, <2>1, <2>2 DEF Inv, FdOwnership
<1>6. QED
  BY <1>1, <1>2, <1>3, <1>4, <1>5, LenProperties DEF PollFd

\* poll() answers for every entry by its mask; a client whose script runs is there.
LEMMA PollStep ==
    ASSUME FirstRegime, Inv, Regular, Poll
    PROVE  Regular'
<1>1. /\ proc = "running" /\ Serving /\ Connections /\ Answers
      /\ UNCHANGED <<clientMap, maps, heap, openFds, net, ctl>> /\ i' = 1
  BY DEF Poll, Regular
<1>2. PICK ready \in SUBSET {f \in openFds : IsServer(f) \/ clientMap[f] # NULL},
           reset \in SUBSET {f \in openFds : clientMap[f] # NULL /\ MayDrop(clientMap[f])} :
        pollFds' = [k \in DOMAIN pollFds |->
                      [pollFds[k] EXCEPT !.revents = Revents(pollFds[k], ready, reset)]]
  BY DEF Poll
<1>3. DOMAIN pollFds' = DOMAIN pollFds
  BY <1>2
<1>4. \A k \in DOMAIN pollFds : /\ pollFds'[k].fd = pollFds[k].fd
                                /\ pollFds'[k].events = pollFds[k].events
                                /\ pollFds'[k].revents = Revents(pollFds[k], ready, reset)
                                /\ pollFds[k].fd \in Fd
  <2>1. \A k \in DOMAIN pollFds : pollFds[k] \in PollFd
    BY Ground
  <2>2. QED
    BY <1>2, <2>1 DEF PollFd
<1>5. /\ \A h : (LiveCgi(h)' <=> LiveCgi(h)) /\ (Served(h)' <=> Served(h))
      /\ \A a : (LiveClient(a)' <=> LiveClient(a)) /\ (Running(a)' <=> Running(a))
      /\ \A h, a : Serves(h, a)' <=> Serves(h, a)
      /\ \A f : Watched(f)' <=> Watched(f)
  BY <1>1 DEF LiveCgi, Served, Serves, LiveClient, Running, Watched, heap, ctl, maps
<1>6. Connections' /\ Answers'
  BY <1>1, <1>5, SameConnections, SameAnswers DEF net, heap
<1>7. Undisturbed' /\ Maps'
  BY <1>1, <1>5 DEF Serving, Undisturbed, Maps, heap, maps, ctl
<1>8. Watch'
  BY <1>1, <1>3, <1>4, <1>5 DEF Serving, Watch, heap, maps, Watched
<1>9. ASSUME NEW k \in DOMAIN pollFds
      PROVE  Masked(pollFds[k])' /\ Reported(pollFds[k])'
  <2> DEFINE e == pollFds[k]
             r == Revents(e, ready, reset)
  <2>1. Masked(e) /\ e.fd \in Fd
    BY <1>1, <1>4 DEF Serving, Entries
  <2>2. Masked(pollFds[k])'
    BY <1>1, <1>4, <1>5, <2>1 DEF Masked, heap
  <2> HIDE DEF e
  <2>3. /\ r \subseteq {e.events, "HUP", "ERR", "NVAL"}
        /\ "HUP" \in r => e.fd \in reset \/ \E h \in CgiAddr : cgis[h].rfd = e.fd
        /\ "ERR" \in r => \E h \in CgiAddr : cgis[h].wfd = e.fd
    BY DEF Revents, Condition
  <2> HIDE DEF r
  <2>4. \A a \in ClientAddr : clientMap[e.fd] = a =>
          /\ "IN" \in r => e.events = "IN"
          /\ "OUT" \in r => e.events = "OUT"
          /\ Running(a) => r \cap {"HUP", "ERR"} = {}
    <3> SUFFICES ASSUME NEW a \in ClientAddr, clientMap[e.fd] = a
                 PROVE  /\ "IN" \in r => e.events = "IN"
                        /\ "OUT" \in r => e.events = "OUT"
                        /\ Running(a) => r \cap {"HUP", "ERR"} = {}
      OBVIOUS
    <3>1. e.fd \in reset => ~Running(a)
      BY DEF MayDrop, FirstRegime
    <3>2. ~ \E h \in CgiAddr : cgis[h].rfd = e.fd \/ cgis[h].wfd = e.fd
      BY <2>1, Ground
    <3>3. QED
      BY <2>3, <3>1, <3>2
  <2>5. \A h \in CgiAddr : Served(h) =>
          /\ e.fd = cgis[h].rfd => "OUT" \notin r
          /\ e.fd = cgis[h].wfd => r \cap {"IN", "HUP"} = {}
    <3> SUFFICES ASSUME NEW h \in CgiAddr, Served(h)
                 PROVE  /\ e.fd = cgis[h].rfd => "OUT" \notin r
                        /\ e.fd = cgis[h].wfd => r \cap {"IN", "HUP"} = {}
      OBVIOUS
    <3>1. /\ e.fd = cgis[h].rfd => e.events = "IN"
          /\ e.fd = cgis[h].wfd => e.events = "OUT"
      BY <2>1 DEF Masked
    <3>2. e.fd = cgis[h].wfd => e.fd \notin reset /\ ~ \E g \in CgiAddr : cgis[g].rfd = e.fd
      BY <2>1, Ground
    <3>3. QED
      BY <2>3, <3>1, <3>2
  <2>6. Reported(pollFds[k])'
    BY <1>1, <1>4, <1>5, <2>4, <2>5 DEF Reported, heap, e, r
  <2>7. QED
    BY <2>2, <2>6
<1>10. Entries'
  BY <1>3, <1>9 DEF Entries
<1>11. QED
  BY <1>1, <1>6, <1>7, <1>8, <1>10 DEF Regular, Serving, ctl

\* accept(): a connection that nobody knows, on a descriptor that nobody has.
LEMMA AcceptStep ==
    ASSUME Inv, Regular, NewClient
    PROVE  Regular'
<1>1. PICK f \in Lowest(Free), a \in {b \in ClientAddr : ~LiveClient(b)} :
        /\ openFds' = openFds \cup {f}
        /\ pollFds' = Append(pollFds, Entry(f, "IN"))
        /\ clientMap' = [clientMap EXCEPT ![f] = a]
        /\ clients' = [clients EXCEPT ![a] =
                         [fd |-> f, conn |-> nextConn, resp |-> NoResp, late |-> FALSE]]
  BY DEF NewClient
<1>2. /\ proc = "running" /\ Serving /\ Connections /\ Answers
      /\ UNCHANGED <<maps, cgis, child, wire, ctl>> /\ i' = i + 1 /\ nextConn' = nextConn + 1
      /\ nextConn \in Conns /\ nextConn \in Nat
  BY DEF NewClient, Visit, Regular, Inv, TypeOK, Conns
<1>3. f \in Fd /\ f \notin openFds /\ a \in ClientAddr /\ clients[a].fd = NoFd
  BY <1>1 DEF Lowest, Free, LiveClient
<1>4. /\ clientMap[f] = NULL /\ ~IsServer(f)
      /\ \A h \in CgiAddr : f # cgis[h].rfd /\ f # cgis[h].wfd
      /\ \A b \in ClientAddr : clients[b].fd # f
  BY <1>3, Ground DEF Inv, FdOwnership
<1>5. cgiFdToHandler[f] = NULL
  BY <1>2, <1>3, <1>4 DEF Serving, Maps, Served, LiveCgi
<1>6. /\ \A b \in ClientAddr : clients'[b] = IF b = a
                                             THEN [fd |-> f, conn |-> nextConn, resp |-> NoResp, late |-> FALSE]
                                             ELSE clients[b]
      /\ \A g \in Fd : clientMap'[g] = IF g = f THEN a ELSE clientMap[g]
  BY <1>1, <1>3 DEF Inv, TypeOK
<1>7. /\ \A h : (LiveCgi(h)' <=> LiveCgi(h)) /\ (Served(h)' <=> Served(h))
      /\ \A b : b # a => (LiveClient(b)' <=> LiveClient(b))
      /\ ~LiveClient(a)
      /\ \A b \in ClientAddr : b # a => /\ Running(b)' <=> Running(b)
                                        /\ \A h \in CgiAddr : Serves(h, b)' <=> Serves(h, b)
  BY <1>1, <1>2, <1>6 DEF LiveCgi, Served, Serves, Running, LiveClient, ctl
<1>8. Connections'
  <2>1. \A b \in ClientAddr : b # a /\ LiveClient(b) => clients[b].conn \in Nat /\ clients[b].conn < nextConn
    BY <1>2, LiveObjects DEF Connections, Inv, Client, Conns
  <2>2. ASSUME NEW h \in CgiAddr, LiveCgi(h)
        PROVE  cgis[h].conn \in Nat /\ cgis[h].conn < nextConn
    <3>1. cgis[h].conn \in Conns
      BY <2>2, LiveObjects DEF Inv, Cgi
    <3>2. QED
      BY <1>2, <2>2, <3>1 DEF Connections, Conns
  <2>3. /\ clients'[a].conn = nextConn
        /\ \A b \in ClientAddr : b # a /\ LiveClient(b)' =>
              LiveClient(b) /\ clients'[b].conn = clients[b].conn
    BY <1>6, <1>7
  <2>4. \A b \in ClientAddr : LiveClient(b)' => clients'[b].conn < nextConn'
    BY <1>2, <2>1, <2>3
  <2>5. \A b, c \in ClientAddr :
           LiveClient(b)' /\ LiveClient(c)' /\ clients'[b].conn = clients'[c].conn => b = c
    BY <1>2, <2>1, <2>3 DEF Connections
  <2>6. \A h \in CgiAddr : LiveCgi(h)' => LiveCgi(h) /\ cgis'[h].conn < nextConn'
    BY <1>2, <1>7, <2>2
  <2>7. \A g, h \in CgiAddr : LiveCgi(g)' /\ LiveCgi(h)' /\ cgis'[g].conn = cgis'[h].conn => g = h
    BY <1>2, <1>7 DEF Connections
  <2>8. QED
    BY <2>4, <2>5, <2>6, <2>7 DEF Connections
<1>9. Answers'
  <2>1. wire[nextConn] = {} /\ \A c \in Conns : c \in Nat
    BY <1>2 DEF Answers, Conns
  <2>2. ASSUME NEW b \in ClientAddr, LiveClient(b)'
        PROVE  /\ clients'[b].resp # NoResp => clients'[b].resp.for = clients'[b].conn
               /\ wire'[clients'[b].conn] \subseteq {clients'[b].resp} \ {NoResp}
    <3>1. CASE b = a
      BY <1>2, <1>6, <2>1, <3>1
    <3>2. CASE b # a
      BY <1>2, <1>6, <1>7, <2>2, <3>2 DEF Answers
    <3>3. QED
      BY <3>1, <3>2
  <2>3. QED
    BY <1>2, <2>1, <2>2 DEF Answers
<1>10. Undisturbed'
  BY <1>2, <1>6, <1>7 DEF Serving, Undisturbed
<1>11. Maps'
  <2>1. ASSUME NEW g \in Fd, cgiFdToHandler[g] # NULL
        PROVE  /\ LiveClient(cgiFdToClient[g])'
               /\ clients'[cgiFdToClient[g]] = clients[cgiFdToClient[g]]
    <3>1. LiveClient(cgiFdToClient[g])
      BY <1>2, <2>1 DEF Serving, Maps
    <3>2. cgiFdToClient[g] \in ClientAddr /\ cgiFdToClient[g] # a
      BY <1>7, <3>1 DEF LiveClient
    <3>3. QED
      BY <1>2, <1>6, <3>1, <3>2 DEF LiveClient, maps
  <2>2. QED
    BY <1>2, <1>7, <2>1 DEF Serving, Maps, maps
<1>12. /\ Len(pollFds) \in Nat /\ DOMAIN pollFds = 1..Len(pollFds)
       /\ DOMAIN pollFds' = 1..(Len(pollFds) + 1)
       /\ \A k \in 1..Len(pollFds) : pollFds'[k] = pollFds[k]
       /\ pollFds'[Len(pollFds) + 1] = Entry(f, "IN")
  <2>1. Entry(f, "IN") \in PollFd
    BY <1>3 DEF Entry, PollFd, Mask
  <2>2. QED
    BY <1>1, <2>1, Ground, AppendProperties
<1>13. /\ \A k \in 1..Len(pollFds) : pollFds[k].fd # f /\ pollFds[k].fd \in Fd
       /\ Entry(f, "IN").fd = f /\ Entry(f, "IN").events = "IN" /\ Entry(f, "IN").revents = {}
  BY <1>2, <1>4, <1>5, <1>12, Ground DEF Serving, Watch, Watched, Entry
<1>14. Watch'
  <2>0. \A g \in Fd : Watched(g)' <=> Watched(g) \/ g = f
    BY <1>2, <1>3, <1>4, <1>6, NullAssumption DEF Watched, maps
  <2>1. ASSUME NEW g \in Fd, Watched(g)'
        PROVE  \E k \in DOMAIN pollFds' : pollFds'[k].fd = g
    <3>1. CASE g = f
      BY <1>12, <1>13, <3>1
    <3>2. CASE g # f
      <4>1. PICK k \in DOMAIN pollFds : pollFds[k].fd = g
        BY <1>2, <2>0, <2>1, <3>2 DEF Serving, Watch
      <4>2. QED
        BY <1>12, <4>1
    <3>3. QED
      BY <3>1, <3>2
  <2>2. ASSUME NEW k \in DOMAIN pollFds'
        PROVE  Watched(pollFds[k].fd)'
    <3>1. \A g \in Fd : g = pollFds'[k].fd => Watched(g) \/ g = f
      BY <1>2, <1>12, <1>13 DEF Serving, Watch
    <3>2. \A g \in Fd : g = pollFds'[k].fd => Watched(g)'
      BY <2>0, <3>1
    <3>3. pollFds'[k].fd \in Fd
      BY <1>3, <1>12, <1>13
    <3>4. QED
      BY <3>2, <3>3 DEF Watched
  <2>3. \A j, k \in DOMAIN pollFds' : pollFds'[j].fd = pollFds'[k].fd => j = k
    BY <1>2, <1>12, <1>13 DEF Serving, Watch
  <2>4. ASSUME NEW h \in CgiAddr, NEW j \in DOMAIN pollFds', NEW k \in DOMAIN pollFds', Served(h),
               pollFds'[j].fd = cgis[h].rfd, pollFds'[k].fd = cgis[h].wfd
        PROVE  j < k
    <3>1. j \in DOMAIN pollFds /\ k \in DOMAIN pollFds
      BY <1>4, <1>12, <1>13, <2>4
    <3>2. QED
      BY <1>2, <1>12, <2>4, <3>1 DEF Serving, Watch
  <2>5. QED
    BY <1>2, <1>7, <2>1, <2>2, <2>3, <2>4 DEF Watch
<1>15. Entries'
  <2> SUFFICES ASSUME NEW k \in DOMAIN pollFds'
               PROVE  Masked(pollFds[k])' /\ (0 < i' /\ i' <= k => Reported(pollFds[k])')
    BY DEF Entries
  <2>1. CASE k \in 1..Len(pollFds)
    <3>1. /\ Masked(pollFds[k]) /\ (0 < i /\ i <= k => Reported(pollFds[k]))
          /\ pollFds'[k] = pollFds[k] /\ k \in Nat /\ i \in Nat /\ i > 0
      BY <1>2, <1>12, <2>1, AtVisit DEF Serving, Entries, NewClient
    <3>2. 0 < i' /\ i' <= k => Reported(pollFds[k])
      BY <1>2, <3>1
    <3>3. clientMap'[pollFds[k].fd] = clientMap[pollFds[k].fd] /\ clientMap[pollFds[k].fd] # a
      BY <1>3, <1>6, <1>13, <2>1, Ground
    <3>4. Masked(pollFds[k])'
      BY <1>2, <1>6, <1>7, <3>1, <3>3 DEF Masked
    <3>5. Reported(pollFds[k]) => Reported(pollFds[k])'
      BY <1>2, <1>6, <1>7, <3>1, <3>3 DEF Reported
    <3>6. QED
      BY <3>2, <3>4, <3>5
  <2>2. CASE k = Len(pollFds) + 1
    <3>1. pollFds'[k] = Entry(f, "IN") /\ clientMap'[f] = a
      BY <1>3, <1>6, <1>12, <2>2
    <3>2. ~ \E h \in CgiAddr : Serves(h, a)'
      BY <1>2, <1>3, <1>6, <1>7, LiveObjects DEF Serves, Connections, Served, Inv, Cgi, Conns
    <3>3. Masked(pollFds[k])'
      BY <1>2, <1>3, <1>4, <1>6, <1>13, <3>1, <3>2 DEF Masked
    <3>4. Reported(pollFds[k])'
      BY <1>13, <3>1 DEF Reported
    <3>5. QED
      BY <3>3, <3>4
  <2>3. QED
    BY <1>12, <2>1, <2>2
<1>16. QED
  BY <1>2, <1>8, <1>9, <1>10, <1>11, <1>14, <1>15 DEF Regular, Serving, ctl

\* handleClientDisconnected: one entry and one client fewer; no script works for it.
LEMMA DisconnectStep ==
    ASSUME Inv, Regular,
           ClientTimeout \/ ClientError \/ ClientGone \/ ClientWriteFails \/ ClientWriteRest
    PROVE  Regular'
<1> DEFINE a == clientMap[fd]
           f == fd
<1>1. PICK b \in {"clientTimeout", "error", "clientRead", "clientWrite"} : Visit(b) /\ Disconnect
  BY DEF ClientTimeout, ClientError, ClientGone, ClientWriteFails, ClientWriteRest
<1>2. /\ a \in ClientAddr /\ LiveClient(a) /\ clients[a].fd = f
      /\ cgiFdToHandler[f] = NULL /\ ~Running(a)
  BY <1>1, VisitClient
<1>3. f \in Fd /\ ~IsServer(f) /\ i \in 1..Len(pollFds) /\ i \in Nat /\ f = pollFds[i].fd
  BY <1>1, AtVisit DEF fd
<1>4. /\ proc = "running" /\ Serving /\ Connections /\ Answers
      /\ UNCHANGED <<maps, cgis, child, nextConn, ctl>>
      /\ pollFds' = RemoveAt(pollFds, i) /\ i' = AfterErase
      /\ clientMap' = [clientMap EXCEPT ![f] = NULL]
      /\ clients' = [clients EXCEPT ![a] = NoClient]
  BY <1>1, <1>2, Ground DEF Visit, Regular, Disconnect, ForgetClient
<1> HIDE DEF a, f
<1>5. /\ \A c \in ClientAddr : clients'[c] = IF c = a THEN NoClient ELSE clients[c]
      /\ \A g \in Fd : clientMap'[g] = IF g = f THEN NULL ELSE clientMap[g]
  BY <1>2, <1>3, <1>4 DEF Inv, TypeOK
<1>6. /\ \A h : (LiveCgi(h)' <=> LiveCgi(h)) /\ (Served(h)' <=> Served(h))
      /\ \A c : LiveClient(c)' <=> c # a /\ LiveClient(c)
      /\ \A c \in ClientAddr : c # a => /\ Running(c)' <=> Running(c)
                                        /\ \A h \in CgiAddr : Serves(h, c)' <=> Serves(h, c)
  BY <1>2, <1>4, <1>5 DEF LiveCgi, Served, Serves, Running, LiveClient, ctl, NoClient
<1>7. Connections'
  BY <1>4, <1>5, <1>6, SameConnections
<1>8. Answers'
  <2>1. CASE ~ClientWriteRest
    <3>1. UNCHANGED wire
      BY <2>1 DEF ClientTimeout, ClientError, ClientGone, ClientWriteFails
    <3>2. QED
      BY <1>4, <1>5, <1>6, <3>1, SameAnswers
  <2>2. CASE ClientWriteRest
    <3> DEFINE r == clients[a].resp
               n == clients[a].conn
    <3>1. n \in Conns /\ n < nextConn /\ (r # NoResp => r.for = n) /\ wire[n] \subseteq {r} \ {NoResp}
      BY <1>2, <1>4, LiveObjects DEF Connections, Answers, Inv, Client
    <3>2. wire' = IF r = NoResp THEN wire ELSE [wire EXCEPT ![n] = wire[n] \cup {r}]
      BY <2>2 DEF ClientWriteRest, Sent, a
    <3>3. \A d \in Conns : wire'[d] = IF d = n /\ r # NoResp THEN {r} ELSE wire[d]
      BY <3>1, <3>2 DEF Inv, TypeOK
    <3>4. \A c \in ClientAddr : c # a /\ LiveClient(c) => clients[c].conn # n /\ clients[c].conn \in Conns
      BY <1>2, <1>4, LiveObjects DEF Connections, Inv, Client
    <3> HIDE DEF r, n
    <3>5. ASSUME NEW c \in ClientAddr, LiveClient(c)'
          PROVE  /\ clients'[c].resp # NoResp => clients'[c].resp.for = clients'[c].conn
                 /\ wire'[clients'[c].conn] \subseteq {clients'[c].resp} \ {NoResp}
      <4>1. c # a /\ LiveClient(c) /\ clients'[c] = clients[c]
        BY <1>5, <1>6, <3>5
      <4>2. wire'[clients[c].conn] = wire[clients[c].conn]
        BY <3>3, <3>4, <4>1
      <4>3. QED
        BY <1>4, <4>1, <4>2 DEF Answers
    <3>6. ASSUME NEW d \in Conns
          PROVE  /\ \A s \in wire'[d] : s.for = d
                 /\ \A s, t \in wire'[d] : s = t
                 /\ d >= nextConn => wire'[d] = {}
      <4>1. n \in Nat /\ nextConn \in Nat
        BY <3>1 DEF Conns, Inv, TypeOK
      <4>2. CASE d = n /\ r # NoResp
        BY <3>1, <3>3, <4>1, <4>2
      <4>3. CASE ~(d = n /\ r # NoResp)
        BY <1>4, <3>3, <4>3 DEF Answers
      <4>4. QED
        BY <4>2, <4>3
    <3>7. QED
      BY <1>4, <3>5, <3>6 DEF Answers
  <2>3. QED
    BY <2>1, <2>2
<1>9. Undisturbed'
  BY <1>4, <1>5, <1>6 DEF Serving, Undisturbed
<1>10. Maps'
  <2>1. ASSUME NEW g \in Fd, cgiFdToHandler[g] # NULL
        PROVE  /\ LiveClient(cgiFdToClient[g])'
               /\ clients'[cgiFdToClient[g]] = clients[cgiFdToClient[g]]
    <3>1. /\ Served(cgiFdToHandler[g]) /\ LiveClient(cgiFdToClient[g])
          /\ clients[cgiFdToClient[g]].conn = cgis[cgiFdToHandler[g]].conn
      BY <1>4, <2>1 DEF Serving, Maps
    <3>2. cgiFdToClient[g] # a
      BY <1>2, <3>1 DEF Running, Served, LiveCgi
    <3>3. QED
      BY <1>4, <1>5, <3>1, <3>2 DEF LiveClient, maps
  <2>2. QED
    BY <1>4, <1>6, <2>1 DEF Serving, Maps, maps
<1>11. Watch' /\ Entries'
  <2>1. Thinned(pollFds, pollFds', {f}, NoFd)
    <3>1. Once(pollFds)
      BY <1>4, Ground DEF Serving, Watch, Once
    <3>2. QED
      BY <1>3, <1>4, <3>1, Ground, ThinnedRemove
  <2>2. \A g \in Fd : Watched(g)' <=> Watched(g) /\ g \notin {f}
    BY <1>2, <1>3, <1>4, <1>5 DEF Watched, maps
  <2>3. 0 < i /\ i' \in Nat /\ i <= i'
    BY <1>3, <1>4 DEF AfterErase
  <2>4. \A g \in Fd \ {f} : \A c \in ClientAddr : g # NoFd /\ clientMap'[g] = c =>
              /\ clientMap[g] = c
              /\ clients'[c].resp = clients[c].resp
              /\ \A h \in CgiAddr : Serves(h, c)' <=> Serves(h, c)
              /\ Running(c)' => Running(c)
    <3> SUFFICES ASSUME NEW g \in Fd \ {f}, NEW c \in ClientAddr, clientMap'[g] = c
                 PROVE  /\ clientMap[g] = c
                        /\ clients'[c].resp = clients[c].resp
                        /\ \A h \in CgiAddr : Serves(h, c)' <=> Serves(h, c)
                        /\ Running(c)' => Running(c)
      OBVIOUS
    <3>1. clientMap[g] = c
      BY <1>5
    <3>2. c # a
      BY <1>2, <3>1, Ground
    <3>3. QED
      BY <1>5, <1>6, <3>1, <3>2
  <2>5. \A e \in PollFd : e.fd # NoFd
    BY DEF PollFd, Fd, NoFd
  <2>6. Watch /\ Entries /\ i \in Nat /\ pollFds \in Seq(PollFd)
    BY <1>4, Ground DEF Serving
  <2>7. \A h \in CgiAddr : Served(h)' => /\ Served(h)
                                         /\ cgis'[h].rfd = cgis[h].rfd
                                         /\ cgis'[h].wfd = cgis[h].wfd
    BY <1>4, <1>6
  <2>8. QED
    BY <2>1, <2>2, <2>3, <2>4, <2>5, <2>6, <2>7, ThinnedServing
<1>12. QED
  BY <1>4, <1>7, <1>8, <1>9, <1>10, <1>11 DEF Regular, Serving, ctl

\* A response for a client that has none yet: its connection has carried nothing.
LEMMA ResponseMade ==
    ASSUME Inv, Answers, NEW a, LiveClient(a), clients[a].resp = NoResp,
           NEW code \in {"direct", "cgi", "500", "504"},
           clients' = SetResponse(a, clients[a].conn, code), UNCHANGED <<nextConn, wire>>
    PROVE  /\ Answers'
           /\ \A b \in ClientAddr : /\ clients'[b].fd = clients[b].fd
                                    /\ clients'[b].conn = clients[b].conn
                                    /\ clients'[b].late = clients[b].late
                                    /\ b # a => clients'[b] = clients[b]
           /\ clients'[a].resp # NoResp
<1> DEFINE r == [for |-> clients[a].conn, code |-> code]
<1>1. a \in ClientAddr /\ clients[a] \in Client /\ clients[a].conn \in Conns
  BY LiveObjects DEF LiveClient, Inv, Client
<1>2. r \in Response /\ r # NoResp /\ r.for = clients[a].conn
  BY <1>1 DEF Response, NoResp
<1> HIDE DEF r
<1>3. clients' = [clients EXCEPT ![a].resp = r]
  BY DEF SetResponse, r
<1>4. /\ \A b \in ClientAddr : /\ clients'[b].fd = clients[b].fd
                               /\ clients'[b].conn = clients[b].conn
                               /\ clients'[b].late = clients[b].late
                               /\ b # a => clients'[b] = clients[b]
      /\ clients'[a].resp = r
  BY <1>1, <1>3 DEF Inv, TypeOK, Client
<1>5. \A b : LiveClient(b)' <=> LiveClient(b)
  BY <1>4 DEF LiveClient
<1>6. wire[clients[a].conn] = {}
  BY <1>1 DEF Answers
<1>7. Answers'
  BY <1>1, <1>2, <1>4, <1>5, <1>6 DEF Answers
<1>8. QED
  BY <1>2, <1>4, <1>7

\* A request answered at once: its client has a response and is watched for output.
LEMMA AnswerStep ==
    ASSUME Inv, Regular, ReadAnswered
    PROVE  Regular'
<1> DEFINE a == clientMap[fd]
           f == fd
<1>1. /\ Visit("clientRead") /\ clients' = SetResponse(a, clients[a].conn, "direct")
      /\ pollFds' = [pollFds EXCEPT ![i].events = "OUT"] /\ i' = i + 1
      /\ UNCHANGED <<clientMap, maps, cgis, child, openFds, net, ctl>>
  BY DEF ReadAnswered, Respond
<1>2. /\ a \in ClientAddr /\ LiveClient(a) /\ clients[a].fd = f
      /\ cgiFdToHandler[f] = NULL /\ ~Running(a) /\ clients[a].resp = NoResp
  BY <1>1, VisitClient
<1>3. f \in Fd /\ ~IsServer(f) /\ i \in 1..Len(pollFds) /\ i \in Nat /\ f = pollFds[i].fd
  BY <1>1, AtVisit DEF fd
<1>4. proc = "running" /\ waiting = NULL /\ Serving /\ Connections /\ Answers
  BY <1>1 DEF Visit, Regular
<1>5. clientMap[f] = a
  OBVIOUS
<1> HIDE DEF a, f
<1>6. /\ Answers'
      /\ \A b \in ClientAddr : /\ clients'[b].fd = clients[b].fd
                               /\ clients'[b].conn = clients[b].conn
                               /\ clients'[b].late = clients[b].late
                               /\ b # a => clients'[b] = clients[b]
      /\ clients'[a].resp # NoResp
  BY <1>1, <1>2, <1>4, ResponseMade DEF net
<1>7. /\ \A h : (LiveCgi(h)' <=> LiveCgi(h)) /\ (Served(h)' <=> Served(h))
      /\ \A b : LiveClient(b)' <=> LiveClient(b)
      /\ \A b \in ClientAddr : /\ Running(b)' <=> Running(b)
                               /\ \A h \in CgiAddr : Serves(h, b)' <=> Serves(h, b)
  BY <1>1, <1>6 DEF LiveCgi, Served, Serves, Running, LiveClient, ctl
<1>8. Connections'
  BY <1>1, <1>4, <1>6, <1>7, SameConnections DEF net
<1>9. Undisturbed' /\ Maps'
  BY <1>1, <1>4, <1>6, <1>7 DEF Serving, Undisturbed, Maps, maps, LiveClient
<1>10. Watch' /\ Entries'
  <2>1. Thinned(pollFds, pollFds', {}, f)
    <3>1. Once(pollFds)
      BY <1>4, Ground DEF Serving, Watch, Once
    <3> DEFINE e == [pollFds[i] EXCEPT !.events = "OUT"]
    <3>2. pollFds[i] \in PollFd /\ e \in PollFd /\ e.fd = f /\ e.events = "OUT"
           /\ e.revents = pollFds[i].revents
      <4>1. pollFds[i] \in PollFd
        BY <1>3, Ground
      <4>2. QED
        BY <1>3, <4>1 DEF PollFd, Mask
    <3>3. pollFds' = [pollFds EXCEPT ![i] = e]
      BY <1>1
    <3> HIDE DEF e
    <3>4. /\ pollFds' \in Seq(PollFd) /\ Len(pollFds') = Len(pollFds)
          /\ \A k \in 1..Len(pollFds) : pollFds'[k] = IF k = i THEN e ELSE pollFds[k]
      BY <1>3, <3>2, <3>3, Ground, ExceptSeq
    <3>5. \A k \in 1..Len(pollFds) : pollFds[k].fd = f => k = i
      BY <1>3, <3>1 DEF Once
    <3>6. QED
      BY <1>3, <3>2, <3>4, <3>5, Ground, ThinnedMask
  <2>2. \A g \in Fd : Watched(g)' <=> Watched(g) /\ g \notin {}
    BY <1>1 DEF Watched, maps
  <2>3. 0 < i /\ i' \in Nat /\ i <= i'
    BY <1>1, <1>3
  <2>4. \A g \in Fd \ {} : \A c \in ClientAddr : g # f /\ clientMap'[g] = c =>
              /\ clientMap[g] = c
              /\ clients'[c].resp = clients[c].resp
              /\ \A h \in CgiAddr : Serves(h, c)' <=> Serves(h, c)
              /\ Running(c)' => Running(c)
    <3> SUFFICES ASSUME NEW g \in Fd, NEW c \in ClientAddr, g # f, clientMap[g] = c
                 PROVE  clients'[c].resp = clients[c].resp
      BY <1>1, <1>7
    <3>1. c # a
      BY <1>2, Ground
    <3>2. QED
      BY <1>6, <3>1
  <2>5. \A e \in PollFd : e.fd = f /\ e.events = "OUT" => Masked(e)'
    <3> SUFFICES ASSUME NEW e \in PollFd, e.fd = f, e.events = "OUT"
                 PROVE  Masked(e)'
      OBVIOUS
    <3>1. \A h \in CgiAddr : cgis[h].rfd # f /\ cgis[h].wfd # f
      BY <1>2, <1>3, <1>5, Ground
    <3>2. \A h \in CgiAddr : ~Serves(h, a)
      BY <1>2 DEF Serves, Served, Running, LiveCgi
    <3>3. \A c \in ClientAddr : clientMap'[e.fd] = c =>
             clients'[c].resp # NoResp /\ \A h \in CgiAddr : ~Serves(h, c)'
      BY <1>1, <1>5, <1>6, <1>7, <3>2
    <3>4. QED
      BY <1>1, <3>1, <3>3 DEF Masked
  <2>6. \A k \in 1..Len(pollFds) : pollFds[k].fd = f => ~(i' <= k)
    BY <1>1, <1>3, <1>4, Ground DEF Serving, Watch
  <2>7. Watch /\ Entries /\ i \in Nat /\ pollFds \in Seq(PollFd)
    BY <1>4, Ground DEF Serving
  <2>8. \A h \in CgiAddr : Served(h)' => /\ Served(h)
                                         /\ cgis'[h].rfd = cgis[h].rfd
                                         /\ cgis'[h].wfd = cgis[h].wfd
    BY <1>1, <1>7
  <2>9. QED
    BY <2>1, <2>2, <2>3, <2>4, <2>5, <2>6, <2>7, <2>8, ThinnedServing
<1>11. QED
  BY <1>1, <1>4, <1>6, <1>8, <1>9, <1>10 DEF Regular, Serving, ctl

-----------------------------------------------------------------------------
(* Scripts *)

\* A free descriptor is nobody's, and so has no entry.
LEMMA FreeUnwatched ==
    ASSUME Inv, Serving, NEW f \in Free
    PROVE  /\ f \in Fd /\ ~Watched(f)
           /\ \A h \in CgiAddr : f # cgis[h].rfd /\ f # cgis[h].wfd
           /\ \A k \in DOMAIN pollFds : pollFds[k].fd # f
<1>1. f \in Fd /\ f \notin openFds
  BY DEF Free
<1>2. /\ ~IsServer(f) /\ \A a \in ClientAddr : clients[a].fd # f
      /\ \A h \in CgiAddr : f # cgis[h].rfd /\ f # cgis[h].wfd
  BY <1>1, Ground DEF Inv, FdOwnership
<1>3. clientMap[f] = NULL
  BY <1>1, <1>2, Ground
<1>4. cgiFdToHandler[f] = NULL
  BY <1>1, <1>2 DEF Serving, Maps, Served, LiveCgi
<1>5. QED
  BY <1>1, <1>2, <1>3, <1>4 DEF Watched, Serving, Watch

\* registerCGI: the client's entry is paused, the entries of the pipes are last.
LEMMA RegisterEntries ==
    ASSUME Inv, NEW a, NEW h, NEW H \in Cgi, i \in 1..Len(pollFds), H.rfd \in Fd, Register(a, h, H)
    PROVE  LET n == Len(pollFds) IN
           /\ DOMAIN pollFds' = 1..(IF H.wfd = NoFd THEN n + 1 ELSE n + 2)
           /\ \A k \in 1..n : k # i => pollFds'[k] = pollFds[k]
           /\ pollFds'[i].fd = pollFds[i].fd /\ pollFds'[i].events = "PAUSE"
           /\ pollFds'[n + 1] = Entry(H.rfd, "IN")
           /\ H.wfd # NoFd => pollFds'[n + 2] = Entry(H.wfd, "OUT")
<1> DEFINE n == Len(pollFds)
           q == IF H.wfd = NoFd THEN <<Entry(H.rfd, "IN")>>
                ELSE <<Entry(H.rfd, "IN"), Entry(H.wfd, "OUT")>>
           e == [pollFds[i] EXCEPT !.events = "PAUSE"]
<1>1. pollFds[i] \in PollFd /\ n \in Nat /\ pollFds \in Seq(PollFd)
  BY Ground
<1>2. e \in PollFd /\ e.fd = pollFds[i].fd /\ e.events = "PAUSE"
  BY <1>1 DEF PollFd, Mask
<1>3. Paused = [pollFds EXCEPT ![i] = e] /\ pollFds' = Paused \o q
  BY DEF Paused, Register
<1> HIDE DEF e
<1>4. /\ Paused \in Seq(PollFd) /\ Len(Paused) = n
      /\ \A k \in 1..n : Paused[k] = IF k = i THEN e ELSE pollFds[k]
  BY <1>1, <1>2, <1>3, ExceptSeq
<1>5. /\ q \in Seq(PollFd) /\ Len(q) = (IF H.wfd = NoFd THEN 1 ELSE 2)
      /\ q[1] = Entry(H.rfd, "IN") /\ (H.wfd # NoFd => q[2] = Entry(H.wfd, "OUT"))
  <2>1. Entry(H.rfd, "IN") \in PollFd /\ (H.wfd # NoFd => Entry(H.wfd, "OUT") \in PollFd)
    BY DEF Entry, PollFd, Mask, Cgi
  <2>2. QED
    BY <2>1
<1> HIDE DEF q
<1>6. /\ Paused \o q \in Seq(PollFd) /\ Len(Paused \o q) = n + Len(q)
      /\ \A k \in 1..(n + Len(q)) : (Paused \o q)[k] = IF k <= n THEN Paused[k] ELSE q[k - n]
  <2>1. \A x, y \in Seq(PollFd) :
          /\ x \o y \in Seq(PollFd) /\ Len(x \o y) = Len(x) + Len(y)
          /\ \A k \in 1..(Len(x) + Len(y)) :
                (x \o y)[k] = IF k <= Len(x) THEN x[k] ELSE y[k - Len(x)]
    BY ConcatProperties
  <2>2. Paused \in Seq(PollFd) /\ q \in Seq(PollFd) /\ Len(Paused) = n
    BY <1>4, <1>5
  <2> HIDE DEF n
  <2>3. /\ Paused \o q \in Seq(PollFd) /\ Len(Paused \o q) = Len(Paused) + Len(q)
        /\ \A k \in 1..(Len(Paused) + Len(q)) :
              (Paused \o q)[k] = IF k <= Len(Paused) THEN Paused[k] ELSE q[k - Len(Paused)]
    BY <2>1, <2>2
  <2>4. QED
    BY <2>2, <2>3
<1>7. DOMAIN pollFds' = 1..(n + Len(q))
  BY <1>3, <1>6, LenProperties
<1>8. \A k \in 1..n : pollFds'[k] = Paused[k]
  BY <1>1, <1>3, <1>5, <1>6
<1>9. pollFds'[n + 1] = q[1]
  BY <1>1, <1>3, <1>5, <1>6
<1>10. H.wfd # NoFd => pollFds'[n + 2] = q[2]
  BY <1>1, <1>3, <1>5, <1>6
<1>11. QED
  BY <1>1, <1>2, <1>4, <1>5, <1>7, <1>8, <1>9, <1>10

\* A script starts: its client, who has no other, is paused, its pipes are watched.
LEMMA StartStep ==
    ASSUME FirstRegime, Inv, Regular, StartCGIGet \/ StartCGIPost
    PROVE  Regular'
<1>1. PICK h \in CgiAddr, H \in Cgi :
        /\ ~LiveCgi(h)
        /\ H.rfd \in Free /\ H.wfd \in Free \cup {NoFd} /\ H.rfd # H.wfd
        /\ H.conn = clients[clientMap[fd]].conn
        /\ H.wfd # NoFd => H.body = 0 /\ ~H.error
        /\ Register(clientMap[fd], h, H)
  BY StartEffect DEF Started, FirstRegime
<1>2. PICK a \in ClientAddr, f \in Fd : a = clientMap[fd] /\ f = fd
  BY StartEffect, AtVisit
<1>3. /\ Visit("clientRead") /\ LiveClient(a) /\ clients[a].fd = f /\ clientMap[f] = a
      /\ cgiFdToHandler[f] = NULL /\ ~Running(a) /\ clients[a].resp = NoResp
  BY <1>2, StartEffect, VisitClient
<1>4. i \in 1..Len(pollFds) /\ i \in Nat /\ f = pollFds[i].fd
  BY <1>2, <1>3, AtVisit DEF fd
<1>5. /\ proc = "running" /\ waiting = NULL /\ Serving /\ Connections /\ Answers
      /\ UNCHANGED <<clientMap, net, ctl>> /\ i' = i + 1
      /\ clients' = [clients EXCEPT ![a].late = FALSE]
      /\ cgis' = [cgis EXCEPT ![h] = H]
      /\ cgiFdToHandler' = [g \in Fd |-> IF g \in {H.rfd, H.wfd} THEN h ELSE cgiFdToHandler[g]]
      /\ cgiFdToClient' = [g \in Fd |-> IF g \in {H.rfd, H.wfd} THEN a ELSE cgiFdToClient[g]]
      /\ cgiStartTime' = [cgiStartTime EXCEPT ![H.rfd] = "fresh"]
  BY <1>1, <1>2, <1>3 DEF Visit, Regular, Register
<1>6. /\ H.rfd \in Fd /\ ~Watched(H.rfd)
      /\ \A g \in CgiAddr : H.rfd # cgis[g].rfd /\ H.rfd # cgis[g].wfd
      /\ \A k \in DOMAIN pollFds : pollFds[k].fd # H.rfd
  BY <1>1, <1>5, FreeUnwatched
<1>7. H.wfd # NoFd =>
      /\ H.wfd \in Fd /\ ~Watched(H.wfd)
      /\ \A g \in CgiAddr : H.wfd # cgis[g].rfd /\ H.wfd # cgis[g].wfd
      /\ \A k \in DOMAIN pollFds : pollFds[k].fd # H.wfd
  BY <1>1, <1>5, FreeUnwatched
<1>8. /\ \A b \in ClientAddr : /\ clients'[b].fd = clients[b].fd
                               /\ clients'[b].conn = clients[b].conn
                               /\ clients'[b].resp = clients[b].resp
                               /\ b # a => clients'[b] = clients[b]
      /\ ~clients'[a].late
  BY <1>3, <1>5, LiveObjects DEF Inv, TypeOK, Client
<1>9. \A g \in CgiAddr : cgis'[g] = IF g = h THEN H ELSE cgis[g]
  BY <1>5 DEF Inv, TypeOK
<1>10. H.live /\ h # NULL /\ NoFd \notin Fd
  BY Ground DEF Cgi
<1>11. /\ \A b : LiveClient(b)' <=> LiveClient(b)
       /\ \A g : LiveCgi(g)' <=> LiveCgi(g) \/ g = h
       /\ \A g : Served(g)' <=> Served(g) \/ g = h
       /\ \A g : Served(g) => g \in CgiAddr /\ g # h
  BY <1>1, <1>5, <1>8, <1>9, <1>10 DEF LiveClient, LiveCgi, Served, ctl
<1>12. \A b \in ClientAddr : LiveClient(b) /\ clients[b].conn = clients[a].conn => b = a
  BY <1>3, <1>5 DEF Connections
<1>13. \A g \in CgiAddr : LiveCgi(g) => cgis[g].conn # clients[a].conn
  BY <1>3 DEF Running, LiveCgi
<1>14. \A b \in ClientAddr : LiveClient(b) /\ b # a =>
          /\ Running(b)' => Running(b)
          /\ \A g \in CgiAddr : Serves(g, b)' <=> Serves(g, b)
  <2> SUFFICES ASSUME NEW b \in ClientAddr, LiveClient(b), b # a
               PROVE  /\ Running(b)' => Running(b)
                      /\ \A g \in CgiAddr : Serves(g, b)' <=> Serves(g, b)
    OBVIOUS
  <2>1. H.conn # clients[b].conn /\ clients'[b].conn = clients[b].conn
    BY <1>1, <1>2, <1>8, <1>12
  <2>2. \A g \in CgiAddr : g # h => cgis'[g] = cgis[g]
    BY <1>9
  <2>3. cgis'[h].conn # clients'[b].conn /\ ~Served(h)
    BY <1>9, <1>11, <2>1
  <2>4. \A g \in CgiAddr : Serves(g, b)' <=> Serves(g, b)
    BY <1>11, <2>1, <2>2, <2>3 DEF Serves
  <2>5. Running(b)' => Running(b)
    BY <2>1, <2>2, <2>3 DEF Running
  <2>6. QED
    BY <2>4, <2>5
<1>15. Connections'
  <2>1. \A b \in ClientAddr : LiveClient(b)' => clients'[b].conn < nextConn
    BY <1>5, <1>8, <1>11 DEF Connections
  <2>2. \A b, c \in ClientAddr :
           LiveClient(b)' /\ LiveClient(c)' /\ clients'[b].conn = clients'[c].conn => b = c
    BY <1>5, <1>8, <1>11 DEF Connections
  <2>3. H.conn < nextConn
    BY <1>1, <1>2, <1>3, <1>5 DEF Connections
  <2>4. \A g \in CgiAddr : LiveCgi(g)' => cgis'[g].conn < nextConn
    BY <1>5, <1>9, <1>11, <2>3 DEF Connections
  <2>5. \A g, k \in CgiAddr : LiveCgi(g)' /\ LiveCgi(k)' /\ cgis'[g].conn = cgis'[k].conn => g = k
    BY <1>1, <1>2, <1>5, <1>9, <1>11, <1>13 DEF Connections
  <2>6. QED
    BY <1>5, <2>1, <2>2, <2>4, <2>5 DEF Connections, net
<1>16. Answers'
  BY <1>5, <1>8, <1>11, SameAnswers DEF net
<1>17. Undisturbed'
  <2>1. \A b \in ClientAddr : LiveClient(b)' /\ clients'[b].late => ~Running(b)'
    BY <1>5, <1>8, <1>11, <1>14 DEF Serving, Undisturbed
  <2>2. \A g \in CgiAddr : Served(g)' /\ cgis'[g].wfd # NoFd => cgis'[g].body = 0 /\ ~cgis'[g].error
    BY <1>1, <1>5, <1>9, <1>11 DEF Serving, Undisturbed
  <2>3. QED
    BY <2>1, <2>2 DEF Undisturbed
<1>18. Maps'
  <2>1. ASSUME NEW g \in Fd, cgiFdToHandler'[g] # NULL
        PROVE  /\ Served(cgiFdToHandler[g])'
               /\ g \in {cgis'[cgiFdToHandler'[g]].rfd, cgis'[cgiFdToHandler'[g]].wfd}
               /\ LiveClient(cgiFdToClient[g])'
               /\ clients'[cgiFdToClient'[g]].conn = cgis'[cgiFdToHandler'[g]].conn
    <3>1. CASE g \in {H.rfd, H.wfd}
      <4>1. cgiFdToHandler'[g] = h /\ cgiFdToClient'[g] = a
        BY <1>5, <3>1
      <4>2. cgis'[h] = H /\ Served(h)' /\ LiveClient(a)' /\ clients'[a].conn = H.conn
        BY <1>1, <1>2, <1>3, <1>8, <1>9, <1>11
      <4>3. QED
        BY <3>1, <4>1, <4>2 DEF Served, LiveCgi, LiveClient
    <3>2. CASE g \notin {H.rfd, H.wfd}
      <4> DEFINE k == cgiFdToHandler[g]
                 c == cgiFdToClient[g]
      <4>1. cgiFdToHandler'[g] = k /\ cgiFdToClient'[g] = c /\ k # NULL
        BY <1>5, <2>1, <3>2
      <4>2. /\ Served(k) /\ g \in {cgis[k].rfd, cgis[k].wfd}
            /\ LiveClient(c) /\ clients[c].conn = cgis[k].conn
        BY <1>5, <4>1 DEF Serving, Maps
      <4> HIDE DEF k, c
      <4>3. cgis'[k] = cgis[k] /\ k \in CgiAddr /\ clients'[c].conn = clients[c].conn
        BY <1>8, <1>9, <1>11, <4>2 DEF LiveClient
      <4>4. (\A x : x = k => Served(x)') /\ (\A x : x = c => LiveClient(x)')
        BY <1>11, <4>2
      <4>5. QED
        BY <4>1, <4>2, <4>3, <4>4 DEF Served, LiveCgi, LiveClient
    <3>3. QED
      BY <3>1, <3>2
  <2>2. \A g \in Fd : cgiFdToHandler'[g] = NULL <=> cgiFdToClient'[g] = NULL
    BY <1>5, <1>10, NullAssumption DEF Serving, Maps
  <2>3. ASSUME NEW g \in Fd
        PROVE  cgiStartTime'[g] # "none" <=> \E k \in CgiAddr : Served(k)' /\ cgis'[k].rfd = g
    <3>1. CASE g = H.rfd
      BY <1>5, <1>9, <1>11, <3>1 DEF Inv, TypeOK
    <3>2. CASE g # H.rfd
      <4>1. cgiStartTime'[g] = cgiStartTime[g]
        BY <1>5, <1>6, <3>2 DEF Inv, TypeOK
      <4>2. \A k \in CgiAddr : Served(k)' /\ cgis'[k].rfd = g <=> Served(k) /\ cgis[k].rfd = g
        BY <1>9, <1>11, <3>2
      <4>3. QED
        BY <1>5, <4>1, <4>2 DEF Serving, Maps
    <3>3. QED
      BY <3>1, <3>2
  <2>4. \A k \in CgiAddr : Served(k)' => cgis'[k].rfd \in Fd /\ cgiFdToHandler'[cgis'[k].rfd] = k
    <3> SUFFICES ASSUME NEW k \in CgiAddr, Served(k)'
                 PROVE  cgis'[k].rfd \in Fd /\ cgiFdToHandler'[cgis'[k].rfd] = k
      OBVIOUS
    <3>1. CASE k = h
      BY <1>5, <1>6, <1>9, <3>1
    <3>2. CASE k # h
      <4>1. Served(k) /\ cgis'[k] = cgis[k]
        BY <1>9, <1>11, <3>2
      <4>2. cgis[k].rfd \in Fd /\ cgiFdToHandler[cgis[k].rfd] = k
        BY <1>5, <4>1 DEF Serving, Maps
      <4>3. cgis[k].rfd # H.rfd /\ cgis[k].rfd # H.wfd
        BY <1>6, <1>7, <1>10, <4>2
      <4>4. QED
        BY <1>5, <4>1, <4>2, <4>3
    <3>3. QED
      BY <3>1, <3>2
  <2>5. QED
    BY <2>1, <2>2, <2>3, <2>4 DEF Maps
<1> DEFINE n == Len(pollFds)
<1>19. /\ n \in Nat /\ DOMAIN pollFds = 1..n
       /\ DOMAIN pollFds' = 1..(IF H.wfd = NoFd THEN n + 1 ELSE n + 2)
       /\ \A k \in 1..n : k # i => pollFds'[k] = pollFds[k]
       /\ pollFds'[i].fd = f /\ pollFds'[i].events = "PAUSE"
       /\ pollFds'[n + 1] = Entry(H.rfd, "IN")
       /\ H.wfd # NoFd => pollFds'[n + 2] = Entry(H.wfd, "OUT")
  BY <1>1, <1>2, <1>4, <1>6, Ground, RegisterEntries
<1>20. \A k \in 1..n : pollFds'[k].fd = pollFds[k].fd /\ pollFds[k].fd \in Fd
  BY <1>4, <1>19, Ground
<1>21. /\ Entry(H.rfd, "IN").fd = H.rfd /\ Entry(H.rfd, "IN").events = "IN"
       /\ Entry(H.wfd, "OUT").fd = H.wfd /\ Entry(H.wfd, "OUT").events = "OUT"
       /\ Entry(H.rfd, "IN").revents = {} /\ Entry(H.wfd, "OUT").revents = {}
  BY DEF Entry
<1> HIDE DEF n
<1>22. \A g \in Fd : Watched(g)' <=> Watched(g) \/ g = H.rfd \/ g = H.wfd
  BY <1>5, <1>10 DEF Watched
<1>23. Watch'
  <2>1. \A j, k \in DOMAIN pollFds' : pollFds'[j].fd = pollFds'[k].fd => j = k
    <3>1. \A j, k \in 1..n : pollFds[j].fd = pollFds[k].fd => j = k
      BY <1>5, <1>19 DEF Serving, Watch
    <3>2. CASE H.wfd = NoFd
      BY <1>6, <1>19, <1>20, <1>21, <3>1, <3>2
    <3>3. CASE H.wfd # NoFd
      BY <1>1, <1>6, <1>7, <1>19, <1>20, <1>21, <3>1, <3>3
    <3>4. QED
      BY <3>2, <3>3
  <2>2. ASSUME NEW k \in DOMAIN pollFds'
        PROVE  Watched(pollFds[k].fd)'
    <3>1. /\ pollFds'[k].fd \in Fd
          /\ \/ k \in 1..n /\ pollFds'[k].fd = pollFds[k].fd
             \/ pollFds'[k].fd = H.rfd
             \/ pollFds'[k].fd = H.wfd
      <4>1. CASE k \in 1..n
        BY <1>20, <4>1
      <4>2. CASE k = n + 1
        BY <1>6, <1>19, <1>21, <4>2
      <4>3. CASE k = n + 2 /\ H.wfd # NoFd
        BY <1>7, <1>19, <1>21, <4>3
      <4>4. QED
        BY <1>19, <4>1, <4>2, <4>3
    <3>2. \A g \in Fd : g = pollFds'[k].fd => Watched(g) \/ g = H.rfd \/ g = H.wfd
      BY <1>5, <1>19, <3>1 DEF Serving, Watch
    <3>3. \A g \in Fd : g = pollFds'[k].fd => Watched(g)'
      BY <1>22, <3>2
    <3>4. QED
      BY <3>1, <3>3 DEF Watched
  <2>3. ASSUME NEW g \in Fd, Watched(g)'
        PROVE  \E k \in DOMAIN pollFds' : pollFds'[k].fd = g
    <3>1. CASE g = H.rfd
      BY <1>19, <1>21, <3>1
    <3>2. CASE g = H.wfd
      BY <1>10, <1>19, <1>21, <3>2
    <3>3. CASE g # H.rfd /\ g # H.wfd
      <4>1. PICK k \in 1..n : pollFds[k].fd = g
        BY <1>5, <1>19, <1>22, <2>3, <3>3 DEF Serving, Watch
      <4>2. k \in DOMAIN pollFds' /\ pollFds'[k].fd = g
        BY <1>19, <1>20, <4>1
      <4>3. QED
        BY <4>2
    <3>4. QED
      BY <3>1, <3>2, <3>3
  <2>4. ASSUME NEW g \in CgiAddr, NEW j \in DOMAIN pollFds', NEW k \in DOMAIN pollFds', Served(g)',
               pollFds'[j].fd = cgis'[g].rfd, pollFds'[k].fd = cgis'[g].wfd
        PROVE  j < k
    <3>1. CASE g = h
      <4>1. cgis'[g] = H
        BY <1>9, <3>1
      <4>2. j = n + 1
        BY <1>19, <1>21, <2>1, <2>4, <4>1
      <4>3. H.wfd # NoFd
        BY <1>6, <1>7, <1>10, <1>19, <1>20, <1>21, <2>4, <4>1
      <4>4. k = n + 2
        BY <1>19, <1>21, <2>1, <2>4, <4>1, <4>3
      <4>5. QED
        BY <1>19, <4>2, <4>4
    <3>2. CASE g # h
      <4>1. Served(g) /\ cgis'[g] = cgis[g]
        BY <1>9, <1>11, <2>4, <3>2
      <4>2. j \in 1..n /\ k \in 1..n
        BY <1>6, <1>7, <1>19, <1>21, <2>4, <4>1
      <4>3. QED
        BY <1>5, <1>19, <1>20, <2>4, <4>1, <4>2 DEF Serving, Watch
    <3>3. QED
      BY <3>1, <3>2
  <2>5. QED
    BY <2>1, <2>2, <2>3, <2>4 DEF Watch
<1>24. Entries'
  <2> SUFFICES ASSUME NEW k \in DOMAIN pollFds'
               PROVE  Masked(pollFds[k])' /\ (0 < i' /\ i' <= k => Reported(pollFds[k])')
    BY DEF Entries
  <2>1. CASE k \in 1..n /\ k # i
    <3>1. /\ Masked(pollFds[k]) /\ (0 < i /\ i <= k => Reported(pollFds[k]))
          /\ pollFds'[k] = pollFds[k] /\ pollFds[k].fd \in Fd
      BY <1>5, <1>19, <1>20, <2>1 DEF Serving, Entries
    <3>2. 0 < i' /\ i' <= k => Reported(pollFds[k])
      BY <1>4, <1>5, <1>19, <2>1, <3>1
    <3>3. pollFds[k].fd # f
      BY <1>4, <1>5, <1>19, <2>1 DEF Serving, Watch
    <3>4. \A b \in ClientAddr : clientMap[pollFds[k].fd] = b => b # a /\ LiveClient(b)
      BY <1>3, <1>10, <3>1, <3>3, Ground DEF LiveClient
    <3>5. pollFds[k].fd # H.rfd /\ pollFds[k].fd # H.wfd
      BY <1>6, <1>7, <1>10, <1>19, <2>1, <3>1
    <3>6. \A b \in ClientAddr : clientMap[pollFds[k].fd] = b =>
             /\ clients'[b].resp = clients[b].resp
             /\ Running(b)' => Running(b)
             /\ \A g \in CgiAddr : Serves(g, b)' <=> Serves(g, b)
      BY <1>8, <1>14, <3>4
    <3>7. \A g \in CgiAddr : Served(g)' => \/ g = h /\ cgis'[g] = H
                                           \/ Served(g) /\ cgis'[g] = cgis[g]
      BY <1>9, <1>11
    <3>8. Masked(pollFds[k])'
      BY <1>5, <3>1, <3>5, <3>6, <3>7 DEF Masked
    <3>9. Reported(pollFds[k]) => Reported(pollFds[k])'
      BY <1>5, <3>1, <3>5, <3>6, <3>7 DEF Reported
    <3>10. QED
      BY <3>2, <3>8, <3>9
  <2>2. CASE k = i
    <3>1. Serves(h, a)'
      BY <1>1, <1>2, <1>8, <1>9, <1>11 DEF Serves
    <3>2. \A b \in ClientAddr : clientMap'[f] = b => b = a
      BY <1>3, <1>5
    <3>3. \A g \in CgiAddr : cgis'[g].rfd # f /\ cgis'[g].wfd # f
      <4>1. \A g \in CgiAddr : cgis[g].rfd # f /\ cgis[g].wfd # f
        BY <1>3, Ground
      <4>2. H.rfd # f /\ H.wfd # f
        BY <1>4, <1>6, <1>7, <1>10, <1>19
      <4>3. QED
        BY <1>9, <4>1, <4>2
    <3>4. clients'[a].resp = NoResp
      BY <1>3, <1>8
    <3>5. Masked(pollFds[k])'
      BY <1>19, <2>2, <3>1, <3>2, <3>3, <3>4 DEF Masked
    <3>6. ~(i' <= k)
      BY <1>4, <1>5, <2>2
    <3>7. QED
      BY <3>5, <3>6
  <2>3. CASE k = n + 1
    <3>1. pollFds'[k].fd = H.rfd /\ pollFds'[k].events = "IN" /\ pollFds'[k].revents = {}
      BY <1>19, <1>21, <2>3
    <3>2. \A b \in ClientAddr : clientMap'[H.rfd] # b
      BY <1>5, <1>6, Ground DEF Watched
    <3>3. \A g \in CgiAddr : cgis'[g].wfd # H.rfd
      BY <1>1, <1>6, <1>9
    <3>4. QED
      BY <3>1, <3>2, <3>3 DEF Masked, Reported
  <2>4. CASE k = n + 2 /\ H.wfd # NoFd
    <3>1. pollFds'[k].fd = H.wfd /\ pollFds'[k].events = "OUT" /\ pollFds'[k].revents = {}
      BY <1>19, <1>21, <2>4
    <3>2. \A b \in ClientAddr : clientMap'[H.wfd] # b
      BY <1>5, <1>7, <2>4, Ground DEF Watched
    <3>3. \A g \in CgiAddr : cgis'[g].rfd # H.wfd
      BY <1>1, <1>7, <1>9, <2>4
    <3>4. QED
      BY <3>1, <3>2, <3>3 DEF Masked, Reported
  <2>5. QED
    BY <1>19, <2>1, <2>2, <2>3, <2>4
<1>25. QED
  BY <1>5, <1>15, <1>16, <1>17, <1>18, <1>23, <1>24 DEF Regular, Serving, ctl

-----------------------------------------------------------------------------
(* The end of a script *)

\* Descriptors without an entry may be counted among the erased ones.
LEMMA ThinnedMore ==
    ASSUME NEW p \in Seq(PollFd), NEW q, NEW F, NEW g, Thinned(p, q, F, g),
           NEW w, \A k \in 1..Len(p) : p[k].fd # w
    PROVE  Thinned(p, q, F \cup {w}, g)
<1>1. PICK s : ThinnedBy(p, q, F, g, s)
  BY DEF Thinned
<1>2. ThinnedBy(p, q, F \cup {w}, g, s)
  BY <1>1 DEF ThinnedBy
<1>3. QED
  BY <1>2 DEF Thinned

\* handleCGITimeout, handleCGIRead: changeEvent, cleanupCGIWriteFd and the erasure
\* at i leave the other entries; i is valid, as the write end's entry is behind it.
LEMMA ConcludePoll ==
    ASSUME Inv, Regular, NEW b \in {"cgiTimeout", "cgiRead"}, Visit(b),
           NEW h, h = cgiFdToHandler[fd], NEW c, c = cgiFdToClient[fd]
    PROVE  /\ CanConclude(h, c)
           /\ Thinned(pollFds, RemoveAt(Remaining(h, c), i),
                      {cgis[h].rfd, cgis[h].wfd}, clients[c].fd)
<1> DEFINE p == pollFds
           f == cgis[h].rfd
           w == cgis[h].wfd
           g == clients[c].fd
           q == ChangeEvent(p, g, "OUT")
           r == EraseFirst(q, w)
<1>1. /\ h \in CgiAddr /\ Served(h) /\ c \in ClientAddr /\ LiveClient(c) /\ fd = f
  BY VisitPipe
<1>2. /\ fd \in Fd /\ p[i].fd = fd /\ i \in 1..Len(p) /\ i \in Nat
      /\ p \in Seq(PollFd) /\ Len(p) \in Nat /\ DOMAIN p = 1..Len(p)
  BY AtVisit, Ground DEF fd
<1>3. f # w
  BY <1>1, <1>2, Ground
<1>4. Watch
  BY DEF Visit, Regular, Serving
<1>5. Once(p) /\ \A k \in 1..Len(p) : p[k].fd = w => i < k
  BY <1>1, <1>2, <1>4 DEF Watch, Once
<1> HIDE DEF p, f, w, g
<1>6. /\ q \in Seq(PollFd) /\ Len(q) = Len(p)
      /\ \A k \in 1..Len(p) : /\ q[k].fd = p[k].fd /\ q[k].revents = p[k].revents
                              /\ p[k].fd # g => q[k] = p[k]
  BY <1>2, ChangeEventProperties DEF Mask
<1>7. ASSUME NEW k \in 1..Len(p), p[k].fd = g
      PROVE  q[k].events = "OUT"
  <2>1. p[k] \in PollFd
    BY <1>2, ElementOfSeq
  <2>2. \A j \in 1..(k - 1) : p[j].fd # g
    BY <1>2, <1>5, <1>7 DEF Once
  <2>3. IsFirst(p, k, g)
    BY <1>7, <2>2 DEF IsFirst
  <2>4. q[k] = [p[k] EXCEPT !.events = "OUT"]
    BY <1>2, <2>3 DEF ChangeEvent
  <2>5. QED
    BY <2>1, <2>4 DEF PollFd
<1> HIDE DEF q
<1>8. Thinned(p, q, {}, g)
  BY <1>2, <1>6, <1>7, ThinnedMask
<1>9. Once(q)
  BY <1>2, <1>5, <1>8, ThinnedOnce
<1>10. CASE r = q /\ \A k \in 1..Len(q) : q[k].fd # w
  <2>1. Thinned(q, RemoveAt(q, i), {f}, NoFd)
    BY <1>1, <1>2, <1>6, <1>9, ThinnedRemove
  <2>2. Thinned(p, RemoveAt(q, i), {} \cup {f}, g)
    BY <1>2, <1>8, <2>1, ThinnedTwice
  <2>3. Thinned(p, RemoveAt(q, i), ({} \cup {f}) \cup {w}, g)
    BY <1>2, <1>6, <1>10, <2>2, ThinnedMore
  <2>4. ({} \cup {f}) \cup {w} = {f, w}
    OBVIOUS
  <2>5. i \in DOMAIN r
    BY <1>2, <1>6, <1>10, LenProperties
  <2>6. QED
    BY <1>1, <1>3, <1>10, <2>3, <2>4, <2>5 DEF CanConclude, Remaining, p, q, f, w, g
<1>11. ASSUME NEW k \in 1..Len(q), q[k].fd = w, r = RemoveAt(q, k)
       PROVE  /\ CanConclude(h, c)
              /\ Thinned(pollFds, RemoveAt(Remaining(h, c), i),
                         {cgis[h].rfd, cgis[h].wfd}, clients[c].fd)
  <2>1. i < k
    BY <1>5, <1>6, <1>11
  <2>2. /\ r \in Seq(PollFd) /\ Len(r) = Len(q) - 1
        /\ \A j \in 1..(Len(q) - 1) : r[j] = IF j < k THEN q[j] ELSE q[j + 1]
    BY <1>6, <1>11, RemoveAtProperties
  <2>3. i \in 1..Len(r) /\ r[i].fd = f
    BY <1>1, <1>2, <1>6, <1>11, <2>1, <2>2
  <2>4. Thinned(q, r, {w}, NoFd)
    BY <1>6, <1>9, <1>11, ThinnedRemove
  <2> HIDE DEF r
  <2>5. Once(r)
    BY <1>6, <1>9, <2>4, ThinnedOnce
  <2>6. Thinned(r, RemoveAt(r, i), {f}, NoFd)
    BY <2>2, <2>3, <2>5, ThinnedRemove
  <2>7. Thinned(p, r, {} \cup {w}, g)
    BY <1>2, <1>8, <2>4, ThinnedTwice
  <2>8. Thinned(p, RemoveAt(r, i), ({} \cup {w}) \cup {f}, g)
    BY <1>2, <2>6, <2>7, ThinnedTwice
  <2>9. ({} \cup {w}) \cup {f} = {f, w}
    OBVIOUS
  <2>10. i \in DOMAIN r
    BY <2>2, <2>3, LenProperties
  <2>11. QED
    BY <1>1, <1>3, <2>8, <2>9, <2>10 DEF CanConclude, Remaining, p, q, r, f, w, g
<1>12. QED
  BY <1>6, <1>10, <1>11, EraseFirstProperties

\* handleCGITimeout, handleCGIRead at the end: the handler is served no more, or is
\* gone; its client, whom no other serves, has a response and is watched for output.
LEMMA ConcludeStep ==
    ASSUME Inv, Regular, CGITimeout \/ CGIReadEnd
    PROVE  Regular'
<1>1. PICK b \in {"cgiTimeout", "cgiRead"}, code \in {"direct", "cgi", "500", "504"},
           h \in {cgiFdToHandler[fd]}, c \in {cgiFdToClient[fd]}, f \in {fd} :
        /\ Visit(b) /\ LiveCgi(h) /\ Conclude(h, c, code)
        /\ \/ Delete(h) /\ UNCHANGED waiting
           \/ /\ cgis' = [cgis EXCEPT ![h] = ReadOutput(h)]
              /\ waiting' = IF fd = cgis[h].wfd THEN waiting ELSE h
  <2>1. CASE CGITimeout
    BY <2>1 DEF CGITimeout
  <2>2. CASE CGIReadEnd
    <3> DEFINE o == IF ReadOutput(cgiFdToHandler[fd]).error THEN "500" ELSE "cgi"
    <3>1. o \in {"direct", "cgi", "500", "504"}
      OBVIOUS
    <3>2. QED
      BY <2>2, <3>1 DEF CGIReadEnd
  <2>3. QED
    BY <2>1, <2>2
<1> DEFINE w == cgis[h].wfd
           g == clients[c].fd
<1>2. /\ h \in CgiAddr /\ Served(h) /\ cgis[h] \in Cgi
      /\ c \in ClientAddr /\ LiveClient(c) /\ clients[c].conn = cgis[h].conn
      /\ clients[c].resp = NoResp /\ f = cgis[h].rfd
  BY <1>1, VisitPipe
<1>3. f \in Fd /\ ~IsServer(f) /\ i \in 1..Len(pollFds) /\ i \in Nat /\ f = pollFds[i].fd
  BY <1>1, AtVisit DEF fd
<1>4. /\ proc = "running" /\ waiting = NULL /\ Serving /\ Connections /\ Answers
      /\ clients' = SetResponse(c, clients[c].conn, code) /\ i' = AfterErase
      /\ cgiFdToHandler' = Forget(cgiFdToHandler, {f, w})
      /\ cgiFdToClient' = Forget(cgiFdToClient, {f, w})
      /\ cgiStartTime' = [cgiStartTime EXCEPT ![f] = "none"]
      /\ UNCHANGED <<clientMap, net, proc>>
      /\ Thinned(pollFds, pollFds', {f, w}, g)
  BY <1>1, <1>2, ConcludePoll DEF Visit, Regular, Conclude
<1>5. /\ f # w /\ g \in Fd /\ clientMap[g] = c
      /\ \A x \in Fd : x = f \/ x = w => ~IsServer(x) /\ clientMap[x] = NULL
      /\ \A k \in CgiAddr : k # h =>
            /\ cgis[k].rfd \in Fd => cgis[k].rfd # f /\ cgis[k].rfd # w
            /\ cgis[k].wfd \in Fd => cgis[k].wfd # f /\ cgis[k].wfd # w
  <2>1. g \in Fd
    BY <1>2, LiveObjects DEF Inv, Client
  <2>2. clientMap[g] = c
    BY <1>2, <2>1, Ground
  <2>3. ASSUME NEW x \in Fd, x = f \/ x = w
        PROVE  /\ ~IsServer(x) /\ clientMap[x] = NULL /\ f # w
               /\ \A k \in CgiAddr : x = cgis[k].rfd \/ x = cgis[k].wfd => k = h
    BY <1>2, <2>3, Ground
  <2>4. QED
    BY <1>3, <2>1, <2>2, <2>3
<1> HIDE DEF w, g
<1>6. /\ \A k \in CgiAddr : k # h => cgis'[k] = cgis[k]
      /\ LiveCgi(h)' => cgis'[h].conn = cgis[h].conn
      /\ ~Served(h)'
      /\ waiting' \in {NULL, h}
  <2>1. CASE Delete(h) /\ UNCHANGED waiting
    <3>1. \A k \in CgiAddr : cgis'[k] = IF k = h THEN NoCgi ELSE cgis[k]
      BY <2>1 DEF Delete, Inv, TypeOK
    <3>2. QED
      BY <1>2, <1>4, <2>1, <3>1 DEF LiveCgi, Served, NoCgi
  <2>2. CASE /\ cgis' = [cgis EXCEPT ![h] = ReadOutput(h)]
             /\ waiting' = IF fd = cgis[h].wfd THEN waiting ELSE h
    <3>1. waiting' = h
      BY <1>1, <1>5, <2>2 DEF w
    <3>2. ReadOutput(h).conn = cgis[h].conn
      BY <1>2 DEF ReadOutput, Cgi
    <3>3. \A k \in CgiAddr : cgis'[k] = IF k = h THEN ReadOutput(h) ELSE cgis[k]
      BY <2>2 DEF Inv, TypeOK
    <3>4. QED
      BY <1>2, <3>1, <3>2, <3>3 DEF Served
  <2>3. QED
    BY <1>1, <2>1, <2>2
<1>7. /\ Answers'
      /\ \A a \in ClientAddr : /\ clients'[a].fd = clients[a].fd
                               /\ clients'[a].conn = clients[a].conn
                               /\ clients'[a].late = clients[a].late
                               /\ a # c => clients'[a] = clients[a]
      /\ clients'[c].resp # NoResp
  BY <1>1, <1>2, <1>4, ResponseMade DEF net
<1>8. /\ \A a : LiveClient(a)' <=> LiveClient(a)
      /\ \A k \in CgiAddr : LiveCgi(k)' => LiveCgi(k) /\ cgis'[k].conn = cgis[k].conn
      /\ \A k : Served(k)' <=> Served(k) /\ k # h
      /\ \A k : Served(k) => k \in CgiAddr
  <2>1. \A k \in CgiAddr : k # h => (LiveCgi(k)' <=> LiveCgi(k))
    BY <1>6 DEF LiveCgi
  <2>2. \A k \in CgiAddr : k # h => (Served(k)' <=> Served(k))
    BY <1>4, <1>6, <2>1, Ground DEF Served
  <2>3. \A k : Served(k) \/ Served(k)' => k \in CgiAddr
    BY DEF Served, LiveCgi
  <2>4. QED
    BY <1>2, <1>6, <1>7, <2>1, <2>2, <2>3 DEF LiveClient, Served
<1>9. /\ \A a \in ClientAddr : Running(a)' => Running(a)
      /\ \A a \in ClientAddr : LiveClient(a) /\ a # c =>
            \A k \in CgiAddr : Serves(k, a)' <=> Serves(k, a)
      /\ \A k \in CgiAddr : ~Serves(k, c)'
  <2>1. ASSUME NEW a \in ClientAddr, NEW k \in CgiAddr, cgis'[k].live, cgis'[k].conn = clients'[a].conn
        PROVE  Running(a)
    BY <1>7, <1>8, <2>1 DEF Running, LiveCgi
  <2>2. ASSUME NEW a \in ClientAddr, LiveClient(a), a # c, NEW k \in CgiAddr
        PROVE  Serves(k, a)' <=> Serves(k, a)
    <3>1. CASE k = h
      BY <1>2, <1>4, <1>6, <2>2, <3>1 DEF Serves, Connections
    <3>2. CASE k # h
      BY <1>6, <1>7, <1>8, <2>2, <3>2 DEF Serves
    <3>3. QED
      BY <3>1, <3>2
  <2>3. ASSUME NEW k \in CgiAddr
        PROVE  ~Serves(k, c)'
    <3>1. CASE k = h
      BY <1>6, <3>1 DEF Serves
    <3>2. CASE k # h
      BY <1>2, <1>4, <1>6, <1>7, <1>8, <3>2 DEF Serves, Connections, Served
    <3>3. QED
      BY <3>1, <3>2
  <2>4. QED
    BY <2>1, <2>2, <2>3 DEF Running
<1>10. Connections'
  BY <1>4, <1>7, <1>8, SameConnections DEF net
<1>11. Undisturbed'
  BY <1>4, <1>6, <1>7, <1>8, <1>9 DEF Serving, Undisturbed
<1>12. \A x \in Fd : /\ x \in {f, w} => cgiFdToHandler'[x] = NULL /\ cgiFdToClient'[x] = NULL
                     /\ x \notin {f, w} => /\ cgiFdToHandler'[x] = cgiFdToHandler[x]
                                           /\ cgiFdToClient'[x] = cgiFdToClient[x]
                     /\ cgiStartTime'[x] = IF x = f THEN "none" ELSE cgiStartTime[x]
  BY <1>4 DEF Forget, Inv, TypeOK
<1>13. Maps'
  <2>1. ASSUME NEW x \in Fd, cgiFdToHandler'[x] # NULL
        PROVE  /\ Served(cgiFdToHandler[x])'
               /\ x \in {cgis'[cgiFdToHandler'[x]].rfd, cgis'[cgiFdToHandler'[x]].wfd}
               /\ LiveClient(cgiFdToClient[x])'
               /\ clients'[cgiFdToClient'[x]].conn = cgis'[cgiFdToHandler'[x]].conn
    <3>1. PICK k, a : k = cgiFdToHandler[x] /\ a = cgiFdToClient[x]
      OBVIOUS
    <3>2. x \notin {f, w} /\ cgiFdToHandler'[x] = k /\ cgiFdToClient'[x] = a /\ k # NULL
      BY <1>12, <2>1, <3>1
    <3>3. /\ Served(k) /\ x \in {cgis[k].rfd, cgis[k].wfd}
          /\ LiveClient(a) /\ clients[a].conn = cgis[k].conn
      BY <1>4, <3>1, <3>2 DEF Serving, Maps
    <3>4. k # h /\ k \in CgiAddr /\ a \in ClientAddr
      BY <1>2, <1>8, <3>2, <3>3 DEF w, LiveClient
    <3>5. Served(k)' /\ LiveClient(a)' /\ cgis'[k] = cgis[k] /\ clients'[a].conn = clients[a].conn
      BY <1>6, <1>7, <1>8, <3>3, <3>4
    <3>6. QED
      BY <3>2, <3>3, <3>5 DEF Served, LiveCgi, LiveClient
  <2>2. ASSUME NEW x \in Fd
        PROVE  cgiFdToHandler'[x] = NULL <=> cgiFdToClient'[x] = NULL
    <3>1. cgiFdToHandler[x] = NULL <=> cgiFdToClient[x] = NULL
      BY <1>4 DEF Serving, Maps
    <3>2. QED
      BY <1>12, <3>1
  <2>3. ASSUME NEW x \in Fd
        PROVE  cgiStartTime'[x] # "none" <=> \E k \in CgiAddr : Served(k)' /\ cgis'[k].rfd = x
    <3>1. \A k \in CgiAddr : Served(k)' /\ cgis'[k].rfd = x <=> k # h /\ Served(k) /\ cgis[k].rfd = x
      BY <1>6, <1>8
    <3>2. CASE x = f
      BY <1>3, <1>5, <1>12, <3>1, <3>2
    <3>3. CASE x # f
      BY <1>2, <1>4, <1>12, <3>1, <3>3 DEF Serving, Maps
    <3>4. QED
      BY <3>2, <3>3
  <2>4. ASSUME NEW k \in CgiAddr, Served(k)'
        PROVE  cgis'[k].rfd \in Fd /\ cgiFdToHandler'[cgis'[k].rfd] = k
    <3>1. k # h /\ Served(k) /\ cgis'[k] = cgis[k]
      BY <1>6, <1>8, <2>4
    <3>2. cgis[k].rfd \in Fd /\ cgiFdToHandler[cgis[k].rfd] = k
      BY <1>4, <3>1 DEF Serving, Maps
    <3>3. cgis[k].rfd \notin {f, w}
      BY <1>5, <3>1, <3>2
    <3>4. QED
      BY <1>12, <3>1, <3>2, <3>3
  <2>5. QED
    BY <2>1, <2>2, <2>3, <2>4 DEF Maps
<1>14. Watch' /\ Entries'
  <2>1. \A x \in Fd : Watched(x)' <=> Watched(x) /\ x \notin {f, w}
    <3> SUFFICES ASSUME NEW x \in Fd PROVE Watched(x)' <=> Watched(x) /\ x \notin {f, w}
      OBVIOUS
    <3>1. CASE x \in {f, w}
      BY <1>4, <1>5, <1>12, <3>1 DEF Watched
    <3>2. CASE x \notin {f, w}
      BY <1>4, <1>12, <3>2 DEF Watched
    <3>3. QED
      BY <3>1, <3>2
  <2>2. 0 < i /\ i' \in Nat /\ i <= i'
    BY <1>3, <1>4 DEF AfterErase
  <2>3. \A x \in Fd \ {f, w} : \A a \in ClientAddr : x # g /\ clientMap'[x] = a =>
              /\ clientMap[x] = a
              /\ clients'[a].resp = clients[a].resp
              /\ \A k \in CgiAddr : Serves(k, a)' <=> Serves(k, a)
              /\ Running(a)' => Running(a)
    <3> SUFFICES ASSUME NEW x \in Fd, NEW a \in ClientAddr, x # g, clientMap[x] = a
                 PROVE  /\ clients'[a].resp = clients[a].resp
                        /\ \A k \in CgiAddr : Serves(k, a)' <=> Serves(k, a)
                        /\ Running(a)' => Running(a)
      BY <1>4
    <3>1. clients[a].fd = x /\ a # c
      BY Ground DEF g
    <3>2. LiveClient(a)
      BY <3>1, Ground DEF LiveClient
    <3>3. QED
      BY <1>7, <1>9, <3>1, <3>2
  <2>4. \A k \in CgiAddr : cgis'[k].rfd = g \/ cgis'[k].wfd = g => ~Served(k)'
    <3>1. \A k \in CgiAddr : cgis[k].rfd # g /\ cgis[k].wfd # g
      BY <1>2, <1>5, Ground
    <3>2. QED
      BY <1>6, <1>8, <3>1
  <2>5. \A e \in PollFd : e.fd = g /\ e.events = "OUT" => Masked(e)'
    <3> SUFFICES ASSUME NEW e \in PollFd, e.fd = g, e.events = "OUT"
                 PROVE  Masked(e)'
      OBVIOUS
    <3>1. \A a \in ClientAddr : clientMap'[e.fd] = a =>
             clients'[a].resp # NoResp /\ \A k \in CgiAddr : ~Serves(k, a)'
      BY <1>4, <1>5, <1>7, <1>9
    <3>2. QED
      BY <2>4, <3>1 DEF Masked
  <2>6. ASSUME NEW e \in PollFd, NEW k \in 1..Len(pollFds),
               e.fd = g, e.events = "OUT", pollFds[k].fd = g, e.revents = pollFds[k].revents, i' <= k
        PROVE  Reported(e)'
    <3>1. i <= k /\ k \in DOMAIN pollFds
      BY <1>3, <2>2, <2>6, Ground
    <3>2. Masked(pollFds[k]) /\ Reported(pollFds[k])
      BY <1>4, <2>2, <3>1 DEF Serving, Entries
    <3>3. Serves(h, c)
      BY <1>2 DEF Serves
    <3>4. pollFds[k].events = "PAUSE"
      BY <1>2, <1>5, <2>6, <3>2, <3>3 DEF Masked
    <3>5. /\ "IN" \notin e.revents /\ "OUT" \notin e.revents
          /\ Running(c) => e.revents \cap {"HUP", "ERR"} = {}
      BY <1>2, <1>5, <2>6, <3>2, <3>4 DEF Reported
    <3>6. \A a \in ClientAddr : clientMap'[e.fd] = a => a = c
      BY <1>4, <1>5, <2>6
    <3>7. QED
      BY <1>9, <2>4, <2>6, <3>5, <3>6 DEF Reported
  <2>7. \A k \in CgiAddr : Served(k)' => /\ Served(k)
                                         /\ cgis'[k].rfd = cgis[k].rfd
                                         /\ cgis'[k].wfd = cgis[k].wfd
    BY <1>6, <1>8
  <2>8. Watch /\ Entries /\ i \in Nat /\ pollFds \in Seq(PollFd)
    BY <1>4, Ground DEF Serving
  <2>9. QED
    BY <1>4, <2>1, <2>2, <2>3, <2>5, <2>6, <2>7, <2>8, ThinnedServing
<1>15. QED
  BY <1>4, <1>7, <1>10, <1>11, <1>13, <1>14 DEF Regular, Serving
\* handleCGIWrite: the body was written by start(), and the write end is no longer
\* watched; the handler goes on, and its client stays paused.
LEMMA WriteDoneStep ==
    ASSUME Inv, Regular, CGIWriteDone
    PROVE  Regular'
<1>1. PICK h \in {cgiFdToHandler[fd]}, c \in {cgiFdToClient[fd]}, f \in {fd} : TRUE
  OBVIOUS
<1>2. Visit("cgiWrite")
  BY DEF CGIWriteDone
<1>3. /\ h \in CgiAddr /\ Served(h) /\ f = cgis[h].wfd /\ ~cgis[h].error
  BY <1>1, <1>2, VisitPipe
<1>4. f \in Fd /\ ~IsServer(f) /\ i \in 1..Len(pollFds) /\ i \in Nat /\ f = pollFds[i].fd
  BY <1>1, <1>2, AtVisit DEF fd
<1>5. /\ proc = "running" /\ Serving /\ Connections /\ Answers
      /\ cgiFdToHandler' = Forget(cgiFdToHandler, {f})
      /\ cgiFdToClient' = Forget(cgiFdToClient, {f})
      /\ pollFds' = RemoveAt(pollFds, i) /\ i' = AfterErase
      /\ UNCHANGED <<clientMap, clients, cgiStartTime, cgis, net, ctl>>
  BY <1>1, <1>2, <1>3 DEF CGIWriteDone, Visit, Regular
<1>6. clientMap[f] = NULL /\ \A k \in CgiAddr : cgis[k].rfd # f
  <2>1. \A x \in Fd : x = cgis[h].rfd \/ x = cgis[h].wfd =>
           /\ clientMap[x] = NULL /\ cgis[h].rfd # cgis[h].wfd
           /\ \A k \in CgiAddr : x = cgis[k].rfd \/ x = cgis[k].wfd => k = h
    BY <1>3, Ground
  <2>2. /\ clientMap[f] = NULL /\ cgis[h].rfd # f
        /\ \A k \in CgiAddr : f = cgis[k].rfd => k = h
    BY <1>3, <1>4, <2>1
  <2>3. QED
    BY <2>2
<1>7. /\ \A k : (LiveCgi(k)' <=> LiveCgi(k)) /\ (Served(k)' <=> Served(k))
      /\ \A a : (LiveClient(a)' <=> LiveClient(a)) /\ (Running(a)' <=> Running(a))
      /\ \A k, a : Serves(k, a)' <=> Serves(k, a)
  BY <1>5 DEF LiveCgi, Served, Serves, Running, LiveClient, ctl
<1>8. Connections' /\ Answers'
  BY <1>5, <1>7, SameConnections, SameAnswers DEF net
<1>9. Undisturbed'
  BY <1>5, <1>7 DEF Serving, Undisturbed
<1>10. \A x \in Fd : /\ x = f => cgiFdToHandler'[x] = NULL /\ cgiFdToClient'[x] = NULL
                     /\ x # f => /\ cgiFdToHandler'[x] = cgiFdToHandler[x]
                                 /\ cgiFdToClient'[x] = cgiFdToClient[x]
  BY <1>5 DEF Forget
<1>11. Maps'
  <2>1. ASSUME NEW x \in Fd, cgiFdToHandler'[x] # NULL
        PROVE  /\ Served(cgiFdToHandler[x])'
               /\ x \in {cgis'[cgiFdToHandler'[x]].rfd, cgis'[cgiFdToHandler'[x]].wfd}
               /\ LiveClient(cgiFdToClient[x])'
               /\ clients'[cgiFdToClient'[x]].conn = cgis'[cgiFdToHandler'[x]].conn
    <3>1. PICK k, a : k = cgiFdToHandler[x] /\ a = cgiFdToClient[x]
      OBVIOUS
    <3>2. cgiFdToHandler'[x] = k /\ cgiFdToClient'[x] = a /\ k # NULL
      BY <1>10, <2>1, <3>1
    <3>3. /\ Served(k) /\ x \in {cgis[k].rfd, cgis[k].wfd}
          /\ LiveClient(a) /\ clients[a].conn = cgis[k].conn
      BY <1>5, <3>1, <3>2 DEF Serving, Maps
    <3>4. Served(k)' /\ LiveClient(a)'
      BY <1>7, <3>3
    <3>5. QED
      BY <1>5, <3>2, <3>3, <3>4 DEF Served, LiveCgi, LiveClient
  <2>2. ASSUME NEW x \in Fd
        PROVE  cgiFdToHandler'[x] = NULL <=> cgiFdToClient'[x] = NULL
    <3>1. cgiFdToHandler[x] = NULL <=> cgiFdToClient[x] = NULL
      BY <1>5 DEF Serving, Maps
    <3>2. QED
      BY <1>10, <3>1
  <2>3. \A x \in Fd : cgiStartTime'[x] # "none" <=> \E k \in CgiAddr : Served(k)' /\ cgis'[k].rfd = x
    BY <1>5, <1>7 DEF Serving, Maps
  <2>4. \A k \in CgiAddr : Served(k)' => cgis'[k].rfd \in Fd /\ cgiFdToHandler'[cgis'[k].rfd] = k
    BY <1>5, <1>6, <1>7, <1>10 DEF Serving, Maps
  <2>5. QED
    BY <2>1, <2>2, <2>3, <2>4 DEF Maps
<1>12. Watch' /\ Entries'
  <2>1. Thinned(pollFds, pollFds', {f}, NoFd)
    <3>1. Once(pollFds)
      BY <1>5, Ground DEF Serving, Watch, Once
    <3>2. QED
      BY <1>4, <1>5, <3>1, Ground, ThinnedRemove
  <2>2. \A x \in Fd : Watched(x)' <=> Watched(x) /\ x \notin {f}
    BY <1>4, <1>5, <1>6, <1>10 DEF Watched
  <2>3. 0 < i /\ i' \in Nat /\ i <= i'
    BY <1>4, <1>5 DEF AfterErase
  <2>4. \A x \in Fd \ {f} : \A a \in ClientAddr : x # NoFd /\ clientMap'[x] = a =>
              /\ clientMap[x] = a
              /\ clients'[a].resp = clients[a].resp
              /\ \A k \in CgiAddr : Serves(k, a)' <=> Serves(k, a)
              /\ Running(a)' => Running(a)
    BY <1>5, <1>7
  <2>5. \A e \in PollFd : e.fd # NoFd
    BY DEF PollFd, Fd, NoFd
  <2>6. Watch /\ Entries /\ i \in Nat /\ pollFds \in Seq(PollFd)
    BY <1>5, Ground DEF Serving
  <2>7. \A k \in CgiAddr : Served(k)' => /\ Served(k)
                                         /\ cgis'[k].rfd = cgis[k].rfd
                                         /\ cgis'[k].wfd = cgis[k].wfd
    BY <1>5, <1>7
  <2>8. QED
    BY <2>1, <2>2, <2>3, <2>4, <2>5, <2>6, <2>7, ThinnedServing
<1>13. QED
  BY <1>5, <1>8, <1>9, <1>11, <1>12 DEF Regular, Serving, ctl

\* There is nothing left to write when the write end is visited.
LEMMA NoWriteBody ==
    ASSUME Inv, Regular
    PROVE  ~CGIWriteBody
<1>1. Visit("cgiWrite") => cgis[cgiFdToHandler[fd]].body = 0
  BY VisitPipe
<1>2. QED
  BY <1>1 DEF CGIWriteBody

\* No visit follows a NULL or dangling pointer, or erases past the end.
LEMMA NoUndefinedStep ==
    ASSUME Inv, Regular
    PROVE  ~Undefined
<1> SUFFICES ASSUME Undefined PROVE FALSE
  OBVIOUS
<1>1. PICK b \in {"cgiTimeout", "cgiRead", "cgiWrite", "clientRead", "clientWrite"} :
        Visit(b) /\ Branch(pollFds[i]) = b
  BY DEF Undefined, Visit
<1>2. CASE b \in {"cgiTimeout", "cgiRead"}
  <2>1. /\ LiveCgi(cgiFdToHandler[fd]) /\ LiveClient(cgiFdToClient[fd])
        /\ CanConclude(cgiFdToHandler[fd], cgiFdToClient[fd])
    BY <1>1, <1>2, VisitPipe, ConcludePoll
  <2>2. QED
    BY <1>1, <1>2, <2>1 DEF Undefined
<1>3. CASE b = "cgiWrite"
  <2>1. /\ LiveCgi(cgiFdToHandler[fd]) /\ LiveClient(cgiFdToClient[fd])
    BY <1>1, <1>3, VisitPipe
  <2>2. QED
    BY <1>1, <1>3, <2>1 DEF Undefined
<1>4. CASE b \in {"clientRead", "clientWrite"}
  <2>1. clientMap[fd] # NULL
    BY <1>1, <1>4, VisitClient, Ground
  <2>2. QED
    BY <1>1, <1>4, <2>1 DEF Undefined
<1>5. QED
  BY <1>1, <1>2, <1>3, <1>4

-----------------------------------------------------------------------------
(* The destructor, and every step *)

\* ~EventLoop: the handlers it finds in _cgiFdToHandler are all there are.
LEMMA ShutdownStep ==
    ASSUME Inv, Regular, Shutdown
    PROVE  Regular'
<1>1. CASE Stop
  <2>1. /\ proc = "running" /\ waiting = NULL /\ Serving /\ Connections /\ Answers
        /\ UNCHANGED <<maps, cgis, net>> /\ proc' = "stopping"
        /\ \A a : ~LiveClient(a)'
        /\ \A h : LiveCgi(h)' <=> LiveCgi(h)
    BY <1>1 DEF Stop, Regular, LiveClient, NoClient, LiveCgi
  <2>2. Connections' /\ Answers'
    BY <2>1, SameConnections, SameAnswers DEF net
  <2>3. \A f \in Fd : cgiFdToHandler[f] # NULL => LiveCgi(cgiFdToHandler[f])
    BY <2>1 DEF Serving, Maps, Served
  <2>4. \A h \in CgiAddr : LiveCgi(h) => \E f \in Fd : cgiFdToHandler[f] = h
    BY <2>1, AllServed DEF Serving, Maps
  <2>5. Ending'
    BY <2>1, <2>3, <2>4 DEF Ending, maps, LiveCgi
  <2>6. QED
    BY <2>1, <2>2, <2>5 DEF Regular
<1>2. ASSUME NEW h \in CgiAddr, DestroyCgi(h)
      PROVE  Regular'
  <2>1. /\ proc = "stopping" /\ proc' = proc /\ Ending /\ Connections /\ Answers
        /\ UNCHANGED <<clients, net>>
        /\ cgiFdToHandler' = Forget(cgiFdToHandler, {f \in Fd : cgiFdToHandler[f] = h})
        /\ Delete(h) \/ Abandon(h)
    BY <1>2 DEF DestroyCgi, Regular
  <2>2. \A g \in CgiAddr : cgis'[g] = IF g = h THEN NoCgi ELSE cgis[g]
    BY <2>1 DEF Delete, Abandon, Inv, TypeOK
  <2>3. \A g : LiveCgi(g)' <=> LiveCgi(g) /\ g # h
    BY <2>2 DEF LiveCgi, NoCgi
  <2>4. \A f \in Fd : cgiFdToHandler'[f] = IF cgiFdToHandler[f] = h THEN NULL ELSE cgiFdToHandler[f]
    BY <2>1 DEF Forget
  <2>5. \A a : LiveClient(a)' <=> LiveClient(a)
    BY <2>1 DEF LiveClient
  <2>6. Connections' /\ Answers'
    BY <2>1, <2>2, <2>3, <2>5, SameConnections, SameAnswers DEF net
  <2>7. \A f \in Fd : cgiFdToHandler'[f] # NULL =>
           /\ LiveCgi(cgiFdToHandler[f]) /\ cgiFdToHandler[f] # h /\ cgiFdToHandler'[f] = cgiFdToHandler[f]
    BY <2>1, <2>4 DEF Ending
  <2>8. \A f \in Fd : cgiFdToHandler'[f] # NULL => LiveCgi(cgiFdToHandler[f])'
    <3> SUFFICES ASSUME NEW f \in Fd, cgiFdToHandler'[f] # NULL
                 PROVE  LiveCgi(cgiFdToHandler[f])'
      OBVIOUS
    <3>1. PICK g : g = cgiFdToHandler[f]
      OBVIOUS
    <3>2. LiveCgi(g)' /\ cgiFdToHandler'[f] = g
      BY <2>3, <2>7, <3>1
    <3>3. QED
      BY <3>2 DEF LiveCgi
  <2>9. ASSUME NEW g \in CgiAddr, LiveCgi(g)'
        PROVE  \E f \in Fd : cgiFdToHandler'[f] = g
    <3>1. g # h /\ \E f \in Fd : cgiFdToHandler[f] = g
      BY <2>1, <2>3, <2>9 DEF Ending
    <3>2. QED
      BY <2>4, <3>1
  <2>10. Ending'
    BY <2>1, <2>5, <2>8, <2>9 DEF Ending
  <2>11. QED
    BY <2>1, <2>6, <2>10 DEF Regular
<1>3. ASSUME NEW h \in CgiAddr, DestroyDead(h)
      PROVE  FALSE
  BY <1>3, NullAssumption DEF DestroyDead, Regular, Ending
<1>4. CASE Stopped
  <2>1. /\ Ending /\ Connections /\ Answers /\ proc' = "stopped"
        /\ \A f \in Fd : cgiFdToHandler[f] = NULL
        /\ UNCHANGED <<cgiFdToHandler, clients, cgis, net>>
        /\ \A a : LiveClient(a)' <=> LiveClient(a)
        /\ \A h : LiveCgi(h)' <=> LiveCgi(h)
    BY <1>4 DEF Stopped, Regular, maps, heap, LiveClient, LiveCgi
  <2>2. Connections' /\ Answers'
    BY <2>1, SameConnections, SameAnswers DEF net
  <2>3. Ending'
    BY <2>1 DEF Ending
  <2>4. QED
    BY <2>1, <2>2, <2>3 DEF Regular
<1>5. QED
  BY <1>1, <1>2, <1>3, <1>4 DEF Shutdown

\* The constructor.
LEMMA InitRegular ==
    ASSUME Init
    PROVE  Regular
<1>1. /\ \A a : ~LiveClient(a)
      /\ \A h : ~LiveCgi(h) /\ ~Served(h)
      /\ \A a, h : ~Serves(h, a)
  BY DEF Init, LiveClient, LiveCgi, Served, Serves, NoClient, NoCgi
<1>2. Connections
  BY <1>1 DEF Connections
<1>3. Answers
  BY <1>1 DEF Answers, Init
<1>4. Undisturbed
  BY <1>1 DEF Undisturbed
<1>5. Maps
  BY <1>1 DEF Maps, Init
<1>6. /\ DOMAIN pollFds = 1..NServers /\ NServers \in Nat
      /\ \A k \in 1..NServers : pollFds[k].fd = k /\ k \in Fd /\ pollFds[k].events = "IN"
  BY SizeAssumption DEF Init, Entry, Fd
<1>7. \A f \in Fd : Watched(f) <=> f \in 1..NServers
  BY DEF Init, Watched, IsServer
<1>8. Watch
  <2>1. \A k \in DOMAIN pollFds : Watched(pollFds[k].fd)
    <3> SUFFICES ASSUME NEW k \in DOMAIN pollFds PROVE Watched(pollFds[k].fd)
      OBVIOUS
    <3>1. \A f \in Fd : f = pollFds[k].fd => Watched(f)
      BY <1>6, <1>7
    <3>2. QED
      BY <1>6, <3>1
  <2>2. \A f \in Fd : Watched(f) => \E k \in DOMAIN pollFds : pollFds[k].fd = f
    BY <1>6, <1>7
  <2>3. QED
    BY <1>1, <1>6, <2>1, <2>2 DEF Watch
<1>9. Entries
  <2>1. \A k \in DOMAIN pollFds : Masked(pollFds[k])
    BY <1>1, <1>6, NullAssumption DEF Masked, Init
  <2>2. QED
    BY <2>1 DEF Entries, Init
<1>10. QED
  BY <1>2, <1>3, <1>4, <1>5, <1>8, <1>9 DEF Regular, Serving, Init

\* Every step, put together.
LEMMA RegularStep ==
    ASSUME FirstRegime, Inv, Regular, [Next]_vars
    PROVE  Regular'
<1>1. CASE Poll
  BY <1>1, PollStep
<1>2. CASE EndPass \/ Nothing \/ AcceptFails \/ ReadIncomplete \/ CGIReadMore \/ ClientWritePart
  BY <1>2, QuietVisit
<1>3. CASE NewClient
  BY <1>3, AcceptStep
<1>4. CASE ClientTimeout \/ ClientError \/ ClientGone \/ ClientWriteFails \/ ClientWriteRest
  BY <1>4, DisconnectStep
<1>5. CASE ReadAnswered \/ StartFails
  BY <1>5, FailedStart, AnswerStep
<1>6. CASE StartCGIGet \/ StartCGIPost
  BY <1>6, StartStep
<1>7. CASE CGITimeout \/ CGIReadEnd
  BY <1>7, ConcludeStep
<1>8. CASE Reap \/ Interrupt
  BY <1>8, WaitEnds
<1>9. CASE CGIWriteDone \/ CGIWriteBody
  BY <1>9, WriteDoneStep, NoWriteBody
<1>10. CASE Undefined
  BY <1>10, NoUndefinedStep
<1>11. CASE Shutdown
  BY <1>11, ShutdownStep
<1>12. CASE (\E h \in CgiAddr : Script(h)) \/ Clock \/ UNCHANGED vars
  BY <1>12, OutsideStep
<1>13. QED
  BY <1>1, <1>2, <1>3, <1>4, <1>5, <1>6, <1>7, <1>8, <1>9, <1>10, <1>11, <1>12
     DEF Next, Loop, Ended

-----------------------------------------------------------------------------
(* The theorems of the first regime *)

\* In the first regime the loop stays regular, whatever is accepted, answered,
\* started and ended, and in whatever order.
THEOREM Regularity ==
    ASSUME FirstRegime
    PROVE  Spec => []Regular
<1>1. Init => Regular
  BY InitRegular
<1>2. Inv /\ Regular /\ [Next]_vars => Regular'
  BY RegularStep
<1>3. QED
  BY <1>1, <1>2, Invariance, PTL DEF Spec

\* No handler of the loop and no step of the destructor follows a NULL or dangling
\* pointer, or erases past the end of _pollFds.
THEOREM NothingUndefined ==
    ASSUME FirstRegime
    PROVE  Spec => []NoUndefined
<1>1. Regular => NoUndefined
  BY DEF Regular, NoUndefined
<1>2. QED
  BY <1>1, Regularity, PTL

\* The three maps of the scripts always describe the handlers that are served.
THEOREM MapsAgree ==
    ASSUME FirstRegime
    PROVE  Spec => []CgiMapsAgree
<1>1. Regular => CgiMapsAgree
  BY DEF Regular, Serving, Maps, CgiMapsAgree
<1>2. QED
  BY <1>1, Regularity, PTL

\* poll() is given each descriptor that the maps know once, and no other.
THEOREM PollCorrect ==
    ASSUME FirstRegime
    PROVE  Spec => []PollExact
<1>1. ASSUME Inv, Regular, proc = "running"
      PROVE  {pollFds[k].fd : k \in DOMAIN pollFds}
               = (1..NServers) \cup {f \in Fd : clientMap[f] # NULL}
                               \cup {f \in Fd : cgiFdToHandler[f] # NULL}
  <2>1. /\ \A k \in DOMAIN pollFds : pollFds[k].fd \in Fd /\ Watched(pollFds[k].fd)
        /\ \A f \in Fd : Watched(f) => \E k \in DOMAIN pollFds : pollFds[k].fd = f
    BY <1>1, Ground DEF Regular, Serving, Watch
  <2>2. 1..NServers \subseteq Fd
    BY SizeAssumption DEF Fd
  <2>3. QED
    BY <2>1, <2>2 DEF Watched, IsServer
<1>2. Inv /\ Regular => PollExact
  BY <1>1 DEF Regular, Serving, Watch, PollExact
<1>3. QED
  BY <1>2, Invariance, Regularity, PTL

\* A client is watched for what it waits for: input, its script, or to be written.
THEOREM MasksCorrect ==
    ASSUME FirstRegime
    PROVE  Spec => []MaskMatchesRequest
<1>1. ASSUME Inv, Regular, proc = "running", NEW k \in DOMAIN pollFds,
             NEW a, a = clientMap[pollFds[k].fd], a # NULL
      PROVE  /\ pollFds[k].events = "OUT" <=> clients[a].resp # NoResp
             /\ pollFds[k].events = "PAUSE" <=> \E h \in CgiAddr : Serves(h, a)
             /\ \A g, h \in CgiAddr : Serves(g, a) /\ Serves(h, a) => g = h
  <2>1. a \in ClientAddr
    BY <1>1, Ground
  <2>2. Masked(pollFds[k])
    BY <1>1 DEF Regular, Serving, Entries
  <2>3. \A g, h \in CgiAddr : Serves(g, a) /\ Serves(h, a) => g = h
    BY <1>1 DEF Regular, Connections, Serves, Served
  <2>4. QED
    BY <1>1, <2>1, <2>2, <2>3 DEF Masked
<1>2. Inv /\ Regular => MaskMatchesRequest
  BY <1>1 DEF MaskMatchesRequest
<1>3. QED
  BY <1>2, Invariance, Regularity, PTL

\* What is written on a connection is one response, to the request that came on it,
\* although descriptors and addresses of clients and handlers are used again.
THEOREM AnswersOwn ==
    ASSUME FirstRegime
    PROVE  Spec => []OwnAnswer
<1>1. ASSUME Regular, NEW c \in Conns
      PROVE  Cardinality(wire[c]) <= 1
  <2>1. CASE wire[c] = {}
    BY <2>1, FS_EmptySet
  <2>2. ASSUME NEW r \in wire[c]
        PROVE  Cardinality(wire[c]) <= 1
    <3>1. wire[c] = {r}
      BY <1>1, <2>2 DEF Regular, Answers
    <3>2. Cardinality({r}) = 1
      BY FS_Singleton
    <3>3. QED
      BY <3>1, <3>2
  <2>3. QED
    BY <2>1, <2>2
<1>2. Regular => OwnAnswer
  BY <1>1 DEF Regular, Answers, OwnAnswer
<1>3. QED
  BY <1>2, Regularity, PTL

\* The destructor leaves no client, no handler and no descriptor but those of the
\* listening sockets, and no unreaped script unless a signal cut a wait short.
THEOREM StopsClean ==
    ASSUME FirstRegime
    PROVE  Spec => []CleanStop
<1>1. ASSUME Inv, Regular, proc = "stopped"
      PROVE  /\ openFds = 1..NServers
             /\ \A h \in CgiAddr : ~LiveCgi(h)
             /\ ~interrupted => \A h \in CgiAddr : child[h] = NoChild
  <2>1. /\ \A a \in ClientAddr : ~LiveClient(a)
        /\ \A h \in CgiAddr : ~LiveCgi(h)
    BY <1>1, NullAssumption DEF Regular, Ending
  <2>2. /\ \A a \in ClientAddr : clients[a].fd = NoFd
        /\ \A h \in CgiAddr : Ends(h) = {} /\ ~cgis[h].live
    BY <1>1, <2>1, LiveObjects DEF LiveClient, LiveCgi, Inv, NoCgi, Ends
  <2>3. \A f \in Fd : f # NoFd
    BY DEF Fd, NoFd
  <2>4. \A f \in Fd : f \in openFds <=> f \in 1..NServers
    BY <1>1, <2>2, <2>3 DEF Inv, FdOwnership, IsServer
  <2>5. openFds \subseteq Fd /\ 1..NServers \subseteq Fd
    BY <1>1, SizeAssumption DEF Inv, TypeOK, Fd
  <2>6. ~interrupted => \A h \in CgiAddr : child[h] = NoChild
    <3>1. ~interrupted => \A h \in CgiAddr : child[h].st = "none"
      BY <1>1, <2>2 DEF Inv, OneChildPerHandler
    <3>2. \A h \in CgiAddr : child[h].st = "none" => child[h] = NoChild
      BY <1>1 DEF Inv, TypeOK, Child
    <3>3. QED
      BY <3>1, <3>2
  <2>7. QED
    BY <2>1, <2>4, <2>5, <2>6
<1>2. Inv /\ Regular => CleanStop
  BY <1>1 DEF CleanStop
<1>3. QED
  BY <1>2, Invariance, Regularity, PTL

-----------------------------------------------------------------------------
(* The loop implements ConnectionService *)

\* A destructor that waits for its script keeps nobody else waiting: its client has
\* its response already.
Awaited ==
    waiting # NULL =>
       \A a \in ClientAddr : LiveClient(a) /\ clients[a].conn = cgis[waiting].conn
                                => clients[a].resp # NoResp

\* Only handleCGIRead begins to wait, after it has given the client its response.
LEMMA AwaitedStep ==
    ASSUME Inv, Regular, Awaited, [Next]_vars
    PROVE  Awaited'
<1>1. CASE waiting # NULL
  <2>1. waiting \in CgiAddr /\ LiveCgi(waiting)
    BY <1>1 DEF Inv, TypeOK, OneChildPerHandler
  <2>2. CASE Reap \/ Interrupt
    BY <2>2 DEF Reap, Interrupt, Awaited
  <2>3. CASE (\E h \in CgiAddr : Script(h)) \/ Clock \/ UNCHANGED vars
    <3>1. /\ UNCHANGED <<cgis, waiting>>
          /\ \A a \in ClientAddr : /\ clients'[a].fd = clients[a].fd
                                   /\ clients'[a].conn = clients[a].conn
                                   /\ clients'[a].resp = clients[a].resp
      <4>1. CASE \E h \in CgiAddr : Script(h)
        BY <4>1, ScriptEffect DEF ChildStep, ctl
      <4>2. CASE Clock
        BY <4>2 DEF Clock, ClientLate, CGILate, ctl, heap, Inv, TypeOK, Client, NoClient, LiveClient
      <4>3. QED
        BY <2>3, <4>1, <4>2 DEF vars
    <3>2. QED
      BY <3>1 DEF Awaited, LiveClient
  <2>4. CASE ~(Reap \/ Interrupt \/ (\E h \in CgiAddr : Script(h)) \/ Clock \/ UNCHANGED vars)
    BY <1>1, <2>1, <2>4
       DEF Next, Loop, Shutdown, Ended, Stop, DestroyCgi, DestroyDead, Stopped, Poll, EndPass,
           Nothing, NewClient, AcceptFails, ClientTimeout, ClientError, ClientGone, ReadIncomplete,
           ReadAnswered, StartFails, Respond, StartCGIGet, StartCGIPost, CGITimeout, CGIReadMore, CGIReadEnd,
           CGIWriteDone, CGIWriteBody, ClientWriteFails, ClientWritePart, ClientWriteRest,
           Undefined, Visit, Skip, Inv, OneChildPerHandler
  <2>5. QED
    BY <2>2, <2>3, <2>4
<1>2. CASE waiting = NULL /\ waiting' # NULL
  <2>1. CGIReadEnd
    <3>1. CASE Poll \/ EndPass \/ Nothing \/ AcceptFails \/ ReadIncomplete \/ NewClient \/ Undefined
      BY <1>2, <3>1 DEF Poll, EndPass, Nothing, AcceptFails, ReadIncomplete, NewClient, Undefined,
                        Skip, ctl
    <3>2. CASE ClientTimeout \/ ClientError \/ ClientGone \/ ClientWriteFails \/ ClientWriteRest
      BY <1>2, <3>2 DEF ClientTimeout, ClientError, ClientGone, ClientWriteFails, ClientWriteRest,
                        Disconnect, ctl
    <3>3. CASE ReadAnswered \/ StartFails \/ ClientWritePart
      BY <1>2, <3>3 DEF ReadAnswered, StartFails, Respond, ClientWritePart, ctl
    <3>4. CASE StartCGIGet \/ StartCGIPost
      BY <1>2, <3>4, StartEffect DEF Started, Register, ctl
    <3>5. CASE CGITimeout \/ CGIReadMore \/ Reap \/ Interrupt \/ CGIWriteDone \/ CGIWriteBody
      BY <1>2, <3>5 DEF CGITimeout, CGIReadMore, Reap, Interrupt, CGIWriteDone, CGIWriteBody, ctl
    <3>6. CASE Shutdown
      BY <1>2, <3>6 DEF Shutdown, Stop, DestroyCgi, DestroyDead, Stopped
    <3>7. CASE (\E h \in CgiAddr : Script(h)) \/ Clock \/ UNCHANGED vars
      BY <1>2, <3>7, ScriptEffect DEF ChildStep, Clock, ClientLate, CGILate, ctl, vars
    <3>8. QED
      BY <3>1, <3>2, <3>3, <3>4, <3>5, <3>6, <3>7 DEF Next, Loop, Ended
  <2>2. PICK h, c : h = cgiFdToHandler[fd] /\ c = cgiFdToClient[fd]
    OBVIOUS
  <2>3. /\ LiveCgi(h) /\ h \in CgiAddr /\ c \in ClientAddr /\ LiveClient(c)
        /\ clients[c].conn = cgis[h].conn /\ fd = cgis[h].rfd /\ cgis[h] \in Cgi /\ fd # cgis[h].wfd
    <3>1. fd \in Fd
      BY <2>1, AtVisit DEF CGIReadEnd
    <3>2. QED
      BY <2>1, <2>2, <3>1, VisitPipe, Ground DEF CGIReadEnd
  <2>4. /\ waiting' = h /\ cgis' = [cgis EXCEPT ![h] = ReadOutput(h)]
        /\ \E code \in {"500", "cgi"} : clients' = SetResponse(c, cgis[h].conn, code)
    BY <1>2, <2>1, <2>2, <2>3 DEF CGIReadEnd, Conclude
  <2>5. cgis'[h].conn = cgis[h].conn
    BY <2>3, <2>4 DEF ReadOutput, Inv, TypeOK, Cgi
  <2>6. clients'[c].resp # NoResp /\ \A a \in ClientAddr \ {c} : clients'[a] = clients[a]
    BY <2>3, <2>4 DEF SetResponse, NoResp, Inv, TypeOK, Client, NoClient
  <2>7. QED
    BY <2>3, <2>4, <2>5, <2>6 DEF Awaited, Regular, Connections, LiveClient
<1>3. CASE waiting' = NULL
  BY <1>3 DEF Awaited
<1>4. QED
  BY <1>1, <1>2, <1>3

\* It is an invariant of the first regime.
THEOREM AwaitedAnswered ==
    ASSUME FirstRegime
    PROVE  Spec => []Awaited
<1>1. Init => Awaited
  BY DEF Init, Awaited
<1>2. Inv /\ Regular /\ Awaited /\ [Next]_vars => Awaited'
  BY AwaitedStep
<1>3. QED
  BY <1>1, <1>2, Invariance, Regularity, PTL DEF Spec

-----------------------------------------------------------------------------
(* What a connection looks like *)

\* A connection with no client is new or closed.
LEMMA Without ==
    ASSUME NEW c \in Conns, ClientOf(c) = {}
    PROVE  /\ Phase(c) = IF c >= nextConn THEN "new" ELSE "closed"
           /\ Answer(c) = NoResp
BY DEF Phase, Answer

\* A live client is the one of its connection, and so is its response.
LEMMA ClientsConnection ==
    ASSUME Inv, Connections, NEW a \in ClientAddr, LiveClient(a)
    PROVE  LET c == clients[a].conn IN
           /\ c \in Conns /\ c < nextConn /\ ClientOf(c) = {a}
           /\ Answer(c) = clients[a].resp
           /\ clients[a].resp # NoResp => Phase(c) = "answering"
           /\ clients[a].resp = NoResp =>
                 Phase(c) = IF Running(a) THEN "running" ELSE "open"
<1> DEFINE c == clients[a].conn
<1>1. c \in Conns /\ c \in Nat /\ c # 0 /\ c < nextConn /\ nextConn \in Nat
  BY LiveObjects DEF Inv, TypeOK, Client, Conns, Connections
<1>2. \A b \in ClientAddr : clients[b].conn = c => LiveClient(b)
  BY <1>1, LiveObjects DEF Inv, NoClient
<1>3. ClientOf(c) = {a}
  BY <1>2 DEF ClientOf, Connections
<1>4. (\E h \in CgiAddr : cgis[h].conn = c) <=> Running(a)
  BY <1>1, LiveObjects DEF Inv, Running, LiveCgi, NoCgi
<1>5. ~(c >= nextConn)
  BY <1>1
<1>6. Answer(c) = clients[a].resp
  BY <1>3 DEF Answer
<1> HIDE DEF c
<1>7. Phase(c) = IF clients[a].resp # NoResp THEN "answering"
                 ELSE IF Running(a) THEN "running" ELSE "open"
  BY <1>3, <1>4, <1>5 DEF Phase
<1>8. QED
  BY <1>1, <1>3, <1>6, <1>7 DEF c

\* No connection looks different if its client, the response of that and the
\* scripts that work for it are as before, or if it is answered and its script goes.
LEMMA LooksTheSame ==
    ASSUME NEW c \in Conns, c >= nextConn <=> (c >= nextConn)', ClientOf(c)' = ClientOf(c),
           \A a \in ClientOf(c) : clients'[a].resp = clients[a].resp,
           (\E h \in CgiAddr : cgis'[h].conn = c) <=> (\E h \in CgiAddr : cgis[h].conn = c)
    PROVE  Phase(c)' = Phase(c) /\ Answer(c)' = Answer(c)
<1>1. Phase(c)' = Phase(c)
  BY DEF Phase, ClientOf
<1>2. Answer(c)' = Answer(c)
  BY DEF Answer
<1>3. QED
  BY <1>1, <1>2

\* A step that touches the clients and the scripts of one connection only leaves
\* all the others.
LEMMA OthersLookTheSame ==
    ASSUME NEW c \in Conns, nextConn' = nextConn,
           \A a \in ClientAddr :
              \/ clients'[a].conn = clients[a].conn /\ clients'[a].resp = clients[a].resp
              \/ clients[a].conn \in {0, c} /\ clients'[a].conn \in {0, c},
           \A h \in CgiAddr :
              \/ cgis'[h].conn = cgis[h].conn
              \/ cgis[h].conn \in {0, c} /\ cgis'[h].conn \in {0, c}
    PROVE  \A d \in Conns \ {c} : Phase(d)' = Phase(d) /\ Answer(d)' = Answer(d)
<1> SUFFICES ASSUME NEW d \in Conns \ {c}
             PROVE  Phase(d)' = Phase(d) /\ Answer(d)' = Answer(d)
  OBVIOUS
<1>1. d # 0 /\ d # c
  BY DEF Conns
<1>2. ClientOf(d)' = ClientOf(d)
  BY <1>1 DEF ClientOf
<1>3. \A a \in ClientOf(d) : clients'[a].resp = clients[a].resp
  BY <1>1 DEF ClientOf
<1>4. (\E h \in CgiAddr : cgis'[h].conn = d) <=> (\E h \in CgiAddr : cgis[h].conn = d)
  BY <1>1
<1>5. QED
  BY <1>2, <1>3, <1>4, LooksTheSame

-----------------------------------------------------------------------------
(* Each step of the loop is one of the service, or none *)

\* What the service is told of all the connections.
PhaseOf  == [c \in Conns |-> Phase(c)]
AnswerOf == [c \in Conns |-> Answer(c)]

\* Only the connection c looks different after the step.
OnlyAt(c) ==
    /\ PhaseOf' = [PhaseOf EXCEPT ![c] = Phase(c)']
    /\ AnswerOf' = [AnswerOf EXCEPT ![c] = Answer(c)']
    /\ wire' = [wire EXCEPT ![c] = wire'[c]]

LEMMA MovesOne ==
    ASSUME TypeOK, TypeOK', NEW c \in Conns,
           \A d \in Conns \ {c} :
              Phase(d)' = Phase(d) /\ Answer(d)' = Answer(d) /\ wire'[d] = wire[d]
    PROVE  OnlyAt(c)
<1>1. wire \in [Conns -> SUBSET Response] /\ wire' \in [Conns -> SUBSET Response]
  BY DEF TypeOK
<1>2. QED
  BY <1>1 DEF OnlyAt, PhaseOf, AnswerOf

LEMMA MovesNone ==
    ASSUME UNCHANGED wire,
           \A d \in Conns : Phase(d)' = Phase(d) /\ Answer(d)' = Answer(d)
    PROVE  UNCHANGED Service!vars
BY DEF Service!vars

\* accept() opens the next connection.
LEMMA AcceptServes ==
    ASSUME Inv, Inv', Regular, NewClient
    PROVE  Service!Next
<1>0. PICK c : c = nextConn
  OBVIOUS
<1>1. PICK f \in Lowest(Free), a \in {b \in ClientAddr : ~LiveClient(b)} :
        clients' = [clients EXCEPT ![a] =
                      [fd |-> f, conn |-> nextConn, resp |-> NoResp, late |-> FALSE]]
  BY DEF NewClient
<1>2. /\ c \in Conns /\ c \in Nat /\ c # 0 /\ nextConn' = c + 1 /\ UNCHANGED <<cgis, wire>>
      /\ Connections /\ a \in ClientAddr /\ clients[a].conn = 0
  BY <1>0, <1>1, LiveObjects DEF NewClient, Inv, TypeOK, Conns, Regular, NoClient
<1>3. \A b \in ClientAddr : clients'[b] = IF b = a
         THEN [fd |-> f, conn |-> c, resp |-> NoResp, late |-> FALSE] ELSE clients[b]
  BY <1>0, <1>1, <1>2 DEF Inv, TypeOK
<1>31. /\ clients'[a].conn = c /\ clients'[a].resp = NoResp
       /\ \A b \in ClientAddr \ {a} : clients'[b] = clients[b]
  BY <1>2, <1>3
<1>4. ClientOf(c) = {} /\ ClientOf(c)' = {a} /\ \A h \in CgiAddr : cgis'[h].conn # c
  <2>1. \A b \in ClientAddr : clients[b].conn # c
    BY <1>0, <1>2, LiveObjects DEF Connections, Inv, NoClient, TypeOK
  <2>2. \A h \in CgiAddr : cgis[h].conn # c
    BY <1>0, <1>2, LiveObjects DEF Connections, Inv, NoCgi, TypeOK
  <2>3. QED
    BY <1>2, <1>31, <2>1, <2>2 DEF ClientOf
<1>5. Phase(c) = "new" /\ Answer(c) = NoResp
  BY <1>0, <1>2, <1>4, Without
<1>6. ~(c >= nextConn)'
  BY <1>2
<1>7. Phase(c)' = "open" /\ Answer(c)' = NoResp
  BY <1>31, <1>4, <1>6 DEF Phase, Answer
<1>8. ASSUME NEW d \in Conns \ {c}
      PROVE  Phase(d)' = Phase(d) /\ Answer(d)' = Answer(d)
  <2>1. ClientOf(d)' = ClientOf(d)
    BY <1>2, <1>31 DEF ClientOf, Conns
  <2>2. d >= nextConn <=> (d >= nextConn)'
    BY <1>0, <1>2 DEF Conns
  <2>3. \A b \in ClientOf(d) : clients'[b].resp = clients[b].resp
    BY <1>2, <1>31 DEF ClientOf, Conns
  <2>4. QED
    BY <1>2, <2>1, <2>2, <2>3, LooksTheSame
<1>9. OnlyAt(c) /\ UNCHANGED wire
  BY <1>2, <1>8, MovesOne DEF Inv
<1>10. Service!Accept(c)
  BY <1>2, <1>5, <1>7, <1>9 DEF OnlyAt, PhaseOf, AnswerOf, Service!Accept
<1>11. QED
  BY <1>2, <1>10 DEF Service!Next

\* A request is answered at once, or by a script that ends: one of the two ways a
\* response is made.
LEMMA AnswerServes ==
    ASSUME Inv, Inv', Regular, ReadAnswered
    PROVE  Service!Next
<1>1. PICK a, c : a = clientMap[fd] /\ c = clients[a].conn
  OBVIOUS
<1>2. /\ a \in ClientAddr /\ LiveClient(a) /\ clients[a].resp = NoResp /\ ~Running(a) /\ Connections
  BY <1>1, VisitClient DEF ReadAnswered, Respond, Regular
<1>3. /\ c \in Conns /\ ClientOf(c) = {a} /\ Phase(c) = "open"
  BY <1>1, <1>2, ClientsConnection
<1>4. /\ clients' = SetResponse(a, c, "direct") /\ UNCHANGED <<cgis, nextConn, wire>>
  BY <1>1 DEF ReadAnswered, Respond, net
<1>5. /\ \A b \in ClientAddr \ {a} : clients'[b] = clients[b]
      /\ clients'[a].conn = c /\ clients'[a].resp = [for |-> c, code |-> "direct"]
  BY <1>1, <1>2, <1>4, LiveObjects DEF SetResponse, Inv, TypeOK, Client
<1>6. \A d \in Conns \ {c} : Phase(d)' = Phase(d) /\ Answer(d)' = Answer(d)
  BY <1>1, <1>2, <1>3, <1>4, <1>5, OthersLookTheSame
<1>7. ClientOf(c)' = {a}
  BY <1>1, <1>3, <1>5 DEF ClientOf
<1>8. ~(c >= nextConn) /\ ~(c >= nextConn)'
  BY <1>2, <1>3, <1>4 DEF Phase
<1>9. Phase(c)' = "answering" /\ Answer(c)' = [for |-> c, code |-> "direct"]
  BY <1>3, <1>5, <1>7, <1>8 DEF Phase, Answer, NoResp
<1>10. OnlyAt(c)
  BY <1>3, <1>4, <1>6, MovesOne DEF Inv
<1>11. Service!Decide(c)
  BY <1>3, <1>4, <1>9, <1>10 DEF OnlyAt, PhaseOf, AnswerOf, Service!Decide
<1>12. QED
  BY <1>3, <1>11 DEF Service!Next

\* start() gives the client of the request a script.
LEMMA StartServes ==
    ASSUME Inv, Inv', Regular, StartCGIGet \/ StartCGIPost
    PROVE  Service!Next
<1>1. PICK a, c : a = clientMap[fd] /\ c = clients[a].conn
  OBVIOUS
<1>2. PICK h \in CgiAddr, H \in Cgi : ~LiveCgi(h) /\ H.conn = c /\ Register(a, h, H)
  BY <1>1, StartEffect DEF Started
<1>3. /\ a \in ClientAddr /\ LiveClient(a) /\ clients[a].resp = NoResp /\ ~Running(a) /\ Connections
  BY <1>1, StartEffect, VisitClient DEF Regular
<1>4. c \in Conns /\ ClientOf(c) = {a} /\ Phase(c) = "open" /\ Answer(c) = NoResp
  BY <1>1, <1>3, ClientsConnection
<1>5. /\ UNCHANGED <<nextConn, wire>>
      /\ cgis'[h].conn = c /\ \A g \in CgiAddr \ {h} : cgis'[g] = cgis[g]
      /\ \A b \in ClientAddr : /\ clients'[b].conn = clients[b].conn
                               /\ clients'[b].resp = clients[b].resp
  BY <1>2, <1>3 DEF Register, net, Inv, TypeOK, Client, NoClient
<1>6. cgis[h].conn = 0
  BY <1>2, LiveObjects DEF Inv, NoCgi
<1>7. \A d \in Conns \ {c} : Phase(d)' = Phase(d) /\ Answer(d)' = Answer(d)
  BY <1>4, <1>5, <1>6, OthersLookTheSame
<1>8. ClientOf(c)' = {a} /\ ~(c >= nextConn)'
  BY <1>4, <1>5 DEF ClientOf, Phase
<1>9. Phase(c)' = "running" /\ Answer(c)' = NoResp
  BY <1>3, <1>5, <1>8 DEF Phase, Answer
<1>10. OnlyAt(c)
  BY <1>4, <1>5, <1>7, MovesOne DEF Inv
<1>11. Service!Run(c)
  <2>1. AnswerOf' = AnswerOf
    BY <1>4, <1>7, <1>9 DEF AnswerOf
  <2>2. QED
    BY <1>4, <1>5, <1>9, <1>10, <2>1 DEF OnlyAt, PhaseOf, AnswerOf, Service!Run
<1>12. QED
  BY <1>4, <1>11 DEF Service!Next

\* The end of a script, or of the time it was given, decides the response.
LEMMA ConcludeServes ==
    ASSUME Inv, Inv', Regular, CGITimeout \/ CGIReadEnd
    PROVE  Service!Next
<1>1. PICK h, c, n : h = cgiFdToHandler[fd] /\ c = cgiFdToClient[fd] /\ n = clients[c].conn
  OBVIOUS
<1>2. PICK b \in {"cgiTimeout", "cgiRead"} : Visit(b)
  BY DEF CGITimeout, CGIReadEnd
<1>3. /\ h \in CgiAddr /\ LiveCgi(h) /\ cgis[h] \in Cgi /\ cgis[h].conn = n
      /\ c \in ClientAddr /\ LiveClient(c) /\ clients[c].resp = NoResp /\ Connections
  BY <1>1, <1>2, VisitPipe DEF Regular
<1>4. PICK code \in {"cgi", "500", "504"} :
        /\ clients' = SetResponse(c, n, code) /\ UNCHANGED <<nextConn, wire>>
        /\ Delete(h) \/ cgis' = [cgis EXCEPT ![h] = ReadOutput(h)]
  <2>1. CASE CGITimeout
    BY <1>1, <1>3, <2>1 DEF CGITimeout, Conclude, net
  <2>2. CASE CGIReadEnd
    BY <1>1, <1>3, <2>2 DEF CGIReadEnd, Conclude, net
  <2>3. QED
    BY <2>1, <2>2
<1>5. Running(c)
  BY <1>1, <1>3 DEF Running, LiveCgi
<1>6. n \in Conns /\ ClientOf(n) = {c} /\ Phase(n) = "running"
  BY <1>1, <1>3, <1>5, ClientsConnection
<1>7. /\ \A b2 \in ClientAddr \ {c} : clients'[b2] = clients[b2]
      /\ clients'[c].conn = n /\ clients'[c].resp = [for |-> n, code |-> code]
  BY <1>1, <1>3, <1>4, LiveObjects DEF SetResponse, Inv, TypeOK, Client
<1>8. cgis'[h].conn \in {0, n} /\ \A g \in CgiAddr \ {h} : cgis'[g] = cgis[g]
  <2>1. ReadOutput(h).conn = n
    BY <1>3 DEF ReadOutput, Cgi
  <2>2. CASE Delete(h)
    BY <1>3, <2>2 DEF Delete, NoCgi, Inv, TypeOK
  <2>3. CASE cgis' = [cgis EXCEPT ![h] = ReadOutput(h)]
    BY <1>3, <2>1, <2>3 DEF Inv, TypeOK
  <2>4. QED
    BY <1>4, <2>2, <2>3
<1>9. \A d \in Conns \ {n} : Phase(d)' = Phase(d) /\ Answer(d)' = Answer(d)
  BY <1>1, <1>3, <1>4, <1>6, <1>7, <1>8, OthersLookTheSame
<1>10. ClientOf(n)' = {c} /\ ~(n >= nextConn)'
  BY <1>1, <1>4, <1>6, <1>7 DEF ClientOf, Phase
<1>11. Phase(n)' = "answering" /\ Answer(n)' = [for |-> n, code |-> code]
  BY <1>6, <1>7, <1>10 DEF Phase, Answer, NoResp
<1>12. OnlyAt(n)
  BY <1>4, <1>6, <1>9, MovesOne DEF Inv
<1>13. Service!Decide(n)
  BY <1>4, <1>6, <1>11, <1>12 DEF OnlyAt, PhaseOf, AnswerOf, Service!Decide
<1>14. QED
  BY <1>6, <1>13 DEF Service!Next

\* A part of the response goes out: the response of the connection and no other.
LEMMA WriteServes ==
    ASSUME Inv, Inv', Regular, ClientWritePart
    PROVE  Service!Next
<1>1. PICK a, c : a = clientMap[fd] /\ c = clients[a].conn
  OBVIOUS
<1>2. /\ a \in ClientAddr /\ LiveClient(a) /\ clients[a].resp # NoResp
      /\ Connections /\ Answers
  BY <1>1, VisitClient DEF ClientWritePart, Regular
<1>3. c \in Conns /\ Phase(c) = "answering" /\ Answer(c) = clients[a].resp
  BY <1>1, <1>2, ClientsConnection
<1>4. /\ wire' = [wire EXCEPT ![c] = @ \cup {Answer(c)}]
      /\ UNCHANGED <<clients, cgis, nextConn>>
  BY <1>1, <1>3 DEF ClientWritePart, Sent, heap
<1>5. wire' = [wire EXCEPT ![c] = {Answer(c)}]
  BY <1>1, <1>2, <1>3, <1>4 DEF Answers
<1>6. UNCHANGED <<PhaseOf, AnswerOf>>
  BY <1>4 DEF PhaseOf, AnswerOf, Phase, Answer, ClientOf
<1>7. Service!Send(c)
  BY <1>3, <1>5, <1>6 DEF PhaseOf, AnswerOf, Service!Send
<1>8. QED
  BY <1>3, <1>7 DEF Service!Next

\* A connection is closed when its response is out, or when its peer is gone or
\* silent: never while its script runs.
LEMMA CloseServes ==
    ASSUME Inv, Inv', Regular,
           ClientTimeout \/ ClientError \/ ClientGone \/ ClientWriteFails \/ ClientWriteRest
    PROVE  Service!Next
<1>1. PICK a, c : a = clientMap[fd] /\ c = clients[a].conn
  OBVIOUS
<1>2. PICK b \in {"clientTimeout", "error", "clientRead", "clientWrite"} :
        /\ Visit(b) /\ Disconnect
        /\ wire' = wire \/ (clients[a].resp # NoResp /\ wire' = Sent(a))
  BY <1>1 DEF ClientTimeout, ClientError, ClientGone, ClientWriteFails, ClientWriteRest
<1>3. a \in ClientAddr /\ LiveClient(a) /\ ~Running(a) /\ Connections /\ Answers
  BY <1>1, <1>2, VisitClient DEF Regular
<1>4. /\ c \in Conns /\ ClientOf(c) = {a} /\ Answer(c) = clients[a].resp
      /\ Phase(c) \in {"open", "answering"}
      /\ clients[a].resp # NoResp => Phase(c) = "answering"
  BY <1>1, <1>3, ClientsConnection
<1>5. /\ clients' = [clients EXCEPT ![a] = NoClient] /\ UNCHANGED <<cgis, nextConn>>
  BY <1>1, <1>2, <1>3, NullAssumption DEF Disconnect
<1>6. clients'[a].conn = 0 /\ \A d \in ClientAddr \ {a} : clients'[d] = clients[d]
  BY <1>3, <1>5 DEF NoClient, Inv, TypeOK
<1>7. \A d \in Conns \ {c} : Phase(d)' = Phase(d) /\ Answer(d)' = Answer(d)
  BY <1>1, <1>4, <1>5, <1>6, OthersLookTheSame
<1>8. ClientOf(c)' = {} /\ ~(c >= nextConn)'
  BY <1>4, <1>5, <1>6 DEF ClientOf, Phase, Conns
<1>9. Phase(c)' = "closed" /\ Answer(c)' = NoResp
  BY <1>8 DEF Phase, Answer
<1>10. wire' = wire \/ (Phase(c) = "answering" /\ wire' = [wire EXCEPT ![c] = {Answer(c)}])
  BY <1>1, <1>2, <1>3, <1>4 DEF Sent, Answers
<1>11. OnlyAt(c)
  BY <1>4, <1>7, <1>10, MovesOne DEF Inv, TypeOK
<1>12. Service!Close(c)
  BY <1>4, <1>9, <1>10, <1>11 DEF OnlyAt, PhaseOf, AnswerOf, Service!Close, Service!NoResp, NoResp
<1>13. QED
  BY <1>4, <1>12 DEF Service!Next

\* The destructor closes all the connections there are.
LEMMA StopServes ==
    ASSUME Inv, Stop
    PROVE  Service!Next
<1>1. /\ \A c \in Conns : ClientOf(c)' = {}
      /\ UNCHANGED <<nextConn, wire>>
  BY DEF Stop, ClientOf, NoClient, Conns, net
<1>2. \A c \in Conns : /\ Phase(c)' = IF Phase(c) = "new" THEN "new" ELSE "closed"
                       /\ Answer(c)' = NoResp
  BY <1>1 DEF Phase, Answer
<1>3. Service!Shutdown
  BY <1>1, <1>2 DEF Service!Shutdown, Service!NoResp, NoResp
<1>4. QED
  BY <1>3 DEF Service!Next

\* A step that accepts, answers, writes and closes nothing.
LEMMA NothingServed ==
    ASSUME UNCHANGED <<nextConn, wire>>,
           \A a \in ClientAddr : /\ clients'[a].conn = clients[a].conn
                                 /\ clients'[a].resp = clients[a].resp,
           \A h \in CgiAddr : cgis'[h].conn = cgis[h].conn
    PROVE  UNCHANGED Service!vars
<1>1. \A c \in Conns : Phase(c)' = Phase(c) /\ Answer(c)' = Answer(c)
  <2> SUFFICES ASSUME NEW c \in Conns PROVE Phase(c)' = Phase(c) /\ Answer(c)' = Answer(c)
    OBVIOUS
  <2>1. ClientOf(c)' = ClientOf(c)
    BY DEF ClientOf
  <2>2. \A a \in ClientOf(c) : clients'[a].resp = clients[a].resp
    BY DEF ClientOf
  <2>3. QED
    BY <2>1, <2>2, LooksTheSame
<1>2. QED
  BY <1>1, MovesNone

\* A handler goes of which nobody waits for the output: its connection has been
\* answered, or is closed.
LEMMA HandlerGoes ==
    ASSUME Inv, Connections, NEW h \in CgiAddr, LiveCgi(h), Delete(h) \/ Abandon(h),
           UNCHANGED <<clients, nextConn, wire>>,
           \A a \in ClientAddr : LiveClient(a) /\ clients[a].conn = cgis[h].conn
                                    => clients[a].resp # NoResp
    PROVE  UNCHANGED Service!vars
<1>1. PICK n : n = cgis[h].conn
  OBVIOUS
<1>2. n \in Conns
  BY <1>1, LiveObjects DEF Inv, Cgi
<1>3. cgis'[h].conn = 0 /\ \A g \in CgiAddr \ {h} : cgis'[g] = cgis[g]
  BY DEF Delete, Abandon, NoCgi, Inv, TypeOK
<1>4. \A d \in Conns \ {n} : Phase(d)' = Phase(d) /\ Answer(d)' = Answer(d)
  BY <1>1, <1>2, <1>3, OthersLookTheSame
<1>5. ClientOf(n)' = ClientOf(n)
  BY DEF ClientOf
<1>6. \A a \in ClientOf(n) : clients[a].resp # NoResp
  <2>1. \A a \in ClientOf(n) : a \in ClientAddr /\ clients[a].conn = n /\ LiveClient(a)
    BY <1>2, LiveObjects DEF ClientOf, Inv, NoClient, Conns
  <2>2. QED
    BY <1>1, <2>1
<1>7. Phase(n)' = Phase(n) /\ Answer(n)' = Answer(n)
  BY <1>5, <1>6 DEF Phase, Answer, ClientOf
<1>8. QED
  BY <1>4, <1>7, MovesNone

\* What poll() reports, what a script or the clock does, and the end of a handler
\* change no connection.
LEMMA QuietServes ==
    ASSUME Inv, Regular, Awaited,
           \/ Poll \/ EndPass \/ Nothing \/ AcceptFails \/ ReadIncomplete \/ CGIReadMore
           \/ CGIWriteDone \/ Reap \/ Interrupt \/ Stopped \/ UNCHANGED vars
           \/ (\E h \in CgiAddr : DestroyCgi(h) \/ Script(h)) \/ Clock
    PROVE  UNCHANGED Service!vars
<1>1. CASE \/ Poll \/ EndPass \/ Nothing \/ AcceptFails \/ ReadIncomplete \/ CGIReadMore
           \/ Stopped \/ UNCHANGED vars
  <2>1. UNCHANGED <<clients, cgis, nextConn, wire>>
    BY <1>1 DEF Poll, EndPass, Nothing, AcceptFails, ReadIncomplete, CGIReadMore, Stopped, Skip,
                heap, net, vars
  <2>2. QED
    BY <2>1, NothingServed
<1>2. CASE CGIWriteDone
  <2>1. ~cgis[cgiFdToHandler[fd]].error
    BY <1>2, VisitPipe DEF CGIWriteDone
  <2>2. UNCHANGED <<clients, cgis, nextConn, wire>>
    BY <1>2, <2>1 DEF CGIWriteDone, net
  <2>3. QED
    BY <2>2, NothingServed
<1>3. CASE Reap \/ Interrupt
  <2>1. waiting \in CgiAddr /\ LiveCgi(waiting)
    BY <1>3 DEF Reap, Interrupt, Inv, TypeOK, OneChildPerHandler
  <2>2. (Delete(waiting) \/ Abandon(waiting)) /\ UNCHANGED <<clients, nextConn, wire>>
    BY <1>3 DEF Reap, Interrupt, net
  <2>3. QED
    BY <1>3, <2>1, <2>2, HandlerGoes DEF Reap, Interrupt, Awaited, Regular
<1>4. ASSUME NEW h \in CgiAddr, DestroyCgi(h)
      PROVE  UNCHANGED Service!vars
  <2>1. /\ LiveCgi(h) /\ (Delete(h) \/ Abandon(h)) /\ UNCHANGED <<clients, nextConn, wire>>
        /\ \A a \in ClientAddr : ~LiveClient(a)
    BY <1>4 DEF DestroyCgi, net, Regular, Ending
  <2>2. QED
    BY <2>1, HandlerGoes DEF Regular
<1>5. CASE (\E h \in CgiAddr : Script(h)) \/ Clock
  <2>1. UNCHANGED <<cgis, nextConn, wire>>
    BY <1>5, ScriptEffect DEF ChildStep, Clock, ClientLate, CGILate, net, heap
  <2>2. \A a \in ClientAddr : /\ clients'[a].conn = clients[a].conn
                              /\ clients'[a].resp = clients[a].resp
    BY <1>5, ScriptEffect
       DEF ChildStep, Clock, ClientLate, CGILate, heap, Inv, TypeOK, Client, NoClient, LiveClient
  <2>3. QED
    BY <2>1, <2>2, NothingServed
<1>6. QED
  BY <1>1, <1>2, <1>3, <1>4, <1>5

\* Every step of the loop is a step of the service or leaves it alone.
LEMMA ServiceStep ==
    ASSUME Inv, Inv', Regular, Awaited, [Next]_vars
    PROVE  [Service!Next]_(Service!vars)
<1>1. CASE NewClient
  BY <1>1, AcceptServes
<1>2. CASE ReadAnswered \/ StartFails
  BY <1>2, FailedStart, AnswerServes
<1>3. CASE StartCGIGet \/ StartCGIPost
  BY <1>3, StartServes
<1>4. CASE CGITimeout \/ CGIReadEnd
  BY <1>4, ConcludeServes
<1>5. CASE ClientWritePart
  BY <1>5, WriteServes
<1>6. CASE ClientTimeout \/ ClientError \/ ClientGone \/ ClientWriteFails \/ ClientWriteRest
  BY <1>6, CloseServes
<1>7. CASE Stop
  BY <1>7, StopServes
<1>8. CASE CGIWriteBody \/ Undefined
  BY <1>8, NoWriteBody, NoUndefinedStep
<1>9. ASSUME NEW h \in CgiAddr, DestroyDead(h)
      PROVE  FALSE
  BY <1>9, NullAssumption DEF DestroyDead, Regular, Ending
<1>10. CASE \/ Poll \/ EndPass \/ Nothing \/ AcceptFails \/ ReadIncomplete \/ CGIReadMore
            \/ CGIWriteDone \/ Reap \/ Interrupt \/ Stopped \/ UNCHANGED vars
            \/ (\E h \in CgiAddr : DestroyCgi(h) \/ Script(h)) \/ Clock
  BY <1>10, QuietServes
<1>11. QED
  BY <1>1, <1>2, <1>3, <1>4, <1>5, <1>6, <1>7, <1>8, <1>9, <1>10 DEF Next, Loop, Shutdown, Ended

\* Before the first connection.
LEMMA ServiceInit == Init => Service!Init
<1> SUFFICES ASSUME Init PROVE Service!Init
  OBVIOUS
<1>1. \A c \in Conns : ClientOf(c) = {} /\ c >= nextConn
  BY SizeAssumption DEF Init, ClientOf, NoClient, Conns
<1>2. \A c \in Conns : Phase(c) = "new" /\ Answer(c) = NoResp
  BY <1>1 DEF Phase, Answer
<1>3. QED
  BY <1>2 DEF Init, Service!Init, Service!NoResp, NoResp

\* In the first regime the loop implements ConnectionService: each connection is
\* accepted, answered once, by one script or by none, sent that answer and no other,
\* and closed, whatever else the server does between those steps.
THEOREM Implements ==
    ASSUME FirstRegime
    PROVE  Spec => ImplementsService
<1>1. Init => Service!Init
  BY ServiceInit
<1>2. Inv /\ Inv' /\ Regular /\ Awaited /\ [Next]_vars => [Service!Next]_(Service!vars)
  BY ServiceStep
<1>3. QED
  BY <1>1, <1>2, Invariance, Regularity, AwaitedAnswered, PTL
     DEF Spec, ImplementsService, Service!Spec

\* What a step may do to a connection: what is closed stays closed and silent, what
\* has its answer keeps it until it is closed, what waits for a script is closed by
\* the shutdown only, and what went out is part of the answer.
Course(c) ==
    /\ Phase(c) = "closed" => Phase(c)' = "closed" /\ wire'[c] = wire[c]
    /\ Phase(c) = "answering" =>
          Phase(c)' = "closed" \/ (Phase(c)' = "answering" /\ Answer(c)' = Answer(c))
    /\ Phase(c) = "running" =>
          \/ Phase(c)' \in {"running", "answering"}
          \/ \A d \in Conns : Phase(d)' \in {"new", "closed"}
    /\ wire'[c] # wire[c] => Phase(c) = "answering" /\ wire'[c] = {Answer(c)}

\* No answer reaches a connection that is closed, or another one than its own, when
\* its descriptor, its address or its script's are used again: a step of the loop
\* takes each connection along its course.
THEOREM ConnectionsKeepCourse ==
    ASSUME FirstRegime
    PROVE  Spec => [][\A c \in Conns : Course(c)]_vars
<1>1. ASSUME Inv, [Service!Next]_(Service!vars), NEW c \in Conns
      PROVE  Course(c)
  <2>1. \A d \in Conns : Phase(d) = PhaseOf[d] /\ Answer(d) = AnswerOf[d]
    BY DEF PhaseOf, AnswerOf
  <2>2. \A d \in Conns : Phase(d)' = PhaseOf'[d] /\ Answer(d)' = AnswerOf'[d]
    BY DEF PhaseOf, AnswerOf
  <2>3. /\ DOMAIN PhaseOf = Conns /\ DOMAIN AnswerOf = Conns /\ DOMAIN wire = Conns
        /\ PhaseOf = [d \in Conns |-> PhaseOf[d]] /\ AnswerOf = [d \in Conns |-> AnswerOf[d]]
        /\ wire = [d \in Conns |-> wire[d]]
    BY <1>1 DEF PhaseOf, AnswerOf, Inv, TypeOK
  <2>4. CASE UNCHANGED Service!vars
    BY <2>1, <2>2, <2>4 DEF Course, Service!vars, PhaseOf, AnswerOf
  <2>5. ASSUME NEW d \in Conns,
               Service!Accept(d) \/ Service!Run(d) \/ Service!Decide(d) \/ Service!Send(d)
               \/ Service!Close(d)
        PROVE  Course(c)
    <3>1. CASE Service!Accept(d)
      BY <2>1, <2>2, <2>3, <3>1 DEF Course, PhaseOf, AnswerOf, Service!Accept
    <3>2. CASE Service!Run(d)
      BY <2>1, <2>2, <2>3, <3>2 DEF Course, PhaseOf, AnswerOf, Service!Run
    <3>3. CASE Service!Decide(d)
      BY <2>1, <2>2, <2>3, <3>3 DEF Course, PhaseOf, AnswerOf, Service!Decide
    <3>4. CASE Service!Send(d)
      BY <2>1, <2>2, <2>3, <3>4 DEF Course, PhaseOf, AnswerOf, Service!Send
    <3>5. CASE Service!Close(d)
      BY <2>1, <2>2, <2>3, <3>5 DEF Course, PhaseOf, AnswerOf, Service!Close
    <3> QED
      BY <2>5, <3>1, <3>2, <3>3, <3>4, <3>5
  <2>6. CASE Service!Shutdown
    BY <2>1, <2>2, <2>6 DEF Course, Service!Shutdown, PhaseOf, AnswerOf
  <2>7. QED
    BY <1>1, <2>4, <2>5, <2>6 DEF Service!Next
<1>2. Inv /\ Inv' /\ Regular /\ Awaited /\ [Next]_vars => \A c \in Conns : Course(c)
  BY <1>1, ServiceStep
<1>3. QED
  BY <1>2, Invariance, Regularity, AwaitedAnswered, PTL DEF Spec
=============================================================================
