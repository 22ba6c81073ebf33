----------------------------- MODULE EventLoop -----------------------------
(***************************************************************************)
(* The poll() loop of the web server: class EventLoop, with the Client     *)
(* and CGIHandler objects it owns, the kernel's descriptor table and the   *)
(* script processes at the other end of the pipes.                         *)
(*                                                                         *)
(* The program is single-threaded: one action below is one turn of the     *)
(* for loop of processEvents (a whole handler), one call of poll(), one    *)
(* return from a waitpid() that blocks, or a step of the destructor.  The  *)
(* interleaving comes from the outside: peers, scripts and clocks move     *)
(* between any two of them, and poll()'s answer ages while the pass that   *)
(* uses it adds, closes and renumbers descriptors.                         *)
(*                                                                         *)
(* Descriptors are numbers, handed out lowest first and reused; objects    *)
(* live at addresses, reused by later allocations.  A map entry that       *)
(* outlives its object is therefore visible: following it reaches a free   *)
(* address ("undefined" behaviour, where the model stops) or whatever      *)
(* object was allocated there since.                                       *)
(***************************************************************************)
EXTENDS Naturals, FiniteSets, SequencesExt

CONSTANTS
    NServers,         \* listening sockets, descriptors 1..NServers
    MaxFd,            \* size of the descriptor table: accept and pipe fail beyond it
    ClientAddr,       \* addresses `new Client' can return
    CgiAddr,          \* addresses `new CGIHandler' can return
    MaxConns,         \* bound on the connections accepted in a behaviour
    MaxBody,          \* bound on the size of a POST body, in units of the pipe
    PipeCap,          \* what the stdin pipe of a script holds
    DropWhileRunning, \* may a peer reset, or be idle past TIMEOUT, during its script?
    NULL

ASSUME SizeAssumption ==
    /\ NServers \in Nat /\ MaxFd \in Nat /\ NServers <= MaxFd
    /\ MaxConns \in Nat /\ MaxBody \in Nat
    /\ PipeCap \in Nat \ {0}
    /\ DropWhileRunning \in BOOLEAN

ASSUME NullAssumption == NULL \notin ClientAddr /\ NULL \notin CgiAddr

VARIABLES
    pollFds,         \* _pollFds: the array given to poll(), in order
    i,               \* index of the entry processEvents looks at; 0 in poll()
    clientMap,       \* _clientMap:      descriptor -> Client*
    cgiFdToHandler,  \* _cgiFdToHandler: descriptor -> CGIHandler*
    cgiFdToClient,   \* _cgiFdToClient:  descriptor -> Client*
    cgiStartTime,    \* _cgiStartTime:   descriptor -> absent, or is CGI_TIMEOUT over?
    clients,         \* the Client at every address
    cgis,            \* the CGIHandler at every address
    child,           \* the process forked by the handler at an address, and its pipes
    openFds,         \* the descriptors the process has open
    nextConn,        \* connections are numbered in the order they are accepted
    wire,            \* the responses of which some bytes went out on a connection
    proc,            \* "running", "stopping" (in the destructor), "stopped", "undefined"
    waiting,         \* the handler whose destructor blocks in waitpid(), or NULL
    interrupted      \* has a signal cleared g_running by ending such a wait?

vars == <<pollFds, i, clientMap, cgiFdToHandler, cgiFdToClient, cgiStartTime,
          clients, cgis, child, openFds, nextConn, wire, proc, waiting, interrupted>>

maps == <<cgiFdToHandler, cgiFdToClient, cgiStartTime>>
heap == <<clients, cgis, child>>
net  == <<nextConn, wire>>
ctl  == <<proc, waiting, interrupted>>

Fd    == 1..MaxFd
NoFd  == 0                                   \* -1 in the code
Conns == 1..MaxConns
Event == {"IN", "OUT", "HUP", "ERR", "NVAL"} \* revents
Mask  == {"IN", "OUT", "PAUSE"}              \* events: POLLIN, POLLOUT or none

\* What a response buffer holds: the connection whose request it answers and
\* how it was made. "direct" is any response decided while the request is read.
NoResp   == [for |-> 0, code |-> "none"]
Response == [for : Conns, code : {"direct", "cgi", "500", "504"}]

NoClient == [fd |-> NoFd, conn |-> 0, resp |-> NoResp, late |-> FALSE]
Client   == [fd : Fd, conn : Conns, resp : Response \cup {NoResp}, late : BOOLEAN]

\* rfd is _pipeOut[0], wfd is _pipeIn[1]; conn is the connection that asked.
NoCgi == [live |-> FALSE, rfd |-> NoFd, wfd |-> NoFd, body |-> 0,
          done |-> FALSE, error |-> FALSE, conn |-> 0]
Cgi   == [live : {TRUE}, rfd : Fd \cup {NoFd}, wfd : Fd \cup {NoFd}, body : 0..MaxBody,
          done : BOOLEAN, error : BOOLEAN, conn : Conns]

\* st "none" is _pid = -1; stdin, stdout: does the script hold its end open?
\* out: is there output to read; fill: how full its stdin pipe is.
NoChild == [st |-> "none", ok |-> TRUE, stdin |-> FALSE, stdout |-> FALSE,
            out |-> FALSE, fill |-> 0]
Child   == [st : {"running", "exited"}, ok : BOOLEAN, stdin : BOOLEAN,
            stdout : BOOLEAN, out : BOOLEAN, fill : 0..PipeCap]

Entry(fd, ev) == [fd |-> fd, events |-> ev, revents |-> {}]

Init ==
    /\ pollFds = [k \in 1..NServers |-> Entry(k, "IN")]
    /\ i = 0
    /\ clientMap = [f \in Fd |-> NULL]
    /\ cgiFdToHandler = [f \in Fd |-> NULL]
    /\ cgiFdToClient = [f \in Fd |-> NULL]
    /\ cgiStartTime = [f \in Fd |-> "none"]
    /\ clients = [a \in ClientAddr |-> NoClient]
    /\ cgis = [h \in CgiAddr |-> NoCgi]
    /\ child = [h \in CgiAddr |-> NoChild]
    /\ openFds = 1..NServers
    /\ nextConn = 1
    /\ wire = [c \in Conns |-> {}]
    /\ proc = "running"
    /\ waiting = NULL
    /\ interrupted = FALSE

-----------------------------------------------------------------------------
(* Predicates and helpers *)

IsServer(fd)        == fd \in 1..NServers
IsCgiFd(fd)         == cgiFdToHandler[fd] # NULL
IsCGITimeout(fd)    == cgiStartTime[fd] = "late"
NeverTimedOut(fd)   == FALSE                                    \* mutation
IsClientTimeout(fd) == /\ ~IsServer(fd)
                       /\ clientMap[fd] # NULL
                       /\ clients[clientMap[fd]].late
AnyError(e)   == ~IsServer(e.fd) /\ e.revents \cap {"ERR", "HUP"} # {}   \* mutation
IsError(e)    == ~IsServer(e.fd) /\ ~IsCgiFd(e.fd) /\ e.revents \cap {"ERR", "HUP"} # {}
IsReadable(e) == e.revents \cap {"IN", "HUP"} # {}
IsWritable(e) == "OUT" \in e.revents

\* The handler processEvents, handleReadEvent and handleWriteEvent choose.
Branch(e) ==
    IF IsCGITimeout(e.fd) THEN "cgiTimeout"
    ELSE IF IsClientTimeout(e.fd) THEN "clientTimeout"
    ELSE IF IsError(e) THEN "error"
    ELSE IF IsReadable(e)
         THEN IF IsServer(e.fd) THEN "accept"
              ELSE IF IsCgiFd(e.fd) THEN "cgiRead" ELSE "clientRead"
    ELSE IF IsWritable(e)
         THEN IF IsCgiFd(e.fd) THEN "cgiWrite" ELSE "clientWrite"
    ELSE "nothing"

LiveClient(p) == p \in ClientAddr /\ clients[p].fd # NoFd
LiveCgi(p)    == p \in CgiAddr /\ cgis[p].live

\* changeEvent and cleanupCGIWriteFd stop at the first entry with the descriptor.
IsFirst(p, k, fd) == p[k].fd = fd /\ \A j \in 1..(k - 1) : p[j].fd # fd

KeepEvent(p, fd, ev) == p                                       \* mutation
ChangeEvent(p, fd, ev) ==
    [k \in DOMAIN p |-> IF IsFirst(p, k, fd) THEN [p[k] EXCEPT !.events = ev] ELSE p[k]]

EraseNone(p, fd) == p                                           \* mutation
EraseUnchecked(p, fd) ==                                        \* mutation
    RemoveAt(p, IF \E k \in DOMAIN p : p[k].fd = fd
                THEN CHOOSE k \in DOMAIN p : IsFirst(p, k, fd) ELSE 1)
EraseFirst(p, fd) ==
    IF \E k \in DOMAIN p : p[k].fd = fd
    THEN RemoveAt(p, CHOOSE k \in DOMAIN p : IsFirst(p, k, fd))
    ELSE p

\* removeFromPoll decrements i unless it is the first index; the loop increments it.
AfterErase == IF i > 1 THEN i ELSE i + 1

\* map.erase, for all the keys of F
ForgetNone(map, F) == map                                       \* mutation
Forget(map, F) == [f \in Fd |-> IF f \in F THEN NULL ELSE map[f]]

SetResponse(a, c, code) == [clients EXCEPT ![a].resp = [for |-> c, code |-> code]]

\* The kernel hands out the lowest free descriptor: Lowest(F) holds it, or is
\* empty when F is. pipe() takes two, <<read end, write end>>.
Free == Fd \ openFds
Lowest(F) == {f \in F : \A g \in F : f <= g}
Pipes(F) == UNION {{<<rd, wr>> : wr \in Lowest(F \ {rd})} : rd \in Lowest(F)}

-----------------------------------------------------------------------------
(* poll() *)

\* What is true of a descriptor when poll() looks: sockets in `ready' can be
\* read and written, the peers of those in `reset' are gone.
Condition(fd, ready, reset) ==
    { ev \in Event :
        \/ ev = "IN"  /\ \/ fd \in ready
                         \/ \E h \in CgiAddr : cgis[h].rfd = fd /\ child[h].out
        \/ ev = "OUT" /\ \/ fd \in ready
                         \/ \E h \in CgiAddr : cgis[h].wfd = fd /\ child[h].fill < PipeCap
        \/ ev = "HUP" /\ \/ fd \in reset
                         \/ \E h \in CgiAddr : cgis[h].rfd = fd /\ ~child[h].stdout
        \/ ev = "ERR" /\ \E h \in CgiAddr : cgis[h].wfd = fd /\ ~child[h].stdin }

Revents(e, ready, reset) ==
    IF e.fd \notin openFds THEN {"NVAL"}
    ELSE Condition(e.fd, ready, reset) \cap {e.events, "HUP", "ERR"}

\* A client whose script runs: a live handler works for its connection.
Running(a) == \E h \in CgiAddr : cgis[h].live /\ cgis[h].conn = clients[a].conn

MayDrop(a) == DropWhileRunning \/ ~Running(a)

Poll ==
    /\ proc = "running" /\ waiting = NULL /\ i = 0 /\ ~interrupted
    /\ \E ready \in SUBSET {f \in openFds : IsServer(f) \/ clientMap[f] # NULL} :
       \E reset \in SUBSET {f \in openFds : clientMap[f] # NULL /\ MayDrop(clientMap[f])} :
          /\ reset \subseteq ready
          /\ pollFds' = [k \in DOMAIN pollFds |->
                           [pollFds[k] EXCEPT !.revents = Revents(pollFds[k], ready, reset)]]
    /\ i' = 1
    /\ UNCHANGED <<clientMap, maps, heap, openFds, net, ctl>>

\* The loop of processEvents is over; run() calls poll() again.
EndPass ==
    /\ proc = "running" /\ waiting = NULL /\ i > Len(pollFds)
    /\ i' = 0
    /\ UNCHANGED <<pollFds, clientMap, maps, heap, openFds, net, ctl>>

-----------------------------------------------------------------------------
(* The handlers: what the visit of entry i does *)

Visit(branch) ==
    /\ proc = "running" /\ waiting = NULL
    /\ i \in DOMAIN pollFds
    /\ Branch(pollFds[i]) = branch

fd == pollFds[i].fd

Skip(branch) ==
    /\ Visit(branch)
    /\ i' = i + 1
    /\ UNCHANGED <<pollFds, clientMap, maps, heap, openFds, net, ctl>>

Nothing == Skip("nothing")

\* handleNewClient
NewClient ==
    /\ Visit("accept")
    /\ nextConn <= MaxConns
    /\ \E f \in Lowest(Free) : \E a \in {b \in ClientAddr : ~LiveClient(b)} :
          /\ openFds' = openFds \cup {f}
          /\ pollFds' = Append(pollFds, Entry(f, "IN"))
          /\ clientMap' = [clientMap EXCEPT ![f] = a]
          /\ clients' = [clients EXCEPT ![a] =
                           [fd |-> f, conn |-> nextConn, resp |-> NoResp, late |-> FALSE]]
    /\ nextConn' = nextConn + 1
    /\ i' = i + 1
    /\ UNCHANGED <<maps, cgis, child, wire, ctl>>

\* accept() fails: the peer is gone, or no descriptor is free
AcceptFails == Skip("accept")

KeepClientKey(f) == clientMap                                   \* mutation
ForgetClient(f)  == [clientMap EXCEPT ![f] = NULL]

\* handleClientDisconnected: deletes the Client, whose destructor closes the
\* socket, and forgets it -- in _clientMap and _pollFds.
Disconnect ==
    /\ pollFds' = RemoveAt(pollFds, i)
    /\ i' = AfterErase
    /\ clientMap' = ForgetClient(fd)
    /\ IF clientMap[fd] = NULL
       THEN UNCHANGED <<clients, openFds>>
       ELSE /\ openFds' = openFds \ {clients[clientMap[fd]].fd}
            /\ clients' = [clients EXCEPT ![clientMap[fd]] = NoClient]
    /\ UNCHANGED <<maps, cgis, child, nextConn, ctl>>

ClientTimeout == Visit("clientTimeout") /\ Disconnect /\ UNCHANGED wire
ClientError   == Visit("error") /\ Disconnect /\ UNCHANGED wire

\* read() <= 0
ClientGone    == Visit("clientRead") /\ clientMap[fd] # NULL /\ Disconnect /\ UNCHANGED wire

\* P_INCOMPLETE: wait for more
ReadIncomplete == Skip("clientRead") /\ clientMap[fd] # NULL

\* The client of the visited entry has its response, and its entry waits to write it.
Respond ==
    LET a == clientMap[fd] IN
    /\ Visit("clientRead") /\ a # NULL
    /\ clients' = SetResponse(a, clients[a].conn, "direct")
    /\ pollFds' = [pollFds EXCEPT ![i].events = "OUT"]
    /\ i' = i + 1
    /\ UNCHANGED <<clientMap, maps, cgis, child, net, ctl>>

\* A response made at once: 400, the method handler's, or 501. (The idle clock,
\* restarted in all cases but 400, is not past TIMEOUT here: see Branch.)
ReadAnswered == Respond /\ UNCHANGED openFds

\* What start() has opened when it fails: nothing if there is no such script or the
\* first pipe() fails; one pipe, if the second fails, or fork() for a GET; or both.
Opened ==
    {{}} \cup UNION {{{out[1], out[2]}} \cup {{out[1], out[2], in[1], in[2]} :
                                               in \in Pipes(Free \ {out[1], out[2]})} :
                    out \in Pipes(Free)}

KeepPipes(held)     == openFds \cup held                        \* mutation
\* ~CGIHandler of a handler without a process
closeAllPipes(held) == (openFds \cup held) \ held

\* 404, 403 or 500: the script cannot start, startCGI deletes its handler.
StartFails == Respond /\ \E held \in Opened : openFds' = closeAllPipes(held)

\* handleCGIIfNeeded: the client's own entry is paused.
NotPaused == pollFds                                            \* mutation
Paused    == [pollFds EXCEPT ![i].events = "PAUSE"]

\* The pipes lead to the client of the last entry, not of the visited one.
RegisterLast(a, h, H) ==                                        \* mutation
    LET last == clientMap[pollFds[Len(pollFds)].fd] IN
    /\ cgis' = [cgis EXCEPT ![h] = H]
    /\ cgiFdToHandler' = [f \in Fd |-> IF f \in {H.rfd, H.wfd} THEN h ELSE cgiFdToHandler[f]]
    /\ cgiFdToClient' = [f \in Fd |-> IF f \in {H.rfd, H.wfd} THEN last ELSE cgiFdToClient[f]]
    /\ cgiStartTime' = [cgiStartTime EXCEPT ![H.rfd] = "fresh"]
    /\ openFds' = openFds \cup ({H.rfd, H.wfd} \ {NoFd})
    /\ pollFds' = Paused
                    \o (IF H.wfd = NoFd THEN <<Entry(H.rfd, "IN")>>
                        ELSE <<Entry(H.rfd, "IN"), Entry(H.wfd, "OUT")>>)
    /\ clients' = [clients EXCEPT ![a].late = FALSE]
    /\ i' = i + 1
    /\ UNCHANGED <<clientMap, net, ctl>>

\* registerCGI: the pipes of handler H are watched, the read end first.
Register(a, h, H) ==
    /\ cgis' = [cgis EXCEPT ![h] = H]
    /\ cgiFdToHandler' = [f \in Fd |-> IF f \in {H.rfd, H.wfd} THEN h ELSE cgiFdToHandler[f]]
    /\ cgiFdToClient' = [f \in Fd |-> IF f \in {H.rfd, H.wfd} THEN a ELSE cgiFdToClient[f]]
    /\ cgiStartTime' = [cgiStartTime EXCEPT ![H.rfd] = "fresh"]
    /\ openFds' = openFds \cup ({H.rfd, H.wfd} \ {NoFd})
    /\ pollFds' = Paused
                    \o (IF H.wfd = NoFd THEN <<Entry(H.rfd, "IN")>>
                        ELSE <<Entry(H.rfd, "IN"), Entry(H.wfd, "OUT")>>)
    /\ clients' = [clients EXCEPT ![a].late = FALSE]
    /\ i' = i + 1
    /\ UNCHANGED <<clientMap, net, ctl>>

Greatest(m, n) == IF m <= n THEN n ELSE m                       \* mutation
Least(m, n) == IF m <= n THEN m ELSE n

\* writeBody on a handler record H whose script still reads stdin, or does not,
\* with `room' left in the pipe.
WriteBody(H, reads, room) ==
    IF H.wfd = NoFd \/ H.body = 0 THEN H
    ELSE IF ~reads \/ room = 0 THEN [H EXCEPT !.error = TRUE, !.wfd = NoFd]
    ELSE LET left == H.body - Least(H.body, room)
         IN  [H EXCEPT !.body = left, !.wfd = IF left = 0 THEN NoFd ELSE H.wfd]

\* start() for GET and DELETE: one pipe, whose write end the parent closes.
StartCGIGet ==
    LET a == clientMap[fd] IN
    /\ Visit("clientRead") /\ a # NULL
    /\ \E h \in {g \in CgiAddr : ~LiveCgi(g)} : \E out \in Pipes(Free) :
          /\ Register(a, h, [NoCgi EXCEPT !.live = TRUE, !.rfd = out[1],
                                          !.conn = clients[a].conn])
          /\ child' = [child EXCEPT ![h] = [NoChild EXCEPT !.st = "running", !.stdout = TRUE]]

\* start() for POST: a second pipe, and runParent writes a first part of the
\* body, which fails if the script has closed its stdin already.
StartCGIPost ==
    LET a == clientMap[fd] IN
    /\ Visit("clientRead") /\ a # NULL
    /\ \E h \in {g \in CgiAddr : ~LiveCgi(g)} : \E body \in 0..MaxBody, reads \in BOOLEAN :
       \E out \in Pipes(Free) : \E in \in Pipes(Free \ {out[1], out[2]}) :
          LET H == WriteBody([live |-> TRUE, rfd |-> out[1], wfd |-> in[2], body |-> body,
                              done |-> FALSE, error |-> FALSE, conn |-> clients[a].conn],
                             reads, PipeCap)
          IN
          /\ Register(a, h, H)
          /\ child' = [child EXCEPT ![h] =
                         [NoChild EXCEPT !.st = "running", !.stdin = reads, !.stdout = TRUE,
                                         !.fill = body - H.body]]

\* The end of a script, in handleCGITimeout and handleCGIRead: the client is
\* given a response and may write; the entries of both pipes are erased, the
\* write end's first (cleanupCGIWriteFd), then the one being visited.
\* erase() past the end of the vector is undefined, and so is the response given
\* in handleCGITimeout through the key that cleanupCGIWriteFd has just erased:
\* see Undefined.
Remaining(h, c) == EraseFirst(ChangeEvent(pollFds, clients[c].fd, "OUT"), cgis[h].wfd)

CanConclude(h, c) ==
    /\ i \in DOMAIN Remaining(h, c)
    /\ Branch(pollFds[i]) = "cgiTimeout" => fd # cgis[h].wfd

Conclude(h, c, code) ==
    LET w == cgis[h].wfd IN
    /\ CanConclude(h, c)
    /\ pollFds' = RemoveAt(Remaining(h, c), i)
    /\ i' = AfterErase
    /\ clients' = SetResponse(c, cgis[h].conn, code)
    /\ cgiFdToHandler' = Forget(cgiFdToHandler, {fd, w})
    /\ cgiFdToClient' = Forget(cgiFdToClient, {fd, w})
    /\ cgiStartTime' = [cgiStartTime EXCEPT ![fd] = "none"]
    /\ UNCHANGED <<clientMap, net, proc, interrupted>>

DeleteLeaks(h) ==                                               \* mutation
    /\ cgis' = [cgis EXCEPT ![h] = NoCgi]
    /\ child' = [child EXCEPT ![h] = NoChild]
    /\ openFds' = openFds \ {cgis[h].rfd}
\* A signal ends the wait of the destructor: the object and its pipes are gone,
\* its process is not waited for; what it still does concerns nobody.
Unreaped == [NoChild EXCEPT !.st = "exited"]
Abandon(h) ==
    /\ cgis' = [cgis EXCEPT ![h] = NoCgi]
    /\ child' = [child EXCEPT ![h] = Unreaped]
    /\ openFds' = openFds \ {cgis[h].rfd, cgis[h].wfd}
\* The object, its process and its pipes are gone.
Delete(h) ==
    /\ cgis' = [cgis EXCEPT ![h] = NoCgi]
    /\ child' = [child EXCEPT ![h] = NoChild]
    /\ openFds' = openFds \ {cgis[h].rfd, cgis[h].wfd}

\* handleCGITimeout: cleanup() kills and reaps the script, so the delete does
\* not wait.
CGITimeout ==
    LET h == cgiFdToHandler[fd]
        c == cgiFdToClient[fd]
    IN
    /\ Visit("cgiTimeout")
    /\ LiveCgi(h) /\ LiveClient(c)
    /\ Conclude(h, c, "504")
    /\ Delete(h)
    /\ UNCHANGED waiting

\* readOutput: the handler after one read of its pipe. End of file reaps the
\* script only if it has already exited (WNOHANG); an empty pipe is an error.
ReadOutput(h) ==
    LET eof == ~child[h].stdout
    IN  IF cgis[h].rfd # NoFd /\ child[h].out THEN cgis[h]
        ELSE IF cgis[h].rfd # NoFd /\ eof
        THEN [cgis[h] EXCEPT !.rfd = NoFd, !.done = TRUE,
                             !.error = @ \/ (child[h].st = "exited" /\ ~child[h].ok)]
        ELSE [cgis[h] EXCEPT !.rfd = NoFd, !.error = TRUE]

\* handleCGIRead, more to come
CGIReadMore ==
    LET h == cgiFdToHandler[fd] IN
    /\ Visit("cgiRead")
    /\ LiveCgi(h) /\ LiveClient(cgiFdToClient[fd])
    /\ ~ReadOutput(h).done /\ ~ReadOutput(h).error
    /\ \E more \in BOOLEAN : child' = [child EXCEPT ![h].out = more]
    /\ i' = i + 1
    /\ UNCHANGED <<pollFds, clientMap, maps, clients, cgis, openFds, net, ctl>>

\* handleCGIRead, done or failed: the handler is deleted, and its destructor
\* waits for a script that has not exited yet, with what is left of its pipes open.
\* (A key that is the handler's own write end is erased before it is used: then
\* the delete finds NULL, and the handler stays.)
CGIReadEnd ==
    LET h == cgiFdToHandler[fd]
        c == cgiFdToClient[fd]
        H == ReadOutput(h)
    IN
    /\ Visit("cgiRead")
    /\ LiveCgi(h) /\ LiveClient(c)
    /\ H.done \/ H.error
    /\ Conclude(h, c, IF H.error THEN "500" ELSE "cgi")
    /\ IF child[h].st = "running" \/ fd = cgis[h].wfd
       THEN /\ waiting' = IF fd = cgis[h].wfd THEN waiting ELSE h
            /\ cgis' = [cgis EXCEPT ![h] = H]
            /\ openFds' = openFds \ ({cgis[h].rfd} \ {H.rfd})
            /\ UNCHANGED child
       ELSE Delete(h) /\ UNCHANGED waiting

\* waitpid() returns in ~CGIHandler, which then closes the pipes.
Reap ==
    /\ proc = "running" /\ waiting # NULL
    /\ child[waiting].st = "exited"
    /\ Delete(waiting)
    /\ waiting' = NULL
    /\ UNCHANGED <<pollFds, i, clientMap, maps, clients, net, proc, interrupted>>

\* waitpid() returns EINTR: SIGINT and SIGTERM are caught without SA_RESTART.
\* The pass goes on, and is the last.
Interrupt ==
    /\ proc = "running" /\ waiting # NULL
    /\ child[waiting].st = "running"
    /\ Abandon(waiting)
    /\ waiting' = NULL
    /\ interrupted' = TRUE
    /\ UNCHANGED <<pollFds, i, clientMap, maps, clients, net, proc>>

\* handleCGIWrite, nothing (more) to write: only this entry and its keys go.
CGIWriteDone ==
    LET h == cgiFdToHandler[fd]
        c == cgiFdToClient[fd]
    IN
    /\ Visit("cgiWrite")
    /\ LiveCgi(h)
    /\ cgis[h].error \/ cgis[h].body = 0
    /\ IF cgis[h].error
       THEN LiveClient(c) /\ clients' = SetResponse(c, cgis[h].conn, "500")
       ELSE UNCHANGED clients
    /\ cgiFdToHandler' = Forget(cgiFdToHandler, {fd})
    /\ cgiFdToClient' = Forget(cgiFdToClient, {fd})
    /\ pollFds' = RemoveAt(pollFds, i)
    /\ i' = AfterErase
    /\ UNCHANGED <<clientMap, cgiStartTime, cgis, child, openFds, net, ctl>>

\* handleCGIWrite, writeBody: it may close the pipe, but leaves the poll entry.
CGIWriteBody ==
    LET h == cgiFdToHandler[fd]
        H == WriteBody(cgis[h], child[h].stdin, PipeCap - child[h].fill)
    IN
    /\ Visit("cgiWrite")
    /\ LiveCgi(h)
    /\ ~cgis[h].error /\ cgis[h].body # 0
    /\ cgis' = [cgis EXCEPT ![h] = H]
    /\ openFds' = openFds \ ({cgis[h].wfd} \ {H.wfd})
    /\ child' = [child EXCEPT ![h].fill = @ + (cgis[h].body - H.body)]
    /\ i' = i + 1
    /\ UNCHANGED <<pollFds, clientMap, maps, clients, net, ctl>>

\* handleWriteEvent on a client: write() fails, sends a part, or sends the
\* rest, after which the connection is closed.
ClientWriteFails == Visit("clientWrite") /\ clientMap[fd] # NULL /\ Disconnect /\ UNCHANGED wire

Sent(a) == [wire EXCEPT ![clients[a].conn] = @ \cup {clients[a].resp}]

ClientWritePart ==
    LET a == clientMap[fd] IN
    /\ Visit("clientWrite") /\ a # NULL
    /\ clients[a].resp # NoResp
    /\ wire' = Sent(a)
    /\ i' = i + 1
    /\ UNCHANGED <<pollFds, clientMap, maps, heap, openFds, nextConn, ctl>>

\* An empty buffer counts as written: the connection closes with nothing sent.
ClientWriteRest ==
    LET a == clientMap[fd] IN
    /\ Visit("clientWrite") /\ a # NULL
    /\ wire' = IF clients[a].resp = NoResp THEN wire ELSE Sent(a)
    /\ Disconnect

\* The visit follows a NULL pointer or one to a deleted object, or erases past
\* the end of _pollFds.
Undefined ==
    LET h == cgiFdToHandler[fd]
        c == cgiFdToClient[fd]
        Finishes == Branch(pollFds[i]) = "cgiTimeout" \/ ReadOutput(h).done \/ ReadOutput(h).error
    IN
    /\ \E b \in {"cgiTimeout", "cgiRead", "cgiWrite", "clientRead", "clientWrite"} : Visit(b)
    /\ \/ /\ Branch(pollFds[i]) \in {"cgiTimeout", "cgiRead"}
          /\ \/ ~LiveCgi(h) \/ ~LiveClient(c)
             \/ LiveCgi(h) /\ LiveClient(c) /\ Finishes /\ ~CanConclude(h, c)
       \/ /\ Branch(pollFds[i]) = "cgiWrite"
          /\ LiveCgi(h) => cgis[h].error /\ ~LiveClient(c)
       \/ /\ Branch(pollFds[i]) \in {"clientRead", "clientWrite"}
          /\ clientMap[fd] = NULL
    /\ proc' = "undefined"
    /\ UNCHANGED <<pollFds, i, clientMap, maps, heap, openFds, net, waiting, interrupted>>

-----------------------------------------------------------------------------
(* Shutdown *)

\* A signal has cleared g_running, which run() reads after poll(): the
\* destructor deletes the clients, then the handlers of _cgiFdToHandler.
Stop ==
    /\ proc = "running" /\ waiting = NULL /\ i = 0
    /\ proc' = "stopping"
    /\ clients' = [a \in ClientAddr |-> NoClient]
    /\ clientMap' = [f \in Fd |-> NULL]
    /\ openFds' = openFds \ {clients[a].fd : a \in ClientAddr}
    /\ UNCHANGED <<pollFds, i, maps, cgis, child, net, waiting, interrupted>>

\* One handler, once for all its keys; its destructor waits for the script, or
\* until another signal comes.
DestroyCgi(h) ==
    /\ proc = "stopping"
    /\ \E f \in Fd : cgiFdToHandler[f] = h
    /\ LiveCgi(h)
    /\ cgiFdToHandler' = Forget(cgiFdToHandler, {f \in Fd : cgiFdToHandler[f] = h})
    /\ \/ child[h].st = "exited" /\ Delete(h) /\ UNCHANGED interrupted
       \/ child[h].st = "running" /\ Abandon(h) /\ interrupted' = TRUE
    /\ UNCHANGED <<pollFds, i, clientMap, cgiFdToClient, cgiStartTime, clients, net, proc, waiting>>

DestroyDead(h) ==
    /\ proc = "stopping"
    /\ \E f \in Fd : cgiFdToHandler[f] = h
    /\ ~LiveCgi(h)
    /\ proc' = "undefined"
    /\ UNCHANGED <<pollFds, i, clientMap, maps, heap, openFds, net, waiting, interrupted>>

Stopped ==
    /\ proc = "stopping"
    /\ \A f \in Fd : cgiFdToHandler[f] = NULL
    /\ proc' = "stopped"
    /\ UNCHANGED <<pollFds, i, clientMap, maps, heap, openFds, net, waiting, interrupted>>

-----------------------------------------------------------------------------
(* The environment: scripts and clocks *)

ChildStep(h, ch) ==
    /\ child[h].st = "running"
    /\ child' = [child EXCEPT ![h] = ch]
    /\ UNCHANGED <<pollFds, i, clientMap, maps, clients, cgis, openFds, net, ctl>>

ScriptWrites(h) ==
    /\ child[h].stdout /\ ~child[h].out
    /\ ChildStep(h, [child[h] EXCEPT !.out = TRUE])

ScriptReads(h) ==
    /\ child[h].stdin /\ child[h].fill > 0
    /\ ChildStep(h, [child[h] EXCEPT !.fill = @ - 1])

ScriptClosesStdin(h) ==
    /\ child[h].stdin
    /\ ChildStep(h, [child[h] EXCEPT !.stdin = FALSE])

\* A script may close stdout and go on; one that exits does it, too, before
\* its parent can wait for it.
ScriptClosesStdout(h) ==
    /\ child[h].stdout
    /\ ChildStep(h, [child[h] EXCEPT !.stdout = FALSE])

ScriptExits(h) ==
    \E ok \in BOOLEAN :
       ChildStep(h, [child[h] EXCEPT !.st = "exited", !.ok = ok, !.stdin = FALSE, !.stdout = FALSE])

\* time(NULL) - _lastActivity > TIMEOUT
ClientLate(a) ==
    /\ proc = "running"
    /\ LiveClient(a) /\ ~clients[a].late /\ MayDrop(a)
    /\ clients' = [clients EXCEPT ![a].late = TRUE]
    /\ UNCHANGED <<pollFds, i, clientMap, maps, cgis, child, openFds, net, ctl>>

\* time(NULL) - _cgiStartTime.at(f) > CGI_TIMEOUT
CGILate(f) ==
    /\ proc = "running"
    /\ cgiStartTime[f] = "fresh"
    /\ cgiStartTime' = [cgiStartTime EXCEPT ![f] = "late"]
    /\ UNCHANGED <<pollFds, i, clientMap, cgiFdToHandler, cgiFdToClient, heap, openFds, net, ctl>>

-----------------------------------------------------------------------------
\* The steps of the thread that runs the loop.
Loop ==
    \/ Poll \/ EndPass \/ Nothing
    \/ NewClient \/ AcceptFails
    \/ ClientTimeout \/ ClientError \/ ClientGone
    \/ ReadIncomplete \/ ReadAnswered \/ StartFails \/ StartCGIGet \/ StartCGIPost
    \/ CGITimeout \/ CGIReadMore \/ CGIReadEnd \/ Reap \/ Interrupt
    \/ CGIWriteDone \/ CGIWriteBody
    \/ ClientWriteFails \/ ClientWritePart \/ ClientWriteRest
    \/ Undefined

Shutdown ==
    \/ Stop
    \/ \E h \in CgiAddr : DestroyCgi(h) \/ DestroyDead(h)
    \/ Stopped

Script(h) ==
    \/ ScriptWrites(h) \/ ScriptReads(h) \/ ScriptClosesStdin(h)
    \/ ScriptClosesStdout(h) \/ ScriptExits(h)

Clock ==
    \/ \E a \in ClientAddr : ClientLate(a)
    \/ \E f \in Fd : CGILate(f)

\* The process is gone: nothing more happens.
Ended == proc \in {"stopped", "undefined"} /\ UNCHANGED vars

Next ==
    \/ Loop
    \/ Shutdown
    \/ \E h \in CgiAddr : Script(h)
    \/ Clock
    \/ Ended

Spec == Init /\ [][Next]_vars

\* The thread runs, and stops after a signal; time passes; a script the loop
\* waits for exits.
Fairness ==
    /\ WF_vars(Loop)
    /\ WF_vars(interrupted /\ Stop)
    /\ WF_vars(Clock)
    /\ \A h \in CgiAddr : WF_vars(waiting = h /\ ScriptExits(h))

FairSpec == Spec /\ Fairness

-----------------------------------------------------------------------------
(* What holds whatever peers, scripts and clocks do *)

PollFd == [fd : Fd, events : Mask, revents : SUBSET Event]

TypeOK ==
    /\ pollFds \in Seq(PollFd)
    /\ i \in Nat
    /\ clientMap \in [Fd -> ClientAddr \cup {NULL}]
    /\ cgiFdToHandler \in [Fd -> CgiAddr \cup {NULL}]
    /\ cgiFdToClient \in [Fd -> ClientAddr \cup {NULL}]
    /\ cgiStartTime \in [Fd -> {"none", "fresh", "late"}]
    /\ clients \in [ClientAddr -> Client \cup {NoClient}]
    /\ cgis \in [CgiAddr -> Cgi \cup {NoCgi}]
    /\ child \in [CgiAddr -> Child \cup {NoChild}]
    /\ openFds \subseteq Fd
    /\ nextConn \in 1..(MaxConns + 1)
    /\ wire \in [Conns -> SUBSET Response]
    /\ proc \in {"running", "stopping", "stopped", "undefined"}
    /\ waiting \in CgiAddr \cup {NULL}
    /\ interrupted \in BOOLEAN

\* The listening sockets keep the first places of _pollFds, are watched for
\* input only and are no key of the CGI maps. So removeFromPoll never meets
\* index 0, where it would make the loop skip an entry, and no handler of
\* another kind is called on a listening socket, whichever stale descriptor the
\* search of cleanupCGIWriteFd looks for.
ListeningPrefix(p) ==
    /\ Len(p) >= NServers
    /\ \A k \in 1..NServers : p[k].fd = k /\ p[k].events = "IN" /\ "OUT" \notin p[k].revents
    /\ \A k \in (NServers + 1)..Len(p) : ~IsServer(p[k].fd)

ListeningFirst ==
    /\ ListeningPrefix(pollFds)
    /\ \A f \in 1..NServers : cgiFdToHandler[f] = NULL /\ cgiStartTime[f] = "none"

\* Every open descriptor belongs to one object, which will close it, and no
\* object names a descriptor that is closed: nothing leaks, nothing is closed
\* twice, although both stale map entries and reused numbers occur.
Ends(h) == {cgis[h].rfd, cgis[h].wfd} \ {NoFd}

FdOwnership ==
    /\ \A f \in Fd : f \in openFds <=> \/ IsServer(f)
                                       \/ \E a \in ClientAddr : clients[a].fd = f
                                       \/ \E h \in CgiAddr : f \in Ends(h)
    /\ \A a \in ClientAddr : ~IsServer(clients[a].fd)
    /\ \A h \in CgiAddr : \A f \in Ends(h) : ~IsServer(f)
    /\ \A a, b \in ClientAddr : LiveClient(a) /\ clients[a].fd = clients[b].fd => a = b
    /\ \A a \in ClientAddr, h \in CgiAddr : clients[a].fd \notin Ends(h)
    /\ \A g, h \in CgiAddr : \A f \in Ends(g) : f \in Ends(h) => g = h
    /\ \A h \in CgiAddr : cgis[h].rfd = cgis[h].wfd => Ends(h) = {}

\* _clientMap knows every Client under the descriptor it will close, and knows
\* nothing else: the one map whose entries are never stale.
ClientMapExact ==
    \A f \in Fd : \A a \in ClientAddr :
       clientMap[f] = a <=> clients[a].fd = f

\* Every handler has a process to wait for, and unless a signal cut a wait short
\* only a handler has one: no script is forgotten (a zombie), none is waited for
\* twice.
OneChildPerHandler ==
    /\ \A h \in CgiAddr : cgis[h].live => child[h].st # "none"
    /\ \A h \in CgiAddr : child[h].st # "none" => cgis[h].live \/ interrupted
    /\ waiting # NULL => proc = "running" /\ LiveCgi(waiting)

-----------------------------------------------------------------------------
(* What holds as long as every body fits in the pipe (MaxBody <= PipeCap)   *)
(* and no client is dropped while its script runs (~DropWhileRunning)       *)

\* The handlers the loop still serves, and those working for a client.
Served(h)   == LiveCgi(h) /\ waiting # h
Serves(h, a) == Served(h) /\ cgis[h].conn = clients[a].conn

\* No turn of the loop, and no step of the destructor, follows a NULL or
\* dangling pointer or erases outside _pollFds.
NoUndefined == proc # "undefined"

\* The three CGI maps describe the same handlers: both pipes lead to a live
\* handler that owns them and to the live client that asked for it, and only
\* the read end of a served handler is on the clock.
CgiMapsAgree ==
    proc = "running" =>
    /\ \A f \in Fd : cgiFdToHandler[f] # NULL =>
          LET h == cgiFdToHandler[f]
              c == cgiFdToClient[f]
          IN /\ Served(h)
             /\ f \in {cgis[h].rfd, cgis[h].wfd}
             /\ LiveClient(c) /\ clients[c].conn = cgis[h].conn
    /\ \A f \in Fd : cgiFdToHandler[f] = NULL <=> cgiFdToClient[f] = NULL
    /\ \A f \in Fd : cgiStartTime[f] # "none" <=> \E h \in CgiAddr : Served(h) /\ cgis[h].rfd = f
    /\ \A h \in CgiAddr : Served(h) => cgiFdToHandler[cgis[h].rfd] = h

\* poll() watches the listening sockets, the clients and the pipes of the maps,
\* each of them once and nothing else.
PollExact ==
    proc = "running" =>
    /\ \A j, k \in DOMAIN pollFds : pollFds[j].fd = pollFds[k].fd => j = k
    /\ {pollFds[k].fd : k \in DOMAIN pollFds}
         = (1..NServers) \cup {f \in Fd : clientMap[f] # NULL}
                         \cup {f \in Fd : cgiFdToHandler[f] # NULL}

\* A client is watched for input until its request is complete, is paused
\* exactly while one script works for it, and is watched for output exactly
\* when it has a response: no client waits for something that will not come.
MaskMatchesRequest ==
    proc = "running" =>
    \A k \in DOMAIN pollFds : clientMap[pollFds[k].fd] # NULL =>
       LET a == clientMap[pollFds[k].fd] IN
       /\ pollFds[k].events = "OUT" <=> clients[a].resp # NoResp
       /\ pollFds[k].events = "PAUSE" <=> \E h \in CgiAddr : Serves(h, a)
       /\ \A g, h \in CgiAddr : Serves(g, a) /\ Serves(h, a) => g = h

\* All that is ever written on a connection is one response, to its own request.
OwnAnswer ==
    \A c \in Conns : /\ \A r \in wire[c] : r.for = c
                     /\ Cardinality(wire[c]) <= 1

\* After the destructor only the listening sockets are open, no handler is left
\* and, unless a wait was cut short, no script is unreaped.
CleanStop ==
    proc = "stopped" => /\ openFds = 1..NServers
                        /\ \A h \in CgiAddr : ~LiveCgi(h)
                        /\ ~interrupted => \A h \in CgiAddr : child[h] = NoChild

\* Every connection is closed, after its answer or for its silence.
EveryConnectionCloses ==
    \A c \in Conns : c < nextConn ~> \A a \in ClientAddr : clients[a].conn # c

\* Every script's handler is deleted while the server runs.
EveryScriptEnds ==
    \A h \in CgiAddr : LiveCgi(h) ~> (~LiveCgi(h) \/ proc # "running")

-----------------------------------------------------------------------------
(* What the documentation says and the code does not do *)

\* _cgiFdToClient leads from a pipe to the client that spawned the script.
SpawnedBy ==
    \A f \in Fd : proc = "running" /\ cgiFdToClient[f] # NULL /\ LiveCgi(cgiFdToHandler[f]) =>
       /\ LiveClient(cgiFdToClient[f])
       /\ clients[cgiFdToClient[f]].conn = cgis[cgiFdToHandler[f]].conn

\* The loop never waits for a script to finish.
NeverStalled == waiting = NULL
=============================================================================
