-------------------------- MODULE EventLoopService --------------------------
(***************************************************************************)
(* The poll() loop implements ConnectionService.                           *)
(***************************************************************************)
EXTENDS EventLoop

ClientOf(c) == {a \in ClientAddr : clients[a].conn = c}

Phase(c) ==
    IF c >= nextConn THEN "new"
    ELSE IF ClientOf(c) = {} THEN "closed"
    ELSE IF \E a \in ClientOf(c) : clients[a].resp # NoResp THEN "answering"
    ELSE IF \E h \in CgiAddr : cgis[h].conn = c THEN "running"
    ELSE "open"

Answer(c) == IF ClientOf(c) = {} THEN NoResp
             ELSE clients[CHOOSE a \in ClientOf(c) : TRUE].resp

Service == INSTANCE ConnectionService WITH
    phase  <- [c \in Conns |-> Phase(c)],
    answer <- [c \in Conns |-> Answer(c)]

\* Seen through its connections, the loop does what ConnectionService allows.
ImplementsService == Service!Spec
=============================================================================
