------------------------- MODULE ConnectionService -------------------------
(***************************************************************************)
(* What the server promises each connection: one request is read, it is    *)
(* answered at once or by one script, that answer and no other is sent,    *)
(* and the connection is closed.  While its script runs a connection is    *)
(* not given up, except at shutdown.                                       *)
(***************************************************************************)
EXTENDS Naturals

CONSTANT Conns

VARIABLES
    phase,   \* of a connection
    answer,  \* the response decided for it, before it is closed
    wire     \* the responses of which something was sent on it

vars == <<phase, answer, wire>>

NoResp == [for |-> 0, code |-> "none"]

Init ==
    /\ phase = [c \in Conns |-> "new"]
    /\ answer = [c \in Conns |-> NoResp]
    /\ wire = [c \in Conns |-> {}]

Accept(c) ==
    /\ phase[c] = "new"
    /\ phase' = [phase EXCEPT ![c] = "open"]
    /\ UNCHANGED <<answer, wire>>

\* The request is one for a script.
Run(c) ==
    /\ phase[c] = "open"
    /\ phase' = [phase EXCEPT ![c] = "running"]
    /\ UNCHANGED <<answer, wire>>

Decide(c) ==
    /\ \E code \in {"direct", "cgi", "500", "504"} :
          /\ phase[c] = IF code = "direct" THEN "open" ELSE "running"
          /\ answer' = [answer EXCEPT ![c] = [for |-> c, code |-> code]]
    /\ phase' = [phase EXCEPT ![c] = "answering"]
    /\ UNCHANGED wire

Send(c) ==
    /\ phase[c] = "answering"
    /\ wire' = [wire EXCEPT ![c] = {answer[c]}]
    /\ UNCHANGED <<phase, answer>>

\* After the last of the answer, or because the peer is gone or silent.
Close(c) ==
    /\ phase[c] \in {"open", "answering"}
    /\ phase' = [phase EXCEPT ![c] = "closed"]
    /\ answer' = [answer EXCEPT ![c] = NoResp]
    /\ \/ UNCHANGED wire
       \/ phase[c] = "answering" /\ wire' = [wire EXCEPT ![c] = {answer[c]}]

Shutdown ==
    /\ phase' = [c \in Conns |-> IF phase[c] = "new" THEN "new" ELSE "closed"]
    /\ answer' = [c \in Conns |-> NoResp]
    /\ UNCHANGED wire

Next ==
    \/ \E c \in Conns : Accept(c) \/ Run(c) \/ Decide(c) \/ Send(c) \/ Close(c)
    \/ Shutdown

Spec == Init /\ [][Next]_vars
=============================================================================
