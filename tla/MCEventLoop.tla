---------------------------- MODULE MCEventLoop ----------------------------
(***************************************************************************)
(* Instances of EventLoop for TLC. Addresses are interchangeable: the code *)
(* never compares or orders two of them.                                   *)
(***************************************************************************)
EXTENDS EventLoopService

\* The revents behind the visited entry, all of them in poll(), are never read
\* again: two states that differ in them only have the same future.
Live == [k \in DOMAIN pollFds |->
           IF i = 0 \/ k < i THEN [pollFds[k] EXCEPT !.revents = {}] ELSE pollFds[k]]

View == <<Live, i, clientMap, maps, heap, openFds, net, ctl>>

Symmetry == Permutations(ClientAddr) \cup Permutations(CgiAddr)
=============================================================================
