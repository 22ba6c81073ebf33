--------------------------- MODULE StartupProofs ---------------------------
(***************************************************************************)
(* The invariants of Startup hold for every configuration, however long,   *)
(* and whichever system calls fail.                                        *)
(***************************************************************************)
EXTENDS Startup, SequenceLemmas

\* A constructor runs for a block there is, and a socket that is bound does not
\* overlap with a server's.
Constructing ==
    /\ Len(conf) <= MaxBlocks
    /\ step \in {"fcntl", "bind", "listen"} => i < Len(blocks)
    /\ step = "listen" => \A k \in 1..Len(list) : ~Overlap(list[k].addr, blocks[i + 1])

Disjoint(l) == \A j, k \in 1..Len(l) : j # k => ~Overlap(l[j].addr, l[k].addr)

Inv == TypeOK /\ Aligned /\ Constructing /\ Disjoint(list) /\ NoSocketLeak /\ ServesOrExits

-----------------------------------------------------------------------------
\* Stepping back from index 0 wraps around, and the loop's i++ undoes it.
LEMMA StepBack ==
    ASSUME NEW n \in 0..SizeMax
    PROVE  Inc(Dec(n)) = n
BY StartupAssumption DEF Inc, Dec

\* A configuration is a non-empty list of addresses, of bounded length.
LEMMA ConfigurationType ==
    ASSUME NEW c \in Configurations
    PROVE  c \in Seq(Address) /\ Len(c) \in 1..MaxBlocks
<1>1. PICK n \in 1..MaxBlocks : c \in [1..n -> Address]
  BY DEF Configurations
<1>2. n \in Nat
  BY StartupAssumption
<1>3. QED
  BY <1>1, <1>2

\* Two vectors of descriptors and addresses with the new server at the end.
LEMMA AppendServer ==
    ASSUME NEW l \in Seq(Server), NEW s \in Server
    PROVE  /\ Append(l, s) \in Seq(Server)
           /\ Len(Append(l, s)) = Len(l) + 1
           /\ \A k \in 1..Len(l) : Append(l, s)[k] = l[k]
           /\ Append(l, s)[Len(l) + 1] = s
BY AppendProperties

\* A server of the list has a socket.
LEMMA ServerSocket ==
    ASSUME NEW l \in Seq(Server), NEW k \in 1..Len(l)
    PROVE  l[k].fd \in Fd /\ l[k].fd # NoFd
<1>1. l[k] \in Server
  BY ElementOfSeq
<1>2. QED
  BY <1>1, StartupAssumption DEF Server, Fd, NoFd

\* main starts with no server and no socket.
LEMMA InitInv == Init => Inv
<1> SUFFICES ASSUME Init
             PROVE  Inv
  OBVIOUS
<1> USE DEF Init
<1>1. conf \in Seq(Address) /\ Len(conf) \in 1..MaxBlocks
  BY ConfigurationType
<1>2. list \in Seq(Server) /\ Len(list) = 0
  OBVIOUS
<1>3. 0 \in 0..SizeMax
  BY StartupAssumption
<1>4. TypeOK
  BY <1>1, <1>2, <1>3, StartupAssumption DEF TypeOK, NoFd, Fd, Running
<1>5. Aligned
  BY <1>1, <1>2 DEF Aligned, Untried
<1>6. Constructing /\ Disjoint(list)
  BY <1>1, <1>2, StartupAssumption DEF Constructing, Disjoint
<1>7. NoSocketLeak /\ ServesOrExits
  BY <1>1, <1>2 DEF NoSocketLeak, ServesOrExits, NoFd
<1>8. QED
  BY <1>4, <1>5, <1>6, <1>7 DEF Inv

\* A constructor throws: the block is gone, the index still at the first block
\* that was not tried, the socket closed.
LEMMA ThrowStep ==
    ASSUME Inv, Throw, i < Len(blocks), step \in {"next", "fcntl", "bind", "listen"}
    PROVE  Inv'
<1>1. i = Len(list) /\ Len(list) \in Nat /\ Len(blocks) \in Nat /\ Len(conf) \in Nat
  BY LenProperties DEF Inv, TypeOK, Aligned
<1>2. i' = i
  BY StepBack DEF Inv, TypeOK, Throw
<1>3. i + 1 \in 1..Len(blocks)
  BY <1>1
<1>4. /\ blocks' \in Seq(Address)
      /\ Len(blocks') = Len(blocks) - 1
      /\ \A j \in 1..(Len(blocks) - 1) : blocks'[j] = IF j < i + 1 THEN blocks[j] ELSE blocks[j + 1]
  BY <1>3, RemoveAtProperties DEF Inv, TypeOK, Throw, EraseBlock
<1>5. step' = "next" /\ guard' = NoFd /\ open' = open \ {guard} /\ UNCHANGED <<conf, list, status>>
  BY DEF Throw, Closed
<1>6. TypeOK'
  BY <1>2, <1>4, <1>5 DEF Inv, TypeOK
<1>7. Aligned'
  <2>1. Untried' = Untried - 1 /\ Untried \in Nat
    BY <1>1, <1>2, <1>4 DEF Untried
  <2>2. \A k \in 1..Len(list) : list[k].addr = blocks'[k]
    BY <1>1, <1>3, <1>4 DEF Inv, Aligned
  <2>3. ASSUME NEW k \in 1..Untried'
        PROVE  blocks'[i + k] = conf[Len(conf) - Untried' + k]
    <3>1. k + 1 \in 1..Untried /\ i + k \in 1..(Len(blocks) - 1) /\ ~(i + k < i + 1)
      BY <1>1, <2>1 DEF Untried
    <3>2. blocks'[i + k] = blocks[i + (k + 1)]
      BY <3>1, <1>1, <1>4
    <3>3. blocks[i + (k + 1)] = conf[Len(conf) - Untried + (k + 1)]
      BY <3>1 DEF Inv, Aligned
    <3>4. Len(conf) - Untried + (k + 1) = Len(conf) - Untried' + k
      BY <1>1, <2>1
    <3>5. QED
      BY <3>2, <3>3, <3>4
  <2>4. QED
    BY <1>1, <1>2, <1>3, <1>4, <1>5, <2>2, <2>3 DEF Aligned, Inv
<1>8. Constructing' /\ Disjoint(list)'
  BY <1>5 DEF Inv, Constructing, Disjoint
<1>9. NoSocketLeak'
  <2>1. guard \notin {list[k].fd : k \in 1..Len(list)}
    BY DEF Inv, NoSocketLeak
  <2>2. open' = {list[k].fd : k \in 1..Len(list)}
    BY <1>5, <2>1 DEF Inv, NoSocketLeak
  <2>3. \A k \in 1..Len(list) : list[k].fd # NoFd
    BY ServerSocket DEF Inv, TypeOK
  <2>4. QED
    BY <1>5, <2>2, <2>3 DEF Inv, NoSocketLeak
<1>10. ServesOrExits'
  BY <1>5 DEF ServesOrExits
<1>11. QED
  BY <1>6, <1>7, <1>8, <1>9, <1>10 DEF Inv

\* A Server is complete: it takes the place of its block.
LEMMA ListenStep ==
    ASSUME Inv, Listen
    PROVE  Inv'
<1>1. /\ i = Len(list) /\ Len(list) \in Nat /\ Len(blocks) \in Nat /\ Len(conf) \in Nat
      /\ i < Len(blocks) /\ Len(blocks) <= Len(conf) /\ Len(conf) <= MaxBlocks
  BY LenProperties DEF Inv, TypeOK, Aligned, Constructing, Listen
<1>2. i' = i + 1 /\ i' \in 0..SizeMax
  BY <1>1, StartupAssumption DEF Listen, Inc
<1> DEFINE s == [addr |-> blocks[i + 1], fd |-> guard]
<1>3. guard \in Fd /\ guard # NoFd
  BY DEF Inv, TypeOK, Listen
<1>4. blocks[i + 1] \in Address
  BY <1>1 DEF Inv, TypeOK
<1>5. s \in Server /\ s.addr = blocks[i + 1] /\ s.fd = guard
  BY <1>3, <1>4 DEF Server
<1>6. list' = Append(list, s)
  BY DEF Listen
<1> HIDE DEF s
<1>7. /\ list' \in Seq(Server) /\ Len(list') = Len(list) + 1
      /\ \A k \in 1..Len(list) : list'[k] = list[k]
      /\ list'[Len(list) + 1] = s
  BY <1>5, <1>6, AppendServer DEF Inv, TypeOK
<1>8. step' = "next" /\ guard' = NoFd /\ UNCHANGED <<conf, blocks, open, status>>
  BY DEF Listen
<1>9. TypeOK'
  BY <1>2, <1>7, <1>8 DEF Inv, TypeOK
<1>10. Aligned'
  <2>1. \A k \in 1..Len(list') : list'[k].addr = blocks[k]
    BY <1>1, <1>5, <1>7 DEF Inv, Aligned, Listen
  <2>2. Untried' = Untried - 1 /\ Untried \in Nat
    BY <1>1, <1>2, <1>8 DEF Untried
  <2>3. ASSUME NEW k \in 1..Untried'
        PROVE  blocks[i' + k] = conf[Len(conf) - Untried' + k]
    <3>1. k + 1 \in 1..Untried /\ i' + k = i + (k + 1) /\ Len(conf) - Untried' + k = Len(conf) - Untried + (k + 1)
      BY <1>1, <1>2, <2>2
    <3>2. blocks[i + (k + 1)] = conf[Len(conf) - Untried + (k + 1)]
      BY <3>1 DEF Inv, Aligned, Listen
    <3>3. QED
      BY <3>1, <3>2
  <2>4. QED
    BY <1>1, <1>2, <1>7, <1>8, <2>1, <2>3 DEF Aligned
<1>11. Constructing'
  BY <1>1, <1>8 DEF Constructing
<1>12. Disjoint(list)'
  <2>1. \A k \in 1..Len(list) : ~Overlap(list[k].addr, s.addr) /\ ~Overlap(s.addr, list[k].addr)
    BY <1>5 DEF Inv, Constructing, Listen, Overlap
  <2>2. QED
    BY <1>1, <1>7, <2>1 DEF Inv, Disjoint
<1>13. NoSocketLeak'
  <2>1. {list'[k].fd : k \in 1..Len(list')} = {list[k].fd : k \in 1..Len(list)} \cup {guard}
    BY <1>1, <1>5, <1>7
  <2>2. open' = {list'[k].fd : k \in 1..Len(list')} \cup ({guard'} \ {NoFd})
    BY <1>3, <1>8, <2>1 DEF Inv, NoSocketLeak
  <2>3. \A k \in 1..Len(list') : list'[k].fd # guard'
    BY <1>7, <1>8, ServerSocket
  <2>4. \A k, l \in 1..Len(list') : list'[k].fd = list'[l].fd => k = l
    BY <1>1, <1>5, <1>7 DEF Inv, NoSocketLeak
  <2>5. QED
    BY <2>2, <2>3, <2>4 DEF NoSocketLeak
<1>14. ServesOrExits'
  BY <1>8 DEF ServesOrExits
<1>15. QED
  BY <1>9, <1>10, <1>11, <1>12, <1>13, <1>14 DEF Inv

\* Only the step changes, and nothing is due at the new one.
LEMMA GotoStep ==
    ASSUME Inv, NEW s \in {"bind", "listen", "run"}, Goto(s),
           s \in {"bind", "listen"} => step \in {"fcntl", "bind"},
           s = "run" => step = "next" /\ i >= Len(blocks) /\ list # <<>>,
           s = "listen" => Available(blocks[i + 1])
    PROVE  Inv'
<1>1. step' = s /\ UNCHANGED <<conf, blocks, list, i, guard, open, status>>
  BY DEF Goto
<1>2. step \in {"next", "fcntl", "bind"}
  OBVIOUS
<1>3. TypeOK'
  BY <1>1, <1>2 DEF Inv, TypeOK
<1>4. Aligned'
  BY <1>1, <1>2 DEF Inv, Aligned, Untried
<1>5. Constructing'
  <2>1. DOMAIN list = 1..Len(list)
    BY LenProperties DEF Inv, TypeOK
  <2>2. QED
    BY <1>1, <1>2, <2>1 DEF Inv, Constructing, Available
<1>6. Disjoint(list)' /\ NoSocketLeak'
  BY <1>1 DEF Inv, Disjoint, NoSocketLeak
<1>7. ServesOrExits'
  BY <1>1, <1>2, LenProperties DEF Inv, ServesOrExits, Aligned, TypeOK
<1>8. QED
  BY <1>3, <1>4, <1>5, <1>6, <1>7 DEF Inv

\* socket(): the descriptor was not open, so no server has it.
LEMMA OpenStep ==
    ASSUME Inv, OpenSocket
    PROVE  Inv'
<1>1. PICK f \in Fd \ open : guard' = f /\ open' = open \cup {f}
  BY DEF OpenSocket
<1>2. step = "next" /\ i < Len(blocks) /\ step' = "fcntl" /\ UNCHANGED <<conf, blocks, list, i, status>>
  BY DEF OpenSocket
<1>3. f # NoFd /\ guard = NoFd
  BY <1>2 DEF Inv, TypeOK, Fd, NoFd
<1>4. TypeOK'
  BY <1>1, <1>2, <1>3 DEF Inv, TypeOK
<1>5. Aligned' /\ Constructing' /\ Disjoint(list)' /\ ServesOrExits'
  BY <1>2 DEF Inv, Aligned, Untried, Constructing, Disjoint, ServesOrExits
<1>6. NoSocketLeak'
  <2>1. open = {list[k].fd : k \in 1..Len(list)}
    BY <1>3 DEF Inv, NoSocketLeak
  <2>2. \A k \in 1..Len(list) : list[k].fd # f
    BY <1>1, <2>1
  <2>3. QED
    BY <1>1, <1>2, <1>3, <2>1, <2>2 DEF Inv, NoSocketLeak
<1>7. QED
  BY <1>4, <1>5, <1>6 DEF Inv

\* The process exits without a server, or after destroying all of them.
LEMMA ExitStep ==
    ASSUME Inv, NoServer \/ Shutdown
    PROVE  Inv'
<1>1. DOMAIN list = 1..Len(list)
  BY LenProperties DEF Inv, TypeOK
<1>2. guard = NoFd
  BY DEF Inv, TypeOK, NoServer, Shutdown
<1>3. open' = {} /\ list' = <<>>
  <2>1. CASE NoServer
    BY <2>1, <1>2 DEF NoServer, Inv, NoSocketLeak
  <2>2. CASE Shutdown
    BY <2>2, <1>1, <1>2 DEF Shutdown, Inv, NoSocketLeak
  <2>3. QED
    BY <2>1, <2>2
<1>4. step' = "exit" /\ status' \in {0, 1} /\ UNCHANGED <<conf, blocks, i, guard>>
  BY DEF NoServer, Shutdown
<1>5. list' \in Seq(Server) /\ Len(list') = 0
  BY <1>3
<1>6. TypeOK'
  BY <1>2, <1>3, <1>4, <1>5 DEF Inv, TypeOK
<1>7. Aligned' /\ Constructing' /\ Disjoint(list)'
  BY <1>4, <1>5 DEF Inv, Aligned, Constructing, Disjoint
<1>8. NoSocketLeak' /\ ServesOrExits'
  BY <1>2, <1>3, <1>4, <1>5 DEF NoSocketLeak, ServesOrExits, Running
<1>9. QED
  BY <1>6, <1>7, <1>8 DEF Inv

-----------------------------------------------------------------------------
(* The theorems *)

\* Whatever fails, every step of start-up and shutdown keeps the invariant.
THEOREM Invariance == Spec => []Inv
<1>1. Inv /\ [Next]_vars => Inv'
  <2> SUFFICES ASSUME Inv, [Next]_vars
               PROVE  Inv'
    OBVIOUS
  <2>1. CASE OpenSocket
    BY <2>1, OpenStep
  <2>2. CASE SocketFails \/ FcntlFails \/ BindFails \/ ListenFails
    BY <2>2, ThrowStep DEF SocketFails, FcntlFails, BindFails, ListenFails, Inv, Constructing
  <2>3. CASE SetNonBlocking \/ Bind \/ Run
    BY <2>3, GotoStep DEF SetNonBlocking, Bind, Run
  <2>4. CASE Listen
    BY <2>4, ListenStep
  <2>5. CASE NoServer \/ Shutdown
    BY <2>5, ExitStep
  <2>6. CASE UNCHANGED vars
    BY <2>6 DEF vars, Inv, TypeOK, Aligned, Untried, Constructing, Disjoint, NoSocketLeak, ServesOrExits
  <2>7. QED
    BY <2>1, <2>2, <2>3, <2>4, <2>5, <2>6 DEF Next, Create, Exited
<1>2. QED
  BY <1>1, InitInv, PTL DEF Spec

\* Every variable keeps its type, the index in particular stays one of a size_t.
THEOREM TypeCorrect == Spec => []TypeOK
BY Invariance, PTL DEF Inv

\* Each block is tried once and each server keeps its own, whichever
\* constructors throw.
THEOREM BlocksAligned == Spec => []Aligned
BY Invariance, PTL DEF Inv

\* No socket leaks from a constructor that throws, none has two owners.
THEOREM SocketsOwned == Spec => []NoSocketLeak
BY Invariance, PTL DEF Inv

\* The loop never runs without a server; at exit every socket is closed.
THEOREM CleanStartAndExit == Spec => []ServesOrExits
BY Invariance, PTL DEF Inv

\* No two servers listen on addresses that overlap.
THEOREM NoSharedAddress == Spec => []AddressesDisjoint
<1>1. Inv => AddressesDisjoint
  BY LenProperties DEF Inv, TypeOK, Disjoint, AddressesDisjoint
<1>2. QED
  BY <1>1, Invariance, PTL
=============================================================================
