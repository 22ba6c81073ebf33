---------------------------- MODULE TimersProofs ----------------------------
(***************************************************************************)
(* Proofs about Timers, for every number of clients and all values of the  *)
(* time constants that meet TimersAssumption.                              *)
(*                                                                         *)
(* The limits are not inductive. What a clock may show depends on where    *)
(* the loop is: an entry already visited in this pass was in time then,    *)
(* one still to be visited was in time in the pass before.                 *)
(***************************************************************************)
EXTENDS Timers, TLAPS

PhaseLimit == IF phase = "poll" THEN POLL_TIMEOUT ELSE MaxPass

\* What the clock of an entry shows at most, when the visit lets it pass up to limit
Bound(entry, limit) ==
    IF phase = "poll" THEN limit + MaxPass + elapsed
    ELSE IF entry \in todo THEN limit + MaxPass + POLL_TIMEOUT + elapsed
    ELSE limit + elapsed

Phase == /\ elapsed <= PhaseLimit
         /\ phase = "poll" => todo = {}

ScriptBound == \A c \in Clients : script[c] => age[c] <= Bound(<<"script", c>>, CGI_TIMEOUT)
IdleBound   == \A c \in Clients : conn[c] # "free" => idle[c] <= Bound(<<"client", c>>, TIMEOUT)

\* A clock that is restarted with another one, or more often, shows no more.
Order ==
    \A c \in Clients :
       /\ conn[c] = "paused" => idle[c] <= age[c]
       /\ quiet[c] <= idle[c]
       /\ conn[c] = "reading" => life[c] <= idle[c]
       /\ life[c] <= TIMEOUT + idle[c]

IInv == TypeOK /\ Phase /\ ScriptBound /\ IdleBound /\ Order

-----------------------------------------------------------------------------
\* Wherever the loop is: the limit, a pass, a poll() and a pass.
LEMMA BoundLimit ==
    ASSUME IInv, NEW entry, NEW limit \in Nat, NEW n \in Nat, n <= Bound(entry, limit)
    PROVE  n <= limit + MaxPass + POLL_TIMEOUT + MaxPass
  <1>1. /\ phase \in {"poll", "pass"} /\ elapsed \in Nat
        /\ elapsed <= IF phase = "poll" THEN POLL_TIMEOUT ELSE MaxPass
    BY DEF IInv, TypeOK, Phase, PhaseLimit
  <1>2. POLL_TIMEOUT \in Nat /\ MaxPass \in Nat
    BY TimersAssumption
  <1> QED
    BY <1>1, <1>2 DEF Bound

\* In the initial state no clock runs.
LEMMA InitInv == Init => IInv
  <1>1. SUFFICES ASSUME Init PROVE IInv
    OBVIOUS
  <1>2. TypeOK /\ Phase /\ ScriptBound /\ IdleBound
    BY <1>1, TimersAssumption
    DEF Init, TypeOK, Exist, Phase, PhaseLimit, ScriptBound, IdleBound, Bound
  <1>3. Order
    <2>1. ASSUME NEW c \in Clients
          PROVE  conn[c] = "free" /\ idle[c] = 0 /\ quiet[c] = 0 /\ life[c] = 0
      BY <1>1 DEF Init
    <2>2. 0 <= 0 /\ 0 <= TIMEOUT + 0
      BY TimersAssumption
    <2>3. ASSUME NEW c \in Clients
          PROVE  /\ conn[c] = "paused" => idle[c] <= age[c]
                 /\ quiet[c] <= idle[c]
                 /\ conn[c] = "reading" => life[c] <= idle[c]
                 /\ life[c] <= TIMEOUT + idle[c]
      BY <2>1, <2>2
    <2> QED
      BY <2>3 DEF Order
  <1> QED
    BY <1>2, <1>3 DEF IInv

\* A second passes: every clock that runs, and the clock of the phase.
LEMMA TickKeeps == IInv /\ Tick => IInv'
  <1>1. SUFFICES ASSUME IInv, Tick PROVE IInv'
    OBVIOUS
  <1> USE TimersAssumption
  <1>2. elapsed' = elapsed + 1 /\ elapsed' <= PhaseLimit'
    BY <1>1 DEF Tick, IInv, TypeOK, PhaseLimit
  <1>3. \A c \in Clients : /\ idle'[c] = idle[c] + (IF conn[c] # "free" THEN 1 ELSE 0)
                           /\ quiet'[c] = quiet[c] + (IF conn[c] # "free" THEN 1 ELSE 0)
                           /\ life'[c] = life[c] + (IF conn[c] # "free" THEN 1 ELSE 0)
                           /\ age'[c] = age[c] + (IF script[c] THEN 1 ELSE 0)
    <2>1. SUFFICES ASSUME NEW c \in Clients
                   PROVE  /\ idle'[c] = idle[c] + (IF conn[c] # "free" THEN 1 ELSE 0)
                          /\ quiet'[c] = quiet[c] + (IF conn[c] # "free" THEN 1 ELSE 0)
                          /\ life'[c] = life[c] + (IF conn[c] # "free" THEN 1 ELSE 0)
                          /\ age'[c] = age[c] + (IF script[c] THEN 1 ELSE 0)
      OBVIOUS
    <2>2. /\ idle[c] \in Nat /\ quiet[c] \in Nat /\ life[c] \in Nat /\ age[c] \in Nat
          /\ script[c] \in BOOLEAN
      BY <1>1 DEF IInv, TypeOK
    <2>3. /\ idle'[c] = IF conn[c] # "free" THEN idle[c] + 1 ELSE idle[c]
          /\ quiet'[c] = IF conn[c] # "free" THEN quiet[c] + 1 ELSE quiet[c]
          /\ life'[c] = IF conn[c] # "free" THEN life[c] + 1 ELSE life[c]
          /\ age'[c] = IF script[c] THEN age[c] + 1 ELSE age[c]
      BY <1>1 DEF Tick, Ages
    <2> QED
      BY <2>2, <2>3
  <1>4. TypeOK'
    <2>1. /\ idle' \in [Clients -> Nat] /\ quiet' \in [Clients -> Nat]
          /\ life' \in [Clients -> Nat] /\ age' \in [Clients -> Nat]
      BY <1>1 DEF Tick, Ages, IInv, TypeOK
    <2> QED
      BY <1>1, <1>2, <1>3, <2>1 DEF Tick, IInv, TypeOK, Exist
  <1>5. Phase'
    BY <1>1, <1>2 DEF Tick, IInv, Phase
  <1>6. ScriptBound' /\ IdleBound'
    <2>1. UNCHANGED <<phase, todo, conn, script>> /\ elapsed \in Nat
      BY <1>1 DEF Tick, IInv, TypeOK
    <2>2. ASSUME NEW c \in Clients, script[c]
          PROVE  age'[c] <= Bound(<<"script", c>>, CGI_TIMEOUT)'
      <3>1. age'[c] = age[c] + 1 /\ age[c] \in Nat
        BY <1>1, <1>3, <2>2 DEF IInv, TypeOK
      <3>2. age[c] <= Bound(<<"script", c>>, CGI_TIMEOUT)
        BY <1>1, <2>2 DEF IInv, ScriptBound
      <3> QED
        BY <1>2, <2>1, <3>1, <3>2 DEF Bound
    <2>3. ASSUME NEW c \in Clients, conn[c] # "free"
          PROVE  idle'[c] <= Bound(<<"client", c>>, TIMEOUT)'
      <3>1. idle'[c] = idle[c] + 1 /\ idle[c] \in Nat
        BY <1>1, <1>3, <2>3 DEF IInv, TypeOK
      <3>2. idle[c] <= Bound(<<"client", c>>, TIMEOUT)
        BY <1>1, <2>3 DEF IInv, IdleBound
      <3> QED
        BY <1>2, <2>1, <3>1, <3>2 DEF Bound
    <2> QED
      BY <2>1, <2>2, <2>3 DEF ScriptBound, IdleBound
  <1>7. Order'
    BY <1>1, <1>3 DEF Tick, IInv, TypeOK, Order
  <1> QED
    BY <1>4, <1>5, <1>6, <1>7 DEF IInv

\* poll() returns, and processEvents: the clocks stand still, the bounds move.
LEMMA PhaseKeeps == IInv /\ (PollReturns \/ PassEnds) => IInv'
  <1>1. SUFFICES ASSUME IInv, PollReturns \/ PassEnds PROVE IInv'
    OBVIOUS
  <1> USE TimersAssumption
  <1>2. CASE PollReturns
    <2>1. \A c \in Clients : /\ script[c] => <<"script", c>> \in todo'
                             /\ conn[c] # "free" => <<"client", c>> \in todo'
      BY <1>2 DEF PollReturns, Exist
    <2>2. TypeOK' /\ Phase' /\ Order'
      BY <1>1, <1>2 DEF PollReturns, IInv, TypeOK, Exist, Phase, PhaseLimit, Order, clocks
    <2>3. elapsed \in Nat /\ elapsed <= POLL_TIMEOUT /\ phase = "poll" /\ phase' = "pass" /\ elapsed' = 0
      BY <1>1, <1>2 DEF PollReturns, IInv, TypeOK, Phase, PhaseLimit
    <2>4. ASSUME NEW entry \in todo', NEW limit \in Nat, NEW n \in Nat, n <= Bound(entry, limit)
          PROVE  n <= Bound(entry, limit)'
      BY <2>3, <2>4 DEF Bound
    <2>5. ScriptBound' /\ IdleBound'
      <3>1. UNCHANGED <<conn, script, age, idle>>
        BY <1>2 DEF PollReturns, clocks
      <3>2. ASSUME NEW c \in Clients, script[c] PROVE age[c] <= Bound(<<"script", c>>, CGI_TIMEOUT)'
        BY <1>1, <2>1, <2>4, <3>2 DEF IInv, TypeOK, ScriptBound
      <3>3. ASSUME NEW c \in Clients, conn[c] # "free" PROVE idle[c] <= Bound(<<"client", c>>, TIMEOUT)'
        BY <1>1, <2>1, <2>4, <3>3 DEF IInv, TypeOK, IdleBound
      <3> QED
        BY <3>1, <3>2, <3>3 DEF ScriptBound, IdleBound
    <2> QED
      BY <2>2, <2>5 DEF IInv
  <1>3. CASE PassEnds
    <2>1. TypeOK' /\ Phase' /\ Order'
      BY <1>1, <1>3 DEF PassEnds, IInv, TypeOK, Exist, Phase, PhaseLimit, Order, clocks
    <2>2. ScriptBound' /\ IdleBound'
      BY <1>1, <1>3
      DEF PassEnds, IInv, TypeOK, Phase, PhaseLimit, ScriptBound, IdleBound, Bound, clocks
    <2> QED
      BY <2>1, <2>2 DEF IInv
  <1> QED
    BY <1>1, <1>2, <1>3

\* A client is accepted: its clocks are new.
LEMMA NewClientKeeps == ASSUME IInv, NEW c \in Clients, NewClient(c) PROVE IInv'
  <1> USE TimersAssumption
  <1>1. TypeOK'
    BY DEF NewClient, Reset, IInv, TypeOK, Exist
  <1>2. Phase'
    BY DEF NewClient, IInv, Phase, PhaseLimit
  <1>3. ScriptBound' /\ IdleBound'
    BY DEF NewClient, Reset, IInv, TypeOK, Phase, ScriptBound, IdleBound, Bound
  <1>4. Order'
    BY DEF NewClient, Reset, IInv, TypeOK, Order
  <1> QED
    BY <1>1, <1>2, <1>3, <1>4 DEF IInv

\* A client leaves, whether its time is over or not. Its script goes on.
LEMMA CloseKeeps ==
    ASSUME IInv, NEW c \in Clients, Visit(<<"client", c>>, {}), Close(c)
    PROVE  IInv'
  <1> USE TimersAssumption
  <1>1. TypeOK'
    BY DEF Visit, Close, Reset, IInv, TypeOK, Exist
  <1>2. Phase'
    BY DEF Visit, IInv, Phase, PhaseLimit
  <1>3. ScriptBound' /\ IdleBound'
    BY DEF Visit, Close, Reset, IInv, TypeOK, ScriptBound, IdleBound, Bound
  <1>4. Order'
    BY DEF Close, Reset, IInv, TypeOK, Order
  <1> QED
    BY <1>1, <1>2, <1>3, <1>4 DEF IInv

\* A byte is read or written; the idle clock is restarted or not, and no script
\* begins.
LEMMA ServeKeeps ==
    ASSUME IInv, NEW c \in Clients, NEW to \in {"reading", "writing"},
           NEW from \in {"reading", "writing"}, to = "reading" => from = "reading",
           NEW last, last # idle => last = Reset(idle, c) /\ from = "reading" /\ to = "writing",
           Serve(c, from, to, last), UNCHANGED <<script, age>>
    PROVE  IInv'
  <1> USE TimersAssumption
  <1>1. idle[c] \in Nat /\ idle[c] <= TIMEOUT
    BY DEF Serve, IsTimedOut, IInv, TypeOK
  <1>2. /\ idle' = last /\ idle' \in [Clients -> Nat] /\ idle'[c] <= idle[c]
        /\ \A d \in Clients \ {c} : idle'[d] = idle[d] /\ conn'[d] = conn[d] /\ quiet'[d] = quiet[d]
    BY DEF Serve, Reset, IInv, TypeOK
  <1>3. TypeOK'
    <2>1. /\ phase' \in {"poll", "pass"} /\ elapsed' \in Nat
          /\ conn' \in [Clients -> {"free", "reading", "paused", "writing"}]
          /\ script' \in [Clients -> BOOLEAN] /\ age' \in [Clients -> Nat]
          /\ quiet' \in [Clients -> Nat] /\ life' \in [Clients -> Nat]
      BY DEF Serve, Visit, Reset, IInv, TypeOK
    <2>2. conn[c] # "free" /\ conn'[c] = to /\ to # "free" /\ to # "paused"
      BY DEF Serve, IInv, TypeOK
    <2>3. Exist' = Exist /\ todo' \subseteq todo
      BY <1>2, <2>2 DEF Serve, Visit, Exist
    <2>4. \A d \in Clients : conn'[d] = "free" => idle'[d] = 0 /\ quiet'[d] = 0 /\ life'[d] = 0
      BY <1>2, <2>2 DEF Serve, IInv, TypeOK
    <2>5. \A d \in Clients : conn'[d] = "paused" => script'[d]
      BY <1>2, <2>2 DEF IInv, TypeOK
    <2>6. QED
      BY <1>2, <2>1, <2>3, <2>4, <2>5 DEF IInv, TypeOK
  <1>4. Phase'
    BY DEF Serve, Visit, IInv, Phase, PhaseLimit
  <1>5. ScriptBound' /\ IdleBound'
    <2>1. /\ todo' = todo \ {<<"client", c>>} /\ UNCHANGED <<phase, elapsed>> /\ phase = "pass"
          /\ elapsed \in Nat
      BY DEF Serve, Visit, IInv, TypeOK
    <2>2. ScriptBound'
      BY <2>1 DEF IInv, ScriptBound, Bound
    <2>3. idle'[c] <= Bound(<<"client", c>>, TIMEOUT)'
      BY <1>1, <1>2, <2>1 DEF Bound
    <2>4. ASSUME NEW d \in Clients \ {c}, conn'[d] # "free"
          PROVE  idle'[d] <= Bound(<<"client", d>>, TIMEOUT)'
      BY <1>2, <2>1, <2>4 DEF IInv, IdleBound, Bound
    <2> QED
      BY <2>2, <2>3, <2>4 DEF IdleBound
  <1>6. Order'
    <2>1. ASSUME NEW d \in Clients \ {c}
          PROVE  idle'[d] = idle[d] /\ conn'[d] = conn[d] /\ quiet'[d] = quiet[d] /\ UNCHANGED <<life, age>>
      BY <1>2, <2>1 DEF Serve
    <2>2. /\ conn[c] = from /\ conn'[c] = to /\ quiet'[c] = 0 /\ UNCHANGED <<life, age>>
      BY DEF Serve, Reset, IInv, TypeOK
    <2>3. /\ idle'[c] = idle[c] \/ (idle'[c] = 0 /\ from = "reading" /\ to = "writing")
          /\ life[c] \in Nat /\ idle'[c] \in Nat
      BY <1>2 DEF Reset, IInv, TypeOK
    <2>4. /\ from = "reading" => life[c] <= idle[c]
          /\ life[c] <= TIMEOUT + idle[c]
      BY <2>2 DEF IInv, Order
    <2>5. life[c] <= TIMEOUT + idle'[c]
      BY <1>1, <2>2, <2>3, <2>4, TimersAssumption
    <2>6. to = "reading" => life[c] <= idle'[c]
      BY <2>2, <2>3, <2>4
    <2> QED
      BY <2>1, <2>2, <2>3, <2>5, <2>6 DEF IInv, Order
  <1> QED
    BY <1>3, <1>4, <1>5, <1>6 DEF IInv

\* A script begins, and both clocks with it.
LEMMA StartKeeps == ASSUME IInv, NEW c \in Clients, StartCGI(c) PROVE IInv'
  <1> USE TimersAssumption DEF UpdateLastActivity
  <1>1. idle[c] \in Nat /\ idle[c] <= TIMEOUT
    BY DEF StartCGI, Serve, IsTimedOut, IInv, TypeOK
  <1>2. TypeOK'
    BY DEF StartCGI, Serve, Visit, Reset, IInv, TypeOK, Exist
  <1>3. Phase'
    BY DEF StartCGI, Serve, Visit, IInv, Phase, PhaseLimit
  <1>4. ScriptBound' /\ IdleBound'
    BY DEF StartCGI, Serve, Visit, Reset, IInv, TypeOK, ScriptBound, IdleBound, Bound
  <1>5. Order'
    BY <1>1 DEF StartCGI, Serve, Reset, IInv, TypeOK, Order
  <1> QED
    BY <1>2, <1>3, <1>4, <1>5 DEF IInv

\* The visit of an entry that is in time and of which there is nothing to do
LEMMA NothingKeeps ==
    ASSUME IInv, NEW c \in Clients, Nothing(c) \/ CGIReadMore(c) PROVE IInv'
  <1> USE TimersAssumption DEF IsTimedOut, IsCGITimeout
  <1>1. TypeOK' /\ Phase' /\ Order'
    BY DEF Nothing, CGIReadMore, Visit, clocks, IInv, TypeOK, Exist, Phase, PhaseLimit, Order
  <1>2. CASE Nothing(c)
    <2>1. ScriptBound' /\ IdleBound'
      BY <1>2 DEF Nothing, Visit, clocks, IInv, TypeOK, ScriptBound, IdleBound, Bound
    <2> QED
      BY <1>1, <2>1 DEF IInv
  <1>3. CASE CGIReadMore(c)
    <2>1. ScriptBound' /\ IdleBound'
      BY <1>3 DEF CGIReadMore, Visit, clocks, IInv, TypeOK, ScriptBound, IdleBound, Bound
    <2> QED
      BY <1>1, <2>1 DEF IInv
  <1> QED
    BY <1>2, <1>3

\* A script ends, in time or not; its client may be there or not.
LEMMA ConcludeKeeps ==
    ASSUME IInv, NEW c \in Clients, Visit(<<"script", c>>, {}), Conclude(c)
    PROVE  IInv'
  <1> USE TimersAssumption
  <1>1. TypeOK'
    BY DEF Visit, Conclude, Reset, clocks, IInv, TypeOK, Exist
  <1>2. Phase'
    BY DEF Visit, IInv, Phase, PhaseLimit
  <1>3. ScriptBound' /\ IdleBound'
    BY DEF Visit, Conclude, Reset, clocks, IInv, TypeOK, ScriptBound, IdleBound, Bound
  <1>4. Order'
    BY DEF Conclude, Reset, clocks, IInv, TypeOK, Order
  <1> QED
    BY <1>1, <1>2, <1>3, <1>4 DEF IInv

\* Every step keeps the invariant.
LEMMA NextKeeps == IInv /\ [Next]_vars => IInv'
  <1>1. SUFFICES ASSUME IInv, [Next]_vars PROVE IInv'
    OBVIOUS
  <1>2. CASE Tick
    BY <1>1, <1>2, TickKeeps
  <1>3. CASE PollReturns \/ PassEnds
    BY <1>1, <1>3, PhaseKeeps
  <1>4. ASSUME NEW c \in Clients, NewClient(c) PROVE IInv'
    BY <1>1, <1>4, NewClientKeeps
  <1>5. ASSUME NEW c \in Clients, ClientVisit(c) PROVE IInv'
    <2>1. CASE ClientTimeout(c) \/ Disconnect(c)
      BY <1>1, <2>1, CloseKeeps DEF ClientTimeout, Disconnect
    <2>2. CASE ReadPart(c)
      BY <1>1, <2>2, ServeKeeps DEF ReadPart
    <2>3. CASE ReadWrong(c)
      BY <1>1, <2>3, ServeKeeps DEF ReadWrong
    <2>4. CASE ReadAnswered(c)
      BY <1>1, <2>4, ServeKeeps DEF ReadAnswered, UpdateLastActivity
    <2>5. CASE WritePart(c)
      BY <1>1, <2>5, ServeKeeps DEF WritePart
    <2>6. CASE StartCGI(c)
      BY <1>1, <2>6, StartKeeps
    <2>7. CASE Nothing(c)
      BY <1>1, <2>7, NothingKeeps
    <2> QED
      BY <1>5, <2>1, <2>2, <2>3, <2>4, <2>5, <2>6, <2>7 DEF ClientVisit
  <1>6. ASSUME NEW c \in Clients, ScriptVisit(c) PROVE IInv'
    <2>1. CASE CGITimeout(c) \/ CGIReadEnd(c)
      BY <1>1, <2>1, ConcludeKeeps DEF CGITimeout, CGIReadEnd
    <2>2. CASE CGIReadMore(c)
      BY <1>1, <2>2, NothingKeeps
    <2> QED
      BY <1>6, <2>1, <2>2 DEF ScriptVisit
  <1>7. CASE UNCHANGED vars
    BY <1>1, <1>7
    DEF vars, clocks, IInv, TypeOK, Exist, Phase, PhaseLimit, ScriptBound, IdleBound, Bound, Order
  <1> QED
    BY <1>1, <1>2, <1>3, <1>4, <1>5, <1>6, <1>7 DEF Next

LEMMA Invariance == Spec => []IInv
  <1> QED
    BY InitInv, NextKeeps, PTL DEF Spec

-----------------------------------------------------------------------------
\* The clocks that the code does not stop stand still when nothing uses them.
THEOREM TypeCorrect == Spec => []TypeOK
  <1>1. IInv => TypeOK
    BY DEF IInv
  <1> QED
    BY Invariance, <1>1, PTL

\* A script is served for CGI_TIMEOUT, one poll() and two passes at most.
THEOREM ScriptsEndInTime == Spec => []ScriptInTime
  <1>1. IInv => ScriptInTime
    BY TimersAssumption, BoundLimit DEF IInv, TypeOK, ScriptBound, ScriptInTime, ScriptLimit
  <1> QED
    BY Invariance, <1>1, PTL

\* As long as that is no longer than TIMEOUT, no client is closed as idle while
\* its script runs.
THEOREM NoIdleCloseWhilePaused == Spec => []PausedIsSafe
  <1>1. IInv => PausedIsSafe
    <2>1. SUFFICES ASSUME IInv, NEW c \in Clients, conn[c] = "paused" PROVE ~IsTimedOut(c)
      BY DEF PausedIsSafe
    <2>2. idle[c] \in Nat /\ age[c] \in Nat /\ idle[c] <= age[c] /\ script[c]
      BY <2>1 DEF IInv, TypeOK, Order
    <2>3. age[c] <= ScriptLimit
      BY <2>1, <2>2, TimersAssumption, BoundLimit DEF IInv, ScriptBound, ScriptLimit
    <2> QED
      BY <2>2, <2>3, TimersAssumption DEF IsTimedOut, ScriptLimit
  <1> QED
    BY Invariance, <1>1, PTL

\* No connection lasts longer than two stretches of idle time.
THEOREM ConnectionsEnd == Spec => []ConnectionEnds
  <1>1. IInv => ConnectionEnds
    <2>1. SUFFICES ASSUME IInv, NEW c \in Clients
                   PROVE  /\ quiet[c] <= idle[c] /\ idle[c] <= IdleLimit
                          /\ life[c] <= TIMEOUT + IdleLimit
      BY DEF ConnectionEnds
    <2>2. idle[c] <= IdleLimit
      <3>1. CASE conn[c] = "free"
        BY <2>1, <3>1, TimersAssumption DEF IInv, TypeOK, IdleLimit
      <3>2. CASE conn[c] # "free"
        BY <2>1, <3>2, TimersAssumption, BoundLimit DEF IInv, TypeOK, IdleBound, IdleLimit
      <3> QED
        BY <3>1, <3>2
    <2> QED
      BY <2>1, <2>2, TimersAssumption DEF IInv, TypeOK, Order, IdleLimit
  <1> QED
    BY Invariance, <1>1, PTL
=============================================================================
