------------------------------- MODULE Timers -------------------------------
(***************************************************************************)
(* The two clocks of the event loop in seconds: _lastActivity of a client  *)
(* against TIMEOUT, _cgiStartTime of a script against CGI_TIMEOUT. Both    *)
(* are read only when processEvents visits the entry, once in a pass, and  *)
(* a pass begins at the latest POLL_TIMEOUT after the one before.          *)
(*                                                                         *)
(* EventLoop lets time run out whenever it likes; here time is counted and *)
(* everything else about a request is left out.                            *)
(***************************************************************************)
EXTENDS Naturals

CONSTANTS
    Clients,       \* connections
    TIMEOUT, CGI_TIMEOUT,
    POLL_TIMEOUT,  \* 5 seconds; the code has it in milliseconds
    MaxPass        \* the longest a pass takes, waitpid() included

\* A script is seen to be late after the last pass that found it in time, a
\* poll(), and the pass that ends it.
ScriptLimit == CGI_TIMEOUT + MaxPass + POLL_TIMEOUT + MaxPass
IdleLimit   == TIMEOUT + MaxPass + POLL_TIMEOUT + MaxPass

\* 3 + 5 <= 45: passes may take up to 18 seconds.
ASSUME TimersAssumption ==
    /\ TIMEOUT \in Nat /\ CGI_TIMEOUT \in Nat /\ POLL_TIMEOUT \in Nat /\ MaxPass \in Nat
    /\ ScriptLimit <= TIMEOUT

VARIABLES
    phase,    \* "poll", or "pass" through processEvents
    elapsed,  \* seconds since the phase began
    todo,     \* the entries of _pollFds the pass has still to visit
    conn,     \* what the client's entry waits for
    script,   \* does a script run for it, or for what it was before it left?
    idle,     \* time(NULL) - _lastActivity
    age,      \* time(NULL) - _cgiStartTime
    quiet,    \* seconds since a byte was read or written; the code has no such clock
    life      \* seconds since accept(); the code has no such clock

vars == <<phase, elapsed, todo, conn, script, idle, age, quiet, life>>
clocks == <<idle, quiet, life>>

Entries == {"client", "script"} \X Clients
Exist   == {"client"} \X {c \in Clients : conn[c] # "free"}
           \cup {"script"} \X {c \in Clients : script[c]}

Init ==
    /\ phase = "poll" /\ elapsed = 0 /\ todo = {}
    /\ conn = [c \in Clients |-> "free"]
    /\ script = [c \in Clients |-> FALSE]
    /\ idle = [c \in Clients |-> 0]
    /\ age = [c \in Clients |-> 0]
    /\ quiet = [c \in Clients |-> 0]
    /\ life = [c \in Clients |-> 0]

-----------------------------------------------------------------------------
\* Time passes in poll() and, as far as it may, in processEvents.
Ages(clock, running) == [c \in Clients |-> IF running[c] THEN clock[c] + 1 ELSE clock[c]]

Tick ==
    LET open == [c \in Clients |-> conn[c] # "free"] IN
    /\ elapsed < IF phase = "poll" THEN POLL_TIMEOUT ELSE MaxPass
    /\ elapsed' = elapsed + 1
    /\ idle' = Ages(idle, open) /\ quiet' = Ages(quiet, open) /\ life' = Ages(life, open)
    /\ age' = Ages(age, script)
    /\ UNCHANGED <<phase, todo, conn, script>>

\* poll() returns for an event or after POLL_TIMEOUT.
PollReturns ==
    /\ phase = "poll"
    /\ phase' = "pass" /\ elapsed' = 0 /\ todo' = Exist
    /\ UNCHANGED <<conn, script, age, clocks>>

PassEnds ==
    /\ phase = "pass" /\ todo = {}
    /\ phase' = "poll" /\ elapsed' = 0
    /\ UNCHANGED <<todo, conn, script, age, clocks>>

-----------------------------------------------------------------------------
(* The visits of a pass: time first, events then *)

Visit(entry, added) ==
    /\ phase = "pass" /\ entry \in todo
    /\ todo' = (todo \ {entry}) \cup added
    /\ UNCHANGED <<phase, elapsed>>

Reset(clock, c) == [clock EXCEPT ![c] = 0]

\* handleNewClient: the entry is appended, and visited in the same pass.
NewClient(c) ==
    /\ phase = "pass" /\ conn[c] = "free" /\ ~script[c]
    /\ conn' = [conn EXCEPT ![c] = "reading"]
    /\ todo' = todo \cup {<<"client", c>>}
    /\ idle' = Reset(idle, c) /\ quiet' = Reset(quiet, c) /\ life' = Reset(life, c)
    /\ UNCHANGED <<phase, elapsed, script, age>>

Close(c) ==
    /\ conn' = [conn EXCEPT ![c] = "free"]
    /\ idle' = Reset(idle, c) /\ quiet' = Reset(quiet, c) /\ life' = Reset(life, c)
    /\ UNCHANGED <<script, age>>

NotWhileReading(c) == idle[c] > TIMEOUT /\ conn[c] # "reading"   \* mutation
IsTimedOut(c) == idle[c] > TIMEOUT

ClientTimeout(c) == Visit(<<"client", c>>, {}) /\ IsTimedOut(c) /\ Close(c)

\* An event of a client that is not timed out: its state, the restart of its
\* idle clock
Serve(c, from, to, lastActivity) ==
    /\ Visit(<<"client", c>>, IF to = "paused" THEN {<<"script", c>>} ELSE {})
    /\ ~IsTimedOut(c) /\ conn[c] = from
    /\ conn' = [conn EXCEPT ![c] = to]
    /\ idle' = lastActivity
    /\ quiet' = Reset(quiet, c)
    /\ UNCHANGED life

Unrestarted(c) == idle                                          \* mutation
\* handleRequestComplete() ends with updateLastActivity(), whatever it decided.
UpdateLastActivity(c) == Reset(idle, c)

ReadPart(c)  == Serve(c, "reading", "reading", idle) /\ UNCHANGED <<script, age>>
\* P_ERROR: a 400, and no updateLastActivity()
ReadWrong(c) == Serve(c, "reading", "writing", idle) /\ UNCHANGED <<script, age>>
ReadAnswered(c) == Serve(c, "reading", "writing", UpdateLastActivity(c)) /\ UNCHANGED <<script, age>>
WritePart(c) == Serve(c, "writing", "writing", idle) /\ UNCHANGED <<script, age>>

StartCGI(c) ==
    /\ Serve(c, "reading", "paused", UpdateLastActivity(c))
    /\ script' = [script EXCEPT ![c] = TRUE]
    /\ age' = Reset(age, c)

\* The rest is written, the peer is gone, or a system call fails.
Disconnect(c) == Visit(<<"client", c>>, {}) /\ ~IsTimedOut(c) /\ Close(c)

Nothing(c) ==
    /\ Visit(<<"client", c>>, {})
    /\ ~IsTimedOut(c)
    /\ UNCHANGED <<conn, script, age, clocks>>

OnePassLater(c) == age[c] > CGI_TIMEOUT + POLL_TIMEOUT + 1       \* mutation
IsCGITimeout(c) == age[c] > CGI_TIMEOUT

\* handleCGITimeout and the end of handleCGIRead: the client gets its answer.
Conclude(c) ==
    /\ script' = [script EXCEPT ![c] = FALSE]
    /\ age' = Reset(age, c)
    /\ conn' = IF conn[c] = "paused" THEN [conn EXCEPT ![c] = "writing"] ELSE conn
    /\ UNCHANGED clocks

CGITimeout(c) == Visit(<<"script", c>>, {}) /\ IsCGITimeout(c) /\ Conclude(c)
CGIReadEnd(c) == Visit(<<"script", c>>, {}) /\ ~IsCGITimeout(c) /\ Conclude(c)
CGIReadMore(c) ==
    /\ Visit(<<"script", c>>, {})
    /\ ~IsCGITimeout(c)
    /\ UNCHANGED <<conn, script, age, clocks>>

-----------------------------------------------------------------------------
ClientVisit(c) ==
    \/ ClientTimeout(c) \/ ReadPart(c) \/ ReadWrong(c) \/ ReadAnswered(c) \/ StartCGI(c)
    \/ WritePart(c) \/ Disconnect(c) \/ Nothing(c)

ScriptVisit(c) == CGITimeout(c) \/ CGIReadEnd(c) \/ CGIReadMore(c)

Next ==
    \/ Tick \/ PollReturns \/ PassEnds
    \/ \E c \in Clients : NewClient(c) \/ ClientVisit(c) \/ ScriptVisit(c)

Spec == Init /\ [][Next]_vars

-----------------------------------------------------------------------------
\* Types; the clocks of a connection or a script that is not there stand still.
TypeOK ==
    /\ phase \in {"poll", "pass"} /\ elapsed \in Nat
    /\ todo \subseteq Exist
    /\ conn \in [Clients -> {"free", "reading", "paused", "writing"}]
    /\ script \in [Clients -> BOOLEAN]
    /\ idle \in [Clients -> Nat] /\ age \in [Clients -> Nat]
    /\ quiet \in [Clients -> Nat] /\ life \in [Clients -> Nat]
    /\ \A c \in Clients : conn[c] = "free" => idle[c] = 0 /\ quiet[c] = 0 /\ life[c] = 0
    /\ \A c \in Clients : conn[c] = "paused" => script[c]

\* handleCGITimeout: no script, whatever it does and whether or not its client
\* is still there, is served longer than ScriptLimit, 8 seconds and the time
\* of two passes.
ScriptInTime == \A c \in Clients : script[c] => age[c] <= ScriptLimit

\* isClientTimeout: no client is taken for idle while its script runs, although
\* the test makes no exception for it: CGI_TIMEOUT is always noticed first. This
\* is the first regime of EventLoop.
PausedIsSafe == \A c \in Clients : conn[c] = "paused" => ~IsTimedOut(c)

\* updateLastActivity: the clock is restarted once in the life of a connection,
\* so no peer, silent or busy, keeps one for longer than two stretches, and one
\* that is silent has lost it after the first.
ConnectionEnds ==
    \A c \in Clients : /\ quiet[c] <= idle[c] /\ idle[c] <= IdleLimit
                       /\ life[c] <= TIMEOUT + IdleLimit
=============================================================================
