------------------------------ MODULE Startup ------------------------------
(***************************************************************************)
(* From the parsed configuration to the event loop and back: main,         *)
(* createServers and destroyServers, the constructor of Server and the     *)
(* SocketGuard that closes its socket when the constructor throws.         *)
(*                                                                         *)
(* One action is one system call of a constructor, with what the code does *)
(* about its outcome.  Any call may fail; bind() does when a server that   *)
(* is already listening has the address.                                   *)
(***************************************************************************)
EXTENDS Naturals, SequencesExt

CONSTANTS
    Host, AnyHost,  \* host names of the configuration; AnyHost is 0.0.0.0
    Port,
    MaxBlocks,      \* bound on the server blocks of a configuration
    MaxFd,          \* bound on the descriptors
    SizeMax         \* the largest value of a size_t

ASSUME StartupAssumption ==
    /\ AnyHost \in Host
    /\ MaxBlocks \in Nat /\ MaxFd \in Nat
    /\ SizeMax \in Nat /\ MaxBlocks < SizeMax

VARIABLES
    conf,    \* what parseConfig returned; never changes
    blocks,  \* serverBlocks: conf without the blocks given up
    list,    \* serverList: address and socket of every Server
    i,       \* index of the loop in createServers, a size_t
    step,    \* what comes next
    guard,   \* _socket.fd of the Server under construction
    open,    \* the sockets that are open
    status   \* exit status of the process

vars == <<conf, blocks, list, i, step, guard, open, status>>

Address == [host : Host, port : Port]
Fd      == 1..MaxFd
NoFd    == 0
Server  == [addr : Address, fd : Fd]
Running == 2                                \* no exit status yet

\* Two listening sockets cannot have these addresses.
Overlap(a, b) == a.port = b.port /\ (a.host = b.host \/ AnyHost \in {a.host, b.host})

\* The parser rejects an empty configuration and the same address twice.
Configurations ==
    {c \in UNION {[1..n -> Address] : n \in 1..MaxBlocks} : IsInjective(c)}

Init ==
    /\ conf \in Configurations
    /\ blocks = conf
    /\ list = <<>>
    /\ i = 0
    /\ step = "next"
    /\ guard = NoFd
    /\ open = {}
    /\ status = Running

-----------------------------------------------------------------------------
Inc(n) == IF n = SizeMax THEN 0 ELSE n + 1
NoDec(n) == n                                                   \* mutation
Dec(n) == IF n = 0 THEN SizeMax ELSE n - 1

KeepBlock(b, k)    == b                                         \* mutation
EraseBlock(b, k)   == RemoveAt(b, k + 1)                        \* b is indexed from 0
LeaveOpen(socks, f) == socks                                    \* mutation
Closed(socks, f)    == socks \ {f}

\* The constructor throws: the member destructor closes the socket if there is
\* one, createServers erases the block and steps back, the loop steps on.
Throw ==
    /\ blocks' = EraseBlock(blocks, i)
    /\ i' = Inc(Dec(i))
    /\ open' = Closed(open, guard)
    /\ guard' = NoFd
    /\ step' = "next"
    /\ UNCHANGED <<conf, list, status>>

Goto(s) == step' = s /\ UNCHANGED <<conf, blocks, list, i, guard, open, status>>

\* createSocket: socket(), then fcntl()
OpenSocket ==
    /\ step = "next" /\ i < Len(blocks)
    /\ \E f \in Fd \ open :
          /\ guard' = f
          /\ open' = open \cup {f}
    /\ step' = "fcntl"
    /\ UNCHANGED <<conf, blocks, list, i, status>>

SocketFails == step = "next" /\ i < Len(blocks) /\ Throw
SetNonBlocking == step = "fcntl" /\ Goto("bind")
FcntlFails == step = "fcntl" /\ Throw

\* bindSocket
Available(a) == \A k \in DOMAIN list : ~Overlap(list[k].addr, a)

Bind == step = "bind" /\ Available(blocks[i + 1]) /\ Goto("listen")
BindUnchecked == step = "bind" /\ Goto("listen")                 \* mutation
BindFails == step = "bind" /\ Throw

\* startListening; the Server is complete and goes to the list.
Listen ==
    /\ step = "listen"
    /\ list' = Append(list, [addr |-> blocks[i + 1], fd |-> guard])
    /\ guard' = NoFd
    /\ i' = Inc(i)
    /\ step' = "next"
    /\ UNCHANGED <<conf, blocks, open, status>>

ListenFails == step = "listen" /\ Throw

\* createServers returns, and the event loop runs...
RunAnyway == step = "next" /\ i >= Len(blocks) /\ Goto("run")    \* mutation
Run == step = "next" /\ i >= Len(blocks) /\ list # <<>> /\ Goto("run")

\* ... or it throws, as there is no server to run.
NoServer ==
    /\ step = "next" /\ i >= Len(blocks) /\ list = <<>>
    /\ step' = "exit"
    /\ status' = 1
    /\ UNCHANGED <<conf, blocks, list, i, guard, open>>

\* run() returns after a signal, or throws when poll() fails: destroyServers.
Shutdown ==
    /\ step = "run"
    /\ open' = open \ {list[k].fd : k \in DOMAIN list}
    /\ list' = <<>>
    /\ step' = "exit"
    /\ status' \in {0, 1}
    /\ UNCHANGED <<conf, blocks, i, guard>>

Create ==
    \/ OpenSocket \/ SocketFails
    \/ SetNonBlocking \/ FcntlFails
    \/ Bind \/ BindFails
    \/ Listen \/ ListenFails
    \/ Run \/ NoServer

Exited == step = "exit" /\ UNCHANGED vars

Next == Create \/ Shutdown \/ Exited

Spec == Init /\ [][Next]_vars

\* The constructors' calls return.
FairSpec == Spec /\ WF_vars(Create)

-----------------------------------------------------------------------------
\* Types; and _socket of the Server under construction holds a descriptor from
\* socket() on until the constructor returns or throws, and only then.
TypeOK ==
    /\ conf \in Seq(Address) /\ blocks \in Seq(Address)
    /\ list \in Seq(Server)
    /\ i \in 0..SizeMax
    /\ step \in {"next", "fcntl", "bind", "listen", "run", "exit"}
    /\ guard \in Fd \cup {NoFd}
    /\ guard # NoFd <=> step \in {"fcntl", "bind", "listen"}
    /\ open \subseteq Fd
    /\ status \in {0, 1, Running}

\* While servers are created, the blocks before the index are those of the
\* servers, in order, and those from the index on are the ones not tried yet:
\* erasing and stepping back skips no block, tries none twice, and leaves each
\* server its own block.
Untried == Len(blocks) - i

Aligned ==
    step # "exit" =>
    /\ i = Len(list) /\ Len(list) <= Len(blocks) /\ Len(blocks) <= Len(conf)
    /\ \A k \in 1..Len(list) : list[k].addr = blocks[k]
    /\ \A k \in 1..Untried : blocks[i + k] = conf[Len(conf) - Untried + k]

\* An open socket belongs to one server of the list or to the one under
\* construction, whichever calls failed before.
NoSocketLeak ==
    /\ open = {list[k].fd : k \in 1..Len(list)} \cup ({guard} \ {NoFd})
    /\ \A k \in 1..Len(list) : list[k].fd # guard
    /\ \A k, l \in 1..Len(list) : list[k].fd = list[l].fd => k = l

\* The loop never runs without a server, and a process that is about to exit
\* has closed all its listening sockets.
ServesOrExits ==
    /\ step = "run" => list # <<>> /\ i = Len(blocks)
    /\ step = "exit" => open = {} /\ list = <<>> /\ status # Running

\* No two servers listen where one would take the other's connections.
AddressesDisjoint ==
    \A k, l \in DOMAIN list : k # l => ~Overlap(list[k].addr, list[l].addr)

\* Every block is tried, once, and then the loop runs or the process exits: the
\* index that is stepped back does not keep createServers in its loop.
StartupEnds == <>(step \in {"run", "exit"})
=============================================================================
