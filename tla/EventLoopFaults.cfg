\* Clients dropped at any time, their addresses reused, bodies larger than the pipe.
CONSTANTS
    NServers = 1
    MaxFd = 6
    ClientAddr = {a1}
    CgiAddr = {h1}
    MaxConns = 2
    MaxBody = 2
    PipeCap = 1
    DropWhileRunning = TRUE
    NULL = NULL
SPECIFICATION Spec
SYMMETRY Symmetry
VIEW View
INVARIANTS
    TypeOK
    ListeningFirst
    FdOwnership
    ClientMapExact
    OneChildPerHandler
