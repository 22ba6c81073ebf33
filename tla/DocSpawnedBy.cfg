\* A client dropped while its script runs.
CONSTANTS
    NServers = 1
    MaxFd = 5
    ClientAddr = {a1}
    CgiAddr = {h1}
    MaxConns = 2
    MaxBody = 0
    PipeCap = 1
    DropWhileRunning = TRUE
    NULL = NULL
SPECIFICATION Spec
INVARIANT SpawnedBy
