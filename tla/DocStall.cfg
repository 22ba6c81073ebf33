\* One GET script.
CONSTANTS
    NServers = 1
    MaxFd = 4
    ClientAddr = {a1}
    CgiAddr = {h1}
    MaxConns = 1
    MaxBody = 0
    PipeCap = 1
    DropWhileRunning = FALSE
    NULL = NULL
SPECIFICATION Spec
INVARIANT NeverStalled
