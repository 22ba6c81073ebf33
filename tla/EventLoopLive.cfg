\* Two connections, one script at a time; no symmetry, as two of the properties are liveness ones.
CONSTANTS
    NServers = 1
    MaxFd = 5
    ClientAddr = {a1, a2}
    CgiAddr = {h1}
    MaxConns = 2
    MaxBody = 0
    PipeCap = 1
    DropWhileRunning = FALSE
    NULL = NULL
SPECIFICATION FairSpec
VIEW View
PROPERTIES
    EveryConnectionCloses
    EveryScriptEnds
    ImplementsService
