\* Two connections and two scripts at once, bodies that fit in the pipe.
CONSTANTS
    NServers = 1
    MaxFd = 7
    ClientAddr = {a1, a2}
    CgiAddr = {h1, h2}
    MaxConns = 2
    MaxBody = 1
    PipeCap = 1
    DropWhileRunning = FALSE
    NULL = NULL
SPECIFICATION Spec
SYMMETRY Symmetry
VIEW View
INVARIANTS
    NoUndefined
    CgiMapsAgree
    PollExact
    MaskMatchesRequest
    OwnAnswer
    CleanStop
