\* A directory whose index file is a script.
CONSTANTS
    Paths <- MCPaths
    Requests <- MCRequests
    Data <- MCData
    Begins <- MCBegins
    Clients = {c1, c2}
    Top <- MCTop
    www = www
    up = up
    f = f
    dots = dots
    d1 = d1
    Empty = Empty
    Torn = Torn
    Unsafe = {dots}
    MaxSessions = 2
SPECIFICATION Spec
INVARIANT IndexIsRun
