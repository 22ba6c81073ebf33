\* Two clients, one file that is uploaded, read and deleted, one other process or more.
CONSTANTS
    Paths <- MCPaths
    Requests <- MCRequests
    Data <- MCData
    Begins <- MCBegins
    Clients = {c1, c2}
    Top <- MCTop
    www = www
    up = up
    f = f
    dots = dots
    d1 = d1
    Empty = Empty
    Torn = Torn
    Unsafe = {dots}
    MaxSessions = 2
SPECIFICATION Spec
VIEW View
INVARIANTS
    TypeOK
    SessionsDistinct
PROPERTY ImplementsStore
