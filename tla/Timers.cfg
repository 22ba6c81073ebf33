CONSTANTS
    Clients = {c1, c2}
    TIMEOUT = 5
    CGI_TIMEOUT = 1
    POLL_TIMEOUT = 2
    MaxPass = 1
SPECIFICATION Spec
INVARIANT ScriptInTime
INVARIANT PausedIsSafe
INVARIANT ConnectionEnds
