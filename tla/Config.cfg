\* One server with any clauses, one location with any clauses, two servers with several.
CONSTANTS
    Text <- MCText
    Lex <- MCLex
    NaN = NaN
    NoHost = NoHost
    WordSize = 1073741824
SPECIFICATION FilesSpec
INVARIANTS
    TypeOK
    Usable
    ReadAsWritten
    NeverMisread
