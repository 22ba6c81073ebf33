\* Bodies of up to two bytes, files of up to two tokens, names of up to three.
CONSTANTS
    Sent <- AllSent
    MaxLength = 42
    BUFFER_SIZE = 2
    WordSize = 256
    MaxBody = 2
SPECIFICATION Spec
INVARIANTS
    NothingStale
    BodyArrives
    CompleteInTime
    SameVerdict
    UploadArrives
    TargetArrives
    SessionKept
    EchoArrives
    AnswerArrives
