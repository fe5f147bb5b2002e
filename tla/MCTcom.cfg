SPECIFICATION TcomSpec
CONSTANTS
    Modules = {"m1", "m2"}
    TCOM = "TCOM"
    Headers <- MCHeaders
    BufSize = 3
    PipeCap = 2
    MaxLen = 2
INVARIANT RingMatchesPipe
PROPERTIES
    IsMsgQueue
    MessagesMove
