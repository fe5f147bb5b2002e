SPECIFICATION Spec
CONSTANTS
    NFree = 1
    NBack = 1
    SndBuf = 4
    Addrs = {"a", "b"}
    Lens = {1, 2}
    MaxFrag = 0
    SpawnFails = FALSE
    NPack = 2
    Group = 1
    ErrGroups = 1
    Burst = 1
    DatIntv = 1
    MaxClock = 1
    CtlLen = 1
    RepLen = 2
    RepRoom = 2
    MaxSeq = 2
    FirstSeq = 2
    MaxInbox = 1
    Quotas <- SessionQuotas
INVARIANTS
    SessionSound
    SleepIsSafe
    LogoutSeqMatches
PROPERTY UsesSock
CHECK_DEADLOCK FALSE
