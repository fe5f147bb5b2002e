SPECIFICATION Spec
CONSTANTS
    NFree = 2
    NBack = 1
    SndBuf = 6
    Addrs = {"a"}
    Lens = {1, 2}
    MaxFrag = 0
    SpawnFails = FALSE
    NPack = 4
    Group = 1
    ErrGroups = 1
    Burst = 1
    DatIntv = 1
    MaxClock = 6
    CtlLen = 1
    RepLen = 2
    RepRoom = 4
    MaxSeq = 2
    FirstSeq = 0
    MaxInbox = 1
    Quotas <- SlowQuotas
INVARIANT NoBigError
CHECK_DEADLOCK FALSE
