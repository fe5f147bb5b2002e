SPECIFICATION FairSpec
CONSTANTS
    NFree = 1
    NBack = 1
    SndBuf = 4
    Addrs = {"a"}
    Lens = {1, 2}
    MaxFrag = 0
    SpawnFails = FALSE
    NPack = 3
    Group = 1
    ErrGroups = 1
    Burst = 1
    DatIntv = 1
    MaxClock = 1
    CtlLen = 1
    RepLen = 2
    RepRoom = 2
    MaxSeq = 2
    FirstSeq = 0
    MaxInbox = 2
    Quotas <- QuietQuotas
PROPERTY QuietEnds
CHECK_DEADLOCK FALSE
