SPECIFICATION PartsSpec
CONSTANTS
    NFree = 2
    NBack = 1
    SndBuf = 4
    Addrs = {"a", "b"}
    Lens = {1, 2}
    MaxFrag = 2
    SpawnFails = TRUE
    NPack = 3
    Group = 2
    ErrGroups = 2
    Burst = 1
    DatIntv = 2
    MaxClock = 3
    Marker = 3
    Esc = 0
    RxSize = 12
    TooLong = 10
    Noises <- MCNoises
    Msgs1 <- MCMsgs1
    Msgs2 <- MCMsgs2
    Hash = 3
    HeadLen = 3
    Datas <- MCDatas
    NFrames = 2
    Packages <- MCPackages
    TBOX = "tbox"
INVARIANTS
    ReleasedWereAcked
    AccountExact
    AckedFrameIsReleasable
    SyncEntriesSound
    OnePlace
    ListMatchesType
    ReportsInOrder
    FramesSound
    CleanFramesHandled
    OneUpgrade
    AllOrNothing
