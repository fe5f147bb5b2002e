SPECIFICATION SockSpec
CONSTANTS
    NFree = 2
    NBack = 1
    SndBuf = 4
    Addrs = {"a"}
    Lens = {1}
    MaxFrag = 1
    SpawnFails = TRUE
INVARIANT InprogHasThread
