SPECIFICATION PmSpec
CONSTANTS
    CheckLimit = 2
    RestartLimit = 0
    FotaLimit = 0
    ErrorLimit = 1
    EvtCap = 1
INVARIANTS
    RingKeepsAwake
    ToldIsState
PROPERTY PmProgress
