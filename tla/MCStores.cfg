SPECIFICATION StoresSpec
CONSTANTS
    Vals <- Images
    NoVal = NoVal
    UserVals <- MCUserVals
    NBuf = 5
    RingSize = 4
    Grade = 2
    InFlight = 1
    NErr = 1
    MaxRep = 6
    MaxNoRoom = 1
    MaxRare = 2
    Factory <- MCFactory
    Packages <- MCPackages
    Hangs <- MCHangs
    MaxPkg = 2
    MaxCut = 3
    MaxIo = 2
    MaxKinds = 1
INVARIANTS
    OneReadable
    SavedStays
    CardIsSound
    ReportsKept
    NoHang
    OneFaultSurvived
PROPERTY IsDurable
CHECK_DEADLOCK FALSE
