SPECIFICATION LinksSpec
CONSTANTS
    Packages <- MCPackages
    TBOX = "tbox"
    MaxWait = 2
    NmCap = 3
    MaxFaults = 2
    HeartLimit = 2
    MsgCap = 2
    PmTold = {"SLEEP", "RUNNING"}
    FtMaxRetry = 2
    FtMayChange = {"net", "suspend", "can", "kl15", "break", "upgrade"}
PROPERTY UpdateKeepsOnline
