SPECIFICATION CfgSpec
CONSTANTS
    Vals <- Images
    NoVal = NoVal
    UserVals <- MCUserVals
INVARIANTS
    NewParaHasValue
