CONSTANTS
    MaxTs = 4
    MaxWins = 1
    MaxCrashes = 1
SPECIFICATION FairApplySpec
INVARIANT ReadsAreConsistent
CHECK_DEADLOCK FALSE
