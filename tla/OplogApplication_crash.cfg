CONSTANTS
    MaxTs = 4
    MaxWins = 1
    MaxCrashes = 2
SPECIFICATION FairApplySpec
INVARIANTS
    ApplyTypeOK
    ReadsMatchOplog
    WritesAfterDrain
    OplogIsUpstreams
PROPERTIES
    OptimeMovesForward
    DrainEnds
    RecoveryEnds
CHECK_DEADLOCK FALSE
