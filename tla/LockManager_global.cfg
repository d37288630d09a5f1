SPECIFICATION Spec
CONSTANTS
    l1 = l1
    l2 = l2
    l3 = l3
    r1 = r1
    r2 = r2
    p1 = p1
    p2 = p2
    Lockers = {l1, l2, l3}
    Resources = {r1}
    PriorityResources = {r1}
    Partitions = {p1, p2}
    PartitionOf <- MCPartitionOf
    Cleaner = Cleaner
    NoThread = NoThread
    MaxRecursion = 2
    UpgradeMayTimeout = TRUE
INVARIANTS
    TypeOK
    GrantedCompatible
    CountsMatchQueues
    PartitionedMeansIntent
    NoLostWakeup
    LockersHoldWhatTheyBelieve
PROPERTY
    NotifiedAtMostOnce
CONSTRAINT CancelsCleanly
SYMMETRY MCSymmetry
CHECK_DEADLOCK FALSE
