SPECIFICATION FairDetectorSpec
CONSTANTS
    l1 = l1
    l2 = l2
    l3 = l3
    r1 = r1
    r2 = r2
    p1 = p1
    Lockers = {l1, l2}
    Resources = {r1}
    PriorityResources = {}
    Partitions = {p1}
    PartitionOf <- MCPartitionOf
    Cleaner = Cleaner
    NoThread = NoThread
    MaxRecursion = 2
    UpgradeMayTimeout = TRUE
    Modes = {"IS", "S", "X"}
INVARIANT
    HeldCycleDiscovered
PROPERTY
    CheckTerminates
CHECK_DEADLOCK FALSE
