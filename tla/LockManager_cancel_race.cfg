SPECIFICATION Spec
CONSTANTS
    l1 = l1
    l2 = l2
    l3 = l3
    r1 = r1
    r2 = r2
    p1 = p1
    p2 = p2
    Lockers = {l1, l2}
    Resources = {r1}
    PriorityResources = {}
    Partitions = {p1, p2}
    PartitionOf <- MCPartitionOf2
    Cleaner = Cleaner
    NoThread = NoThread
    MaxRecursion = 2
    UpgradeMayTimeout = TRUE
INVARIANT
    FastPathEnsuresLastReference
CHECK_DEADLOCK FALSE
