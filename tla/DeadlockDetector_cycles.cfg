SPECIFICATION DetectorSpec
CONSTANTS
    l1 = l1
    l2 = l2
    l3 = l3
    r1 = r1
    r2 = r2
    p1 = p1
    Lockers = {l1, l2, l3}
    Resources = {r1, r2}
    PriorityResources = {}
    Partitions = {p1}
    PartitionOf <- MCPartitionOf
    Cleaner = Cleaner
    NoThread = NoThread
    MaxRecursion = 1
    UpgradeMayTimeout = TRUE
    Modes = {"S", "X"}
INVARIANTS
    DetectorTypeOK
    StableCycleDiscovered
SYMMETRY MCSymmetry
CHECK_DEADLOCK FALSE
