CONSTANTS
    n1 = n1
    n2 = n2
    n3 = n3
    Voters = {n1, n2, n3}
    Electable = {n1, n2}
    Snapshotters = {}
    Opens <- TakeTurns
    MaxSnapshots = 1
    MaxOps = 3
SPECIFICATION Spec
INVARIANT
    CommittedNeverRolledBack
CHECK_DEADLOCK FALSE
