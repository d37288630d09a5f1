CONSTANTS
    n1 = n1
    n2 = n2
    n3 = n3
    Voters = {n1, n2, n3}
    Electable = {n1, n2}
    Snapshotters = {n1}
    Opens <- TakeTurns
    MaxSnapshots = 2
    MaxOps = 3
SPECIFICATION Spec
INVARIANTS
    TypeOK
    OplogsAgree
    CommittedSurvives
    OwnTermCommitted
    SnapshotsInOrder
PROPERTIES
    ImplementsLeadership
CONSTRAINTS
    OnlyStaleSources
    OneOfTermOneReplicated
CHECK_DEADLOCK FALSE
