CONSTANTS
    n1 = n1
    n2 = n2
    None = None
    Voters = {n1, n2}
    Electable = {n1, n2}
    Interruptible = {n1}
    MaxTerm = 3
    MaxRpcs = 0
SPECIFICATION FairSpec
INVARIANTS
    TypeOK
    PrimaryLeadsItsTerm
    RoleInvariants
PROPERTIES
    ImplementsLeadership
    ElectionEnds
    StepDownEnds
CHECK_DEADLOCK FALSE
