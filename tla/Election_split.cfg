CONSTANTS
    n1 = n1
    n2 = n2
    n3 = n3
    None = None
    Voters = {n1, n2, n3}
    Electable = {n1, n2}
    Interruptible = {}
    MaxTerm = 1
    MaxRpcs = 1
SPECIFICATION Spec
SYMMETRY ElectableSymmetry
VIEW InMemory
INVARIANTS
    VotesOncePerTerm
    OnePrimaryPerTerm
CHECK_DEADLOCK FALSE
