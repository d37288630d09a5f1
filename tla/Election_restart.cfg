CONSTANTS
    n1 = n1
    n2 = n2
    n3 = n3
    None = None
    Voters = {n1, n2, n3}
    Electable = {n1, n2}
    Interruptible = {}
    MaxTerm = 1
    MaxRpcs = 1
    Restarting = {n3}
    MaxRestarts = 1
SPECIFICATION RestartSpec
SYMMETRY ElectableSymmetry
VIEW Relevant
INVARIANT OnePrimaryPerTerm
CHECK_DEADLOCK FALSE
