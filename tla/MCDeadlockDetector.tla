------------------------- MODULE MCDeadlockDetector -------------------------
(* Instances of DeadlockDetector for TLC. *)
EXTENDS DeadlockDetector, TLC

CONSTANTS l1, l2, l3, r1, r2, p1

MCPartitionOf == [l \in Lockers |-> p1]

\* All lockers play the same part.
MCSymmetry == Permutations(Lockers)

=============================================================================
