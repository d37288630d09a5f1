---------------------------- MODULE MCLockManager ----------------------------
(* Instances of LockManager for TLC. *)
EXTENDS LockManager, TLC

CONSTANTS l1, l2, l3, r1, r2, p1, p2

\* Two lockers share a partition, the third has its own.
MCPartitionOf == (l1 :> p1) @@ (l2 :> p1) @@ (l3 :> p2)

\* l1 and l2 play the same part under MCPartitionOf.
MCSymmetry == Permutations({l1, l2})

\* Conversions are given up by l3 alone, which does not ask for IS, and the
\* search stops where the comment of FastPathEnsuresLastReference is wrong.
CancelsCleanly ==
    /\ \A l \in {l1, l2}, r \in Resources :
          ~(pc[l] = "cancel" /\ req[l][r].status = "CONVERTING")
    /\ op[l3].mode # "IS"
    /\ \A r \in Resources : req[l3][r].mode # "IS"
    /\ FastPathEnsuresLastReference

MCPartitionOf2 == (l1 :> p1) @@ (l2 :> p2)

=============================================================================
