--------------------------- MODULE MCReplication ---------------------------
(* Small instances of Replication. *)
EXTENDS Replication, TLC

CONSTANTS n1, n2, n3

\* The bound on the search: past rollbacks for a stale source, and not past the
\* other anomalies.
OnlyStaleSources == anomalies \subseteq {"staleSource"}

\* A further bound: the second operation of the first term stays with n1, its
\* primary, which may have to roll it back.
OneOfTermOneReplicated ==
    \A n \in {n2, n3} : Len(oplog[n]) = 3 => oplog[n][3][1] = 2

\* One term for each.
TakeTurns == n1 :> {1} @@ n2 :> {2}
=============================================================================
