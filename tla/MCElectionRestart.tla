------------------------- MODULE MCElectionRestart -------------------------
(* Small instances of ElectionRestart. *)
EXTENDS ElectionRestart, TLC

ElectableSymmetry == Permutations(Electable)

\* What a member that never restarts has on disk decides nothing.
Relevant == <<topology, lastVote, [n \in Restarting |-> storedVote[n]],
              requester, rpcs, history, restarts>>
=============================================================================
