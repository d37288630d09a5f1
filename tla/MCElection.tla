---------------------------- MODULE MCElection ----------------------------
(* Small instances of Election. *)
EXTENDS Election, TLC

ElectableSymmetry == Permutations(Electable)

\* What is on disk decides nothing before a member restarts.
InMemory == <<topology, lastVote, requester, rpcs, history>>
=============================================================================
