----------------------------- MODULE Leadership -----------------------------
(***************************************************************************)
(* What elections promise the rest of a member: terms only grow, a term is *)
(* won at most once, and a primary that learns of a later term steps down. *)
(* How votes are collected is not seen here; Election implements it.       *)
(*                                                                         *)
(* Between the moment a primary takes over a later term and the moment it  *)
(* has the global exclusive lock to step down, it is a primary in a term   *)
(* it did not win: the promise includes that window, as the code does.     *)
(***************************************************************************)
EXTENDS Integers

CONSTANTS
    Voters,     \* the voting members of the configuration
    Electable,  \* the members of non-zero priority
    MaxTerm     \* the bound on terms

VARIABLES
    term,             \* the term each member is in
    standing,         \* the member opened the term it is in and may win it
    leader,           \* whether the member is primary
    stepDownPending,  \* a primary has decided to step down
    finishing,        \* _stepDownFinish waits for the global exclusive lock
    elected           \* history: <<term, member>> for each election won

leadershipVars == <<term, standing, leader, stepDownPending, finishing, elected>>

Terms == 0..MaxTerm

LeadershipTypeOK ==
    /\ term \in [Voters -> Terms]
    /\ standing \in [Voters -> BOOLEAN]
    /\ leader \in [Voters -> BOOLEAN]
    /\ stepDownPending \in [Voters -> BOOLEAN]
    /\ finishing \in [Voters -> BOOLEAN]
    /\ elected \subseteq Terms \X Voters

LeadershipInit ==
    /\ term = [n \in Voters |-> 0]
    /\ standing = [n \in Voters |-> FALSE]
    /\ leader = [n \in Voters |-> FALSE]
    /\ stepDownPending = [n \in Voters |-> FALSE]
    /\ finishing = [n \in Voters |-> FALSE]
    /\ elected = {}

\* A later term reaches n: it no longer stands for the one it was in, and a
\* primary prepares to step down.
LearnTerm(n) ==
    /\ \E m \in Voters : \E t \in (term[n] + 1)..term[m] :
         term' = [term EXCEPT ![n] = t]
    /\ standing' = [standing EXCEPT ![n] = FALSE]
    /\ stepDownPending' = [stepDownPending EXCEPT ![n] = @ \/ leader[n]]
    /\ finishing' = [finishing EXCEPT ![n] = @ \/ leader[n]]
    /\ UNCHANGED <<leader, elected>>

\* A dry run succeeded: n opens the next term as its candidate.
OpenTerm(n) ==
    /\ n \in Electable
    /\ ~leader[n] /\ ~standing[n]
    /\ term[n] < MaxTerm
    /\ term' = [term EXCEPT ![n] = @ + 1]
    /\ standing' = [standing EXCEPT ![n] = TRUE]
    /\ UNCHANGED <<leader, stepDownPending, finishing, elected>>

\* The election of n comes to nothing.
Lose(n) ==
    /\ standing[n]
    /\ standing' = [standing EXCEPT ![n] = FALSE]
    /\ UNCHANGED <<term, leader, stepDownPending, finishing, elected>>

\* The votes of the term make n its primary.
Win(n) ==
    /\ standing[n]
    /\ \A e \in elected : e[1] # term[n]
    /\ standing' = [standing EXCEPT ![n] = FALSE]
    /\ leader' = [leader EXCEPT ![n] = TRUE]
    /\ elected' = elected \cup {<<term[n], n>>}
    /\ UNCHANGED <<term, stepDownPending, finishing>>

\* A primary that sees no majority decides to step down.
Relinquish(n) ==
    /\ leader[n]
    /\ ~stepDownPending[n]
    /\ stepDownPending' = [stepDownPending EXCEPT ![n] = TRUE]
    /\ finishing' = [finishing EXCEPT ![n] = TRUE]
    /\ UNCHANGED <<term, standing, leader, elected>>

\* The step-down decided on happens, unless a command did it before.
FinishStepDown(n) ==
    /\ finishing[n]
    /\ finishing' = [finishing EXCEPT ![n] = FALSE]
    /\ leader' = [leader EXCEPT ![n] = @ /\ ~stepDownPending[n]]
    /\ stepDownPending' = [stepDownPending EXCEPT ![n] = FALSE]
    /\ UNCHANGED <<term, standing, elected>>

\* The replSetStepDown command.
StepDown(n) ==
    /\ leader[n]
    /\ leader' = [leader EXCEPT ![n] = FALSE]
    /\ stepDownPending' = [stepDownPending EXCEPT ![n] = FALSE]
    /\ UNCHANGED <<term, standing, finishing, elected>>

LeadershipStep(n) ==
    \/ LearnTerm(n)
    \/ OpenTerm(n)
    \/ Lose(n)
    \/ Win(n)
    \/ Relinquish(n)
    \/ FinishStepDown(n)
    \/ StepDown(n)

LeadershipNext == \E n \in Voters : LeadershipStep(n)

LeadershipSpec == LeadershipInit /\ [][LeadershipNext]_leadershipVars
=============================================================================
