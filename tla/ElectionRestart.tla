-------------------------- MODULE ElectionRestart --------------------------
(***************************************************************************)
(* Elections among members that crash and restart.  A member comes back    *)
(* with the vote it had stored and with the later of that vote's term and  *)
(* the term of the last entry of its oplog; everything else is lost.       *)
(***************************************************************************)
EXTENDS Election

CONSTANTS
    Restarting,     \* the members that may restart
    MaxRestarts     \* the bound on restarts

VARIABLE restarts       \* how many members have restarted

restartVars == <<vars, restarts>>

(***************************************************************************)
(* The commands after a restart of n: those n was working on are gone and  *)
(* their requesters see them fail, those n had sent have no requester.     *)
(***************************************************************************)
Disconnected(n) ==
    Orphan({r \in rpcs : r.to # n}, n)
        \cup {[r EXCEPT !.stage = "done", !.granted = FALSE, !.respTerm = -1] :
                r \in {q \in rpcs : q.to = n /\ q.live}}

(***************************************************************************)
(* _startLoadLocalConfig, _finishLoadLocalConfig: loadLastVote, then the   *)
(* restored term.  The last entry of the oplog is of a term some primary   *)
(* was elected in, and this member had heard of it.                        *)
(***************************************************************************)
Restart(n) ==
    /\ restarts < MaxRestarts
    /\ restarts' = restarts + 1
    /\ \E oplogTerm \in {0} \cup {e[1] : e \in elected} :
         /\ oplogTerm <= term[n]
         /\ term' = [term EXCEPT ![n] = IF oplogTerm < storedVote[n].term
                                        THEN storedVote[n].term ELSE oplogTerm]
    /\ lastVote' = [lastVote EXCEPT ![n] = storedVote[n]]
    /\ role' = [role EXCEPT ![n] = "follower"]
    /\ followerMode' = [followerMode EXCEPT ![n] = "secondary"]
    /\ modeChange' = [modeChange EXCEPT ![n] = FALSE]
    /\ stepDownPending' = [stepDownPending EXCEPT ![n] = FALSE]
    /\ finishing' = [finishing EXCEPT ![n] = FALSE]
    /\ requester' = [requester EXCEPT ![n] = NoRequester]
    /\ rpcs' = Disconnected(n)
    /\ UNCHANGED <<storedVote, history>>

RestartInit == Init /\ restarts = 0

RestartNext ==
    \/ Next /\ UNCHANGED restarts
    \/ \E n \in Restarting : Restart(n)

RestartSpec == RestartInit /\ [][RestartNext]_restartVars
=============================================================================
