------------------------------ MODULE Election ------------------------------
(***************************************************************************)
(* Elections of replica-set protocol version 1.  A member that hears from  *)
(* no primary stands for election: it asks the voters for their votes in a *)
(* dry run of its current term, moves to the next term, votes for itself,  *)
(* stores that vote on disk and asks for the real votes.                   *)
(*                                                                         *)
(* Callbacks of a member's ReplicationExecutor run one at a time, so each  *)
(* is one action.  The replSetRequestVotes command runs on a thread of its *)
(* own; it enters the executor twice (to learn the term, to vote) and then *)
(* stores the vote, and other callbacks run in between: its progress is    *)
(* the stage of an rpc.  storedVote is what the member has on disk.        *)
(*                                                                         *)
(* votesCast and elected are history: every real vote granted, and every   *)
(* election won.  Every member is a voter of one fixed configuration.      *)
(***************************************************************************)
EXTENDS Integers, FiniteSets

CONSTANTS
    Voters,         \* the voting members of the configuration
    Electable,      \* the members of non-zero priority
    Interruptible,  \* the members whose applier asks to leave SECONDARY
    None,           \* the candidate of a vote not cast
    MaxTerm,        \* the bound on terms: nobody stands for a later one
    MaxRpcs         \* the bound on the commands under way at a dry run's start

ASSUME ElectionAssumption ==
    /\ IsFiniteSet(Voters) /\ Cardinality(Voters) > 1
    /\ Electable \subseteq Voters
    /\ None \notin Voters
    /\ MaxTerm \in Nat /\ MaxRpcs \in Nat

VARIABLES
    term,             \* TopologyCoordinatorImpl::_term (and _cachedTerm)
    role,             \* TopologyCoordinatorImpl::_role
    followerMode,     \* _followerMode: SECONDARY or another follower state
    modeChange,       \* a setFollowerMode call waits for the election to end
    stepDownPending,  \* TopologyCoordinatorImpl::_stepDownPending
    finishing,        \* _stepDownFinish waits for the global exclusive lock
    lastVote,         \* TopologyCoordinatorImpl::_lastVote
    storedVote,       \* the document of local.replset.election
    requester,        \* _voteRequester and the completion it was given
    rpcs,             \* the replSetRequestVotes commands under way
    votesCast,        \* history: <<voter, term, candidate>>
    elected           \* history: <<term, member>>

topology == <<term, role, followerMode, modeChange, stepDownPending, finishing>>
history == <<votesCast, elected>>
vars == <<topology, lastVote, storedVote, requester, rpcs, history>>

Terms == 0..MaxTerm
Roles == {"follower", "candidate", "leader"}
Vote == [term : Terms \cup {-1}, cand : Voters \cup {None}]
NoVote == [term |-> -1, cand |-> None]

\* The phases of an election, by the callback that comes next.
Phases == {"none", "dryRun", "storing", "starting", "voting"}

(***************************************************************************)
(* goal is the term the completion callback was bound to; term is the term *)
(* written in the requests; votes counts this member's own (_votes is 1    *)
(* when the requester starts).                                             *)
(***************************************************************************)
Requester ==
    [phase : Phases, goal : Terms, term : Terms, votes : SUBSET Voters,
     responses : SUBSET Voters, stale : BOOLEAN]

NoRequester == [phase |-> "none", goal |-> 0, term |-> 0, votes |-> {},
                responses |-> {}, stale |-> FALSE]

(***************************************************************************)
(* The stages of a command: sent, the term learnt, a vote granted but not  *)
(* yet stored, answered.  live says that its requester still waits for it. *)
(***************************************************************************)
Stages == {"sent", "termed", "voted", "done"}

Rpc == [from : Voters, to : Voters, term : Terms, dryRun : BOOLEAN,
        live : BOOLEAN, stage : Stages, granted : BOOLEAN,
        respTerm : Terms \cup {-1}]

TypeOK ==
    /\ term \in [Voters -> Terms]
    /\ role \in [Voters -> Roles]
    /\ followerMode \in [Voters -> {"secondary", "recovering"}]
    /\ modeChange \in [Voters -> BOOLEAN]
    /\ stepDownPending \in [Voters -> BOOLEAN]
    /\ finishing \in [Voters -> BOOLEAN]
    /\ lastVote \in [Voters -> Vote]
    /\ storedVote \in [Voters -> Vote]
    /\ requester \in [Voters -> Requester]
    /\ rpcs \subseteq Rpc
    /\ votesCast \subseteq Voters \X Terms \X Voters
    /\ elected \subseteq Terms \X Voters

Init ==
    /\ term = [n \in Voters |-> 0]
    /\ role = [n \in Voters |-> "follower"]
    /\ followerMode = [n \in Voters |-> "secondary"]
    /\ modeChange = [n \in Voters |-> FALSE]
    /\ stepDownPending = [n \in Voters |-> FALSE]
    /\ finishing = [n \in Voters |-> FALSE]
    /\ lastVote = [n \in Voters |-> NoVote]
    /\ storedVote = [n \in Voters |-> NoVote]
    /\ requester = [n \in Voters |-> NoRequester]
    /\ rpcs = {}
    /\ votesCast = {}
    /\ elected = {}

-----------------------------------------------------------------------------
(***************************************************************************)
(* The term.                                                               *)
(***************************************************************************)

\* Mutant of UpdateTerm: the term after the one learnt is taken over.
UpdateTermPast(n, t) ==
    /\ term' = [term EXCEPT ![n] = IF t > @ THEN t + 1 ELSE @]
    /\ UNCHANGED <<stepDownPending, finishing>>

\* Mutant of UpdateTerm: a primary stays primary in the later term.
UpdateTermOnly(n, t) ==
    /\ term' = [term EXCEPT ![n] = IF t > @ THEN t ELSE @]
    /\ UNCHANGED <<stepDownPending, finishing>>

(***************************************************************************)
(* _updateTerm_incallback: a later term is taken over at once; a primary   *)
(* also prepares to step down, and _stepDownFinish is queued behind the    *)
(* global exclusive lock.  A second request while one is queued waits for  *)
(* the same callback.                                                      *)
(***************************************************************************)
UpdateTerm(n, t) ==
    LET updated == t > term[n]
        primary == updated /\ role[n] = "leader"
    IN  /\ term' = [term EXCEPT ![n] = IF updated THEN t ELSE @]
        /\ stepDownPending' = [stepDownPending EXCEPT ![n] = @ \/ primary]
        /\ finishing' = [finishing EXCEPT ![n] = @ \/ primary]

\* A heartbeat, its response, or the metadata of another command.
LearnTerm(n) ==
    /\ \E m \in Voters : \E t \in (term[n] + 1)..term[m] : UpdateTerm(n, t)
    /\ UNCHANGED <<role, followerMode, modeChange, lastVote, storedVote,
                   requester, rpcs, history>>

-----------------------------------------------------------------------------
(***************************************************************************)
(* The vote requester.                                                     *)
(***************************************************************************)

\* Mutant of MajorityVoteCount: half of the votes is enough.
HalfVoteCount == Cardinality(Voters) \div 2

MajorityVoteCount == Cardinality(Voters) \div 2 + 1

NewRequester(n, phase, goal, t) ==
    [phase |-> phase, goal |-> goal, term |-> t, votes |-> {n},
     responses |-> {}, stale |-> FALSE]

\* The commands sent to every other voter.
Requests(n, t, dryRun) ==
    [from : {n}, to : Voters \ {n}, term : {t}, dryRun : {dryRun},
     live : {TRUE}, stage : {"sent"}, granted : {FALSE}, respTerm : {-1}]

\* The answer of m counted; a failed command counts as a response only.
ProcessResponse(rq, m, ok, granted, respTerm) ==
    [rq EXCEPT !.responses = @ \cup {m},
               !.votes = IF ok /\ granted THEN @ \cup {m} ELSE @,
               !.stale = @ \/ (ok /\ respTerm > rq.term)]

\* Mutant of HasReceivedSufficientResponses: no check that all have answered.
OnlyDecisiveResponses(n, rq) ==
    rq.stale \/ Cardinality(rq.votes) = MajorityVoteCount

HasReceivedSufficientResponses(n, rq) ==
    \/ rq.stale
    \/ Cardinality(rq.votes) = MajorityVoteCount
    \/ rq.responses = Voters \ {n}

SuccessfullyElected(rq) ==
    ~rq.stale /\ Cardinality(rq.votes) >= MajorityVoteCount

\* What is left of R once nobody waits for the commands of n: those that
\* have not voted or not stored their vote yet run on at the voters.
Orphan(R, n) ==
    {r \in R : r.from # n}
        \cup {[r EXCEPT !.live = FALSE] :
                r \in {q \in R : q.from = n /\ q.stage # "done"}}

\* ~LoseElectionGuardV1: back to follower, the requester is gone.
LoseElection(n) ==
    /\ role' = [role EXCEPT ![n] = "follower"]
    /\ requester' = [requester EXCEPT ![n] = NoRequester]
    /\ UNCHANGED <<term, lastVote, history>>

(***************************************************************************)
(* _onDryRunComplete: unless the term moved on or the dry run failed, the  *)
(* next term begins here with this member's vote for itself, and the vote  *)
(* is handed to a database thread to be stored.                            *)
(***************************************************************************)
OnDryRunComplete(n, rq) ==
    IF term[n] # rq.goal \/ ~SuccessfullyElected(rq)
    THEN LoseElection(n)
    ELSE /\ term' = [term EXCEPT ![n] = rq.goal + 1]
         /\ lastVote' = [lastVote EXCEPT ![n] = [term |-> rq.goal + 1, cand |-> n]]
         /\ votesCast' = votesCast \cup {<<n, rq.goal + 1, n>>}
         /\ requester' = [requester EXCEPT ![n] =
                NewRequester(n, "storing", rq.goal + 1, rq.goal + 1)]
         /\ UNCHANGED <<role, elected>>

\* Mutant of OnVoteRequestComplete: the term is not compared with goal.
OnVoteRequestCompleteLate(n, rq) ==
    IF ~SuccessfullyElected(rq)
    THEN LoseElection(n)
    ELSE /\ role' = [role EXCEPT ![n] = "leader"]
         /\ elected' = elected \cup {<<rq.goal, n>>}
         /\ requester' = [requester EXCEPT ![n] = NoRequester]
         /\ UNCHANGED <<term, lastVote, votesCast>>

\* _onVoteRequestComplete, with the state change of kActionWinElection.
OnVoteRequestComplete(n, rq) ==
    IF term[n] # rq.goal \/ ~SuccessfullyElected(rq)
    THEN LoseElection(n)
    ELSE /\ role' = [role EXCEPT ![n] = "leader"]
         /\ elected' = elected \cup {<<rq.goal, n>>}
         /\ requester' = [requester EXCEPT ![n] = NoRequester]
         /\ UNCHANGED <<term, lastVote, votesCast>>

(***************************************************************************)
(* The requester of n goes on as rq with the commands R.  When rq has what *)
(* it needs, or is cancelled, ScatterGatherRunner cancels the commands     *)
(* still out and calls the completion within the same callback.            *)
(***************************************************************************)
Complete(n, rq, R) ==
    /\ rpcs' = Orphan(R, n)
    /\ IF rq.phase = "dryRun" THEN OnDryRunComplete(n, rq)
                              ELSE OnVoteRequestComplete(n, rq)

Proceed(n, rq, R) ==
    IF HasReceivedSufficientResponses(n, rq)
    THEN Complete(n, rq, R)
    ELSE /\ requester' = [requester EXCEPT ![n] = rq]
         /\ rpcs' = R
         /\ UNCHANGED <<term, role, lastVote, history>>

-----------------------------------------------------------------------------
(***************************************************************************)
(* Standing for election.                                                  *)
(***************************************************************************)

\* _startElectSelfIfEligibleV1, by the election timeout or a priority
\* takeover: a follower in SECONDARY becomes candidate and starts a dry run.
StartElectSelf(n) ==
    /\ n \in Electable
    /\ role[n] = "follower"
    /\ followerMode[n] = "secondary"
    /\ term[n] < MaxTerm
    /\ Cardinality(rpcs) <= MaxRpcs
    /\ role' = [role EXCEPT ![n] = "candidate"]
    /\ requester' = [requester EXCEPT ![n] =
                        NewRequester(n, "dryRun", term[n], term[n])]
    /\ rpcs' = rpcs \cup Requests(n, term[n], TRUE)
    /\ UNCHANGED <<term, followerMode, modeChange, stepDownPending, finishing,
                   lastVote, storedVote, history>>

\* _writeLastVoteForMyElection, on the database thread.
WriteLastVoteForMyElection(n) ==
    /\ requester[n].phase = "storing"
    /\ \/ /\ storedVote' = [storedVote EXCEPT ![n] =
                                [term |-> requester[n].goal, cand |-> n]]
          /\ requester' = [requester EXCEPT ![n].phase = "starting"]
          /\ UNCHANGED <<term, role, lastVote, history>>
       \/ /\ LoseElection(n)
          /\ UNCHANGED storedVote
    /\ UNCHANGED <<followerMode, modeChange, stepDownPending, finishing, rpcs>>

(***************************************************************************)
(* _startVoteRequester: the requests carry the term of now, the completion *)
(* the term this member voted for itself in.                               *)
(***************************************************************************)
StartVoteRequester(n) ==
    /\ requester[n].phase = "starting"
    /\ requester' = [requester EXCEPT ![n] =
                        NewRequester(n, "voting", requester[n].goal, term[n])]
    /\ rpcs' = rpcs \cup Requests(n, term[n], FALSE)
    /\ UNCHANGED <<topology, lastVote, storedVote, history>>

-----------------------------------------------------------------------------
(***************************************************************************)
(* The replSetRequestVotes command at the voter.                           *)
(***************************************************************************)

\* R with r replaced by s; an answer nobody waits for is forgotten.
Replace(R, r, s) ==
    (R \ {r}) \cup (IF s.live \/ s.stage # "done" THEN {s} ELSE {})

\* updateTerm(args.getTerm()).
ReceiveRequest(r) ==
    /\ r.stage = "sent"
    /\ UpdateTerm(r.to, r.term)
    /\ rpcs' = Replace(rpcs, r, [r EXCEPT !.stage = "termed"])
    /\ UNCHANGED <<role, followerMode, modeChange, lastVote, storedVote,
                   requester, history>>

\* Mutant of MayVote: the last vote is not looked at.
MayVoteAgain(r) == r.term >= term[r.to]

\* The refusals of processReplSetRequestVotes that depend on its own state.
MayVote(r) ==
    /\ r.term >= term[r.to]
    /\ r.dryRun \/ lastVote[r.to].term # r.term

(***************************************************************************)
(* Once a step-down under way has finished, the vote callback.  Whether    *)
(* the candidate's configuration version, set name and last optime satisfy *)
(* the voter is left open.                                                 *)
(***************************************************************************)
ProcessRequestVotes(r) ==
    /\ r.stage = "termed"
    /\ ~finishing[r.to]
    /\ \E acceptable \in BOOLEAN :
         LET granted == acceptable /\ MayVote(r)
             cast == granted /\ ~r.dryRun
         IN  /\ rpcs' = Replace(rpcs, r,
                    [r EXCEPT !.stage = IF granted THEN "voted" ELSE "done",
                              !.granted = granted, !.respTerm = term[r.to]])
             /\ lastVote' = IF cast THEN [lastVote EXCEPT ![r.to] =
                                            [term |-> r.term, cand |-> r.from]]
                                    ELSE lastVote
             /\ votesCast' = IF cast
                             THEN votesCast \cup {<<r.to, r.term, r.from>>}
                             ELSE votesCast
    /\ UNCHANGED <<topology, storedVote, requester, elected>>

\* storeLocalLastVoteDocument after any vote granted; when it fails the
\* command answers with an error, which carries neither a vote nor a term.
StoreVote(r) ==
    /\ r.stage = "voted"
    /\ \/ /\ storedVote' = [storedVote EXCEPT ![r.to] =
                                [term |-> r.term, cand |-> r.from]]
          /\ rpcs' = Replace(rpcs, r, [r EXCEPT !.stage = "done"])
       \/ /\ rpcs' = Replace(rpcs, r, [r EXCEPT !.stage = "done",
                                        !.granted = FALSE, !.respTerm = -1])
          /\ UNCHANGED storedVote
    /\ UNCHANGED <<topology, lastVote, requester, history>>

\* The answer reaches the requester.
ReceiveResponse(r) ==
    /\ r.live
    /\ r.stage = "done"
    /\ Proceed(r.from, ProcessResponse(requester[r.from], r.to, TRUE,
                                       r.granted, r.respTerm), rpcs \ {r})
    /\ UNCHANGED <<followerMode, modeChange, stepDownPending, finishing, storedVote>>

\* The command fails or exceeds the election timeout at the requester,
\* while the voter may still be at work on it.
ReceiveFailure(r) ==
    /\ r.live
    /\ Proceed(r.from, ProcessResponse(requester[r.from], r.to, FALSE, FALSE, -1),
               Replace(rpcs, r, [r EXCEPT !.live = FALSE]))
    /\ UNCHANGED <<followerMode, modeChange, stepDownPending, finishing, storedVote>>

\* A request nobody waits for never reaches the voter.
LoseRequest(r) ==
    /\ ~r.live
    /\ r.stage = "sent"
    /\ rpcs' = rpcs \ {r}
    /\ UNCHANGED <<topology, lastVote, storedVote, requester, history>>

-----------------------------------------------------------------------------
(***************************************************************************)
(* Stepping down, and leaving SECONDARY.                                   *)
(***************************************************************************)

\* Mutant of StepDownSelf: the step-down stays pending.
StepDownKeepsPending(n) ==
    /\ role' = [role EXCEPT ![n] = "follower"]
    /\ UNCHANGED stepDownPending

\* _stepDownSelfAndReplaceWith
StepDownSelf(n) ==
    /\ role' = [role EXCEPT ![n] = "follower"]
    /\ stepDownPending' = [stepDownPending EXCEPT ![n] = FALSE]

\* Mutant of RelinquishPrimary: _stepDownFinish is not queued.
RelinquishUnscheduled(n) ==
    /\ role[n] = "leader"
    /\ ~stepDownPending[n]
    /\ stepDownPending' = [stepDownPending EXCEPT ![n] = TRUE]
    /\ UNCHANGED <<term, role, followerMode, modeChange, finishing, lastVote,
                   storedVote, requester, rpcs, history>>

\* A primary that sees no majority prepares to step down (StepDownSelf).
RelinquishPrimary(n) ==
    /\ role[n] = "leader"
    /\ ~stepDownPending[n]
    /\ stepDownPending' = [stepDownPending EXCEPT ![n] = TRUE]
    /\ finishing' = [finishing EXCEPT ![n] = TRUE]
    /\ UNCHANGED <<term, role, followerMode, modeChange, lastVote, storedVote,
                   requester, rpcs, history>>

\* _stepDownFinish, under the global exclusive lock.
StepDownFinish(n) ==
    /\ finishing[n]
    /\ finishing' = [finishing EXCEPT ![n] = FALSE]
    /\ IF stepDownPending[n] THEN StepDownSelf(n)
                             ELSE UNCHANGED <<role, stepDownPending>>
    /\ UNCHANGED <<term, followerMode, modeChange, lastVote, storedVote,
                   requester, rpcs, history>>

\* The replSetStepDown command: _stepDownContinue once a secondary has
\* caught up, or by force.
StepDown(n) ==
    /\ role[n] = "leader"
    /\ StepDownSelf(n)
    /\ UNCHANGED <<term, followerMode, modeChange, finishing, lastVote,
                   storedVote, requester, rpcs, history>>

(***************************************************************************)
(* _setFollowerModeFinish for a state other than SECONDARY.  A primary     *)
(* refuses; a candidate cancels its requester, which completes within this *)
(* callback unless its responses are in already, and the call is repeated  *)
(* once the election has finished.                                         *)
(***************************************************************************)
SetFollowerMode(n) ==
    /\ followerMode[n] = "secondary"
    /\ \/ modeChange[n] /\ requester[n].phase = "none"
       \/ ~modeChange[n] /\ n \in Interruptible /\ role[n] # "leader"
    /\ modeChange' = [modeChange EXCEPT ![n] = role[n] = "candidate"]
    /\ followerMode' = [followerMode EXCEPT ![n] =
                           IF role[n] = "follower" THEN "recovering" ELSE @]
    /\ IF requester[n].phase \in {"dryRun", "voting"}
       THEN Complete(n, requester[n], rpcs)
       ELSE UNCHANGED <<term, role, lastVote, requester, rpcs, history>>
    /\ UNCHANGED <<stepDownPending, finishing, storedVote>>

\* setFollowerMode(RS_SECONDARY) once the applier has caught up.
BecomeSecondary(n) ==
    /\ followerMode[n] = "recovering"
    /\ role[n] = "follower"
    /\ followerMode' = [followerMode EXCEPT ![n] = "secondary"]
    /\ UNCHANGED <<term, role, modeChange, stepDownPending, finishing,
                   lastVote, storedVote, requester, rpcs, history>>

-----------------------------------------------------------------------------
MemberStep(n) ==
    \/ LearnTerm(n)
    \/ StartElectSelf(n)
    \/ WriteLastVoteForMyElection(n)
    \/ StartVoteRequester(n)
    \/ RelinquishPrimary(n)
    \/ StepDownFinish(n)
    \/ StepDown(n)
    \/ SetFollowerMode(n)
    \/ BecomeSecondary(n)

RpcStep(r) ==
    \/ ReceiveRequest(r)
    \/ ProcessRequestVotes(r)
    \/ StoreVote(r)
    \/ ReceiveResponse(r)
    \/ ReceiveFailure(r)
    \/ LoseRequest(r)

Next ==
    \/ \E n \in Voters : MemberStep(n)
    \/ \E r \in rpcs : RpcStep(r)

Spec == Init /\ [][Next]_vars

(***************************************************************************)
(* The database thread and the executor run what is queued, a command      *)
(* times out after the election timeout (RemoteCommandRequest's timeout),  *)
(* and the global exclusive lock is granted in the end.                    *)
(***************************************************************************)
Fairness ==
    \A n \in Voters :
        /\ WF_vars(WriteLastVoteForMyElection(n))
        /\ WF_vars(StartVoteRequester(n))
        /\ WF_vars(StepDownFinish(n))
        /\ WF_vars(\E r \in rpcs : r.from = n /\ ReceiveFailure(r))

FairSpec == Spec /\ Fairness

-----------------------------------------------------------------------------
(***************************************************************************)
(* Properties.                                                             *)
(***************************************************************************)

\* No member grants two candidates its real vote in one term, its own vote
\* for itself included (processReplSetRequestVotes, voteForMyselfV1).
VotesOncePerTerm ==
    \A v, w \in votesCast : v[1] = w[1] /\ v[2] = w[2] => v = w

\* At most one member ever wins the election of a term.
OnePrimaryPerTerm ==
    \A e, f \in elected : e[1] = f[1] => e = f

\* A primary that is not about to step down leads the term it was elected
\* in: no later term has reached it unnoticed.
PrimaryLeadsItsTerm ==
    \A n \in Voters :
        role[n] = "leader" /\ ~stepDownPending[n] => <<term[n], n>> \in elected

(***************************************************************************)
(* The votes, requests and stored votes are how members come to the        *)
(* promise of Leadership.                                                  *)
(***************************************************************************)
Standing(n) ==
    /\ requester[n].phase \in {"storing", "starting", "voting"}
    /\ requester[n].goal = term[n]

Promise == INSTANCE Leadership WITH
    standing <- [n \in Voters |-> Standing(n)],
    leader <- [n \in Voters |-> role[n] = "leader"]

\* Every step of an election is a step of Leadership, or leaves it alone: no
\* term is won twice, no member goes back to an earlier term, no primary
\* keeps its role across a term change without a step-down under way.
ImplementsLeadership == Promise!LeadershipSpec

\* What the code asserts: _voteRequester exists exactly while this member is
\* candidate (_startElectSelfV1, _onDryRunComplete, _setFollowerModeFinish),
\* a pending step-down finds a primary (_stepDownSelfAndReplaceWith), and
\* only a follower leaves SECONDARY (setFollowerMode).
RoleInvariants ==
    \A n \in Voters :
        /\ role[n] = "candidate" <=> requester[n].phase # "none"
        /\ stepDownPending[n] => role[n] = "leader" /\ finishing[n]
        /\ followerMode[n] # "secondary" => role[n] = "follower"

\* Every election ends, whatever the voters answer.
ElectionEnds ==
    \A n \in Voters : role[n] = "candidate" ~> role[n] # "candidate"

\* A primary that a later term has reached steps down.
StepDownEnds ==
    \A n \in Voters : stepDownPending[n] ~> ~stepDownPending[n]

=============================================================================
