---------------------------- MODULE Replication ----------------------------
(***************************************************************************)
(* How operations travel through a replica set and when they count as      *)
(* committed: the oplogs, the progress members report, the commit point,   *)
(* rollback, and the snapshots majority reads are served from.             *)
(*                                                                         *)
(* An oplog is a sequence of entries <<term, hash>>; the hash is the       *)
(* member that wrote the entry, the timestamp its position.  An optime is  *)
(* <<term, timestamp>>.  Fetching and applying an operation is one step    *)
(* here (OplogApplication looks inside it), and so is an election but for  *)
(* its votes (Election looks inside that).                                 *)
(*                                                                         *)
(* anomalies is history: three things the code does that the usual        *)
(* argument for the safety of committed operations does not allow for.     *)
(*   lateWrite    a primary that has learned of a later term, and has yet  *)
(*                to step down, logs an operation in that term;            *)
(*   staleReport  progress of a member that is in a later term already is  *)
(*                counted: the reports have no term attached;              *)
(*   staleSource  a member rolls back for a source that is ahead in time   *)
(*                but whose last operation is of an earlier term.          *)
(***************************************************************************)
EXTENDS Integers, Sequences, FiniteSets, FiniteSetsExt

CONSTANTS
    Voters,        \* the voting members of the configuration
    Electable,     \* the members of non-zero priority
    Opens,         \* the bound on elections: the terms each of those may open
    Snapshotters,  \* the members started with --enableMajorityReadConcern
    MaxSnapshots,  \* the bound on the snapshots waiting for the commit point
    MaxOps         \* the bound on the length of an oplog

ASSUME ReplicationAssumption ==
    /\ IsFiniteSet(Voters) /\ Voters # {}
    /\ Electable \subseteq Voters /\ Snapshotters \subseteq Voters
    /\ Opens \in [Electable -> SUBSET (Nat \ {0})] /\ MaxOps \in Nat \ {0}
    /\ \E b \in {0} \cup UNION {Opens[n] : n \in Electable} :
          \A n \in Electable : \A t \in Opens[n] : t <= b

VARIABLES
    term,       \* the term each member is in
    role,       \* follower, candidate, or primary: draining, then writing
    leaving,    \* a primary waits for the global lock to step down
    voted,      \* the term of each member's last vote
    ballot,     \* a candidate's optime when it asked for votes, and its votes
    elected,    \* history: <<term, member>> for each election won
    oplog,      \* each member's oplog
    minValid,   \* the optime from which a rolled back member is consistent
    slaveInfo,  \* slaveInfo[n][m]: the optime primary n has heard of member m
    committed,  \* _lastCommittedOpTime
    firstOp,    \* _firstOpTimeOfMyTerm
    preparing,  \* the operation at which the snapshot thread took a view
    uncommittedSnapshots,  \* the timestamps of snapshots not yet committed
    committedSnapshot,     \* the timestamp of the committed snapshot, or 0
    commits,    \* history: <<term won, optime>> committed by its primary
    anomalies   \* history, see above

electionVars == <<term, role, leaving, voted, ballot, elected>>
snapshotVars == <<preparing, uncommittedSnapshots, committedSnapshot>>
commitVars == <<slaveInfo, committed, firstOp, commits>>
vars == <<electionVars, oplog, minValid, commitVars, snapshotVars, anomalies>>

Roles == {"follower", "candidate", "draining", "writing"}
MaxTerm == Max({0} \cup UNION {Opens[n] : n \in Electable})
Null == <<0, 0>>
Infinity == <<MaxTerm + 1, 0>>
OpTimes == (0..MaxTerm) \X (0..MaxOps)
Oplogs == {s \in Seq((0..MaxTerm) \X Voters) : Len(s) <= MaxOps}

TypeOK ==
    /\ term \in [Voters -> 0..MaxTerm]
    /\ role \in [Voters -> Roles]
    /\ leaving \in [Voters -> BOOLEAN]
    /\ voted \in [Voters -> 0..MaxTerm]
    /\ ballot \in [Voters -> [opTime : OpTimes, votes : SUBSET Voters]]
    /\ elected \subseteq (0..MaxTerm) \X Voters
    /\ oplog \in [Voters -> Oplogs]
    /\ minValid \in [Voters -> OpTimes]
    /\ slaveInfo \in [Electable -> [Voters -> OpTimes]]
    /\ committed \in [Voters -> OpTimes]
    /\ firstOp \in [Electable -> OpTimes \cup {Infinity}]
    /\ preparing \in [Snapshotters -> 0..MaxOps]
    /\ uncommittedSnapshots \in [Snapshotters -> SUBSET (1..MaxOps)]
    /\ committedSnapshot \in [Snapshotters -> 0..MaxOps]
    /\ commits \subseteq (0..MaxTerm) \X OpTimes
    /\ anomalies \subseteq {"lateWrite", "staleReport", "staleSource"}

-----------------------------------------------------------------------------
\* OpTime::operator<, for operations of protocol version 1.
Less(a, b) == a[1] < b[1] \/ (a[1] = b[1] /\ a[2] < b[2])

OpTimeAt(log, i) == <<log[i][1], i>>
LastOpTime(log) == OpTimeAt(log, Len(log))

HasOp(n, o) == o[2] <= Len(oplog[n]) /\ OpTimeAt(oplog[n], o[2]) = o

IsPrimary(n) == role[n] \in {"draining", "writing"}
Readable(n) == IsPrimary(n) \/ ~Less(LastOpTime(oplog[n]), minValid[n])
WonTerm(n) == Max({e[1] : e \in {x \in elected : x[2] = n}})

MajorityVoteCount == Cardinality(Voters) \div 2 + 1
EmptyBallot == [opTime |-> Null, votes |-> {}]

\* The latest optime that a majority of the members has reached.
MajorityOpTime(info) ==
    LET reached == {o \in {info[m] : m \in Voters} :
                      Cardinality({m \in Voters : ~Less(info[m], o)}) >= MajorityVoteCount}
    IN  CHOOSE o \in reached : \A p \in reached : ~Less(o, p)

-----------------------------------------------------------------------------
\* A set at rest: all members have one operation, long since committed.
Init ==
    /\ term = [n \in Voters |-> 0]
    /\ role = [n \in Voters |-> "follower"]
    /\ leaving = [n \in Voters |-> FALSE]
    /\ voted = [n \in Voters |-> 0]
    /\ ballot = [n \in Voters |-> EmptyBallot]
    /\ elected = {}
    /\ oplog = [n \in Voters |-> << <<0, CHOOSE m \in Voters : TRUE>> >>]
    /\ minValid = [n \in Voters |-> Null]
    /\ slaveInfo = [n \in Electable |-> [m \in Voters |-> <<0, 1>>]]
    /\ committed = [n \in Voters |-> <<0, 1>>]
    /\ firstOp = [n \in Electable |-> Null]
    /\ preparing = [n \in Snapshotters |-> 0]
    /\ uncommittedSnapshots = [n \in Snapshotters |-> {}]
    /\ committedSnapshot = [n \in Snapshotters |-> 1]
    /\ commits = {<<0, <<0, 1>>>>}
    /\ anomalies = {}

-----------------------------------------------------------------------------
(***************************************************************************)
(* The commit point.  n, as a primary, commits what a majority has reached *)
(* by its slaveInfo and its own log, but nothing before first; a commit    *)
(* point heard from another member is taken over on the same condition.    *)
(* The latest snapshot the commit point has reached becomes the committed  *)
(* one.                                                                    *)
(***************************************************************************)
SetLastCommittedOpTime(n, log, first, heard) ==
    LET own == IF IsPrimary(n)
               THEN {MajorityOpTime([slaveInfo'[n] EXCEPT ![n] = LastOpTime(log)])} ELSE {}
        accepted == {o \in own \cup heard :
                        Less(committed[n], o) /\ ~(IsPrimary(n) /\ Less(o, first))}
        new == CHOOSE o \in accepted \cup {committed[n]} :
                   \A p \in accepted : ~Less(o, p)
    IN  /\ committed' = [committed EXCEPT ![n] = new]
        /\ commits' = commits \cup {<<WonTerm(n), o>> : o \in own \cap accepted}
        /\ IF n \in Snapshotters
           THEN LET ready == {i \in uncommittedSnapshots[n] : ~Less(new, OpTimeAt(oplog[n], i))}
                IN  /\ uncommittedSnapshots' = [uncommittedSnapshots EXCEPT ![n] = @ \ ready]
                    /\ committedSnapshot' =
                         [committedSnapshot EXCEPT ![n] = IF ready = {} THEN @ ELSE Max(ready)]
           ELSE UNCHANGED <<uncommittedSnapshots, committedSnapshot>>

\* Mutant of UpdateTerm: a primary stays.
UpdateTermOnly(n, t) ==
    IF t <= term[n]
    THEN UNCHANGED <<term, role, leaving, ballot>>
    ELSE /\ term' = [term EXCEPT ![n] = t]
         /\ role' = [role EXCEPT ![n] = IF IsPrimary(n) THEN @ ELSE "follower"]
         /\ ballot' = [ballot EXCEPT ![n] = EmptyBallot]
         /\ UNCHANGED leaving

\* n hears of term t: a primary prepares to step down, a candidate gives up.
UpdateTerm(n, t) ==
    IF t <= term[n]
    THEN UNCHANGED <<term, role, leaving, ballot>>
    ELSE /\ term' = [term EXCEPT ![n] = t]
         /\ leaving' = [leaving EXCEPT ![n] = IsPrimary(n)]
         /\ role' = [role EXCEPT ![n] = IF IsPrimary(n) THEN @ ELSE "follower"]
         /\ ballot' = [ballot EXCEPT ![n] = EmptyBallot]

-----------------------------------------------------------------------------
\* A member in SECONDARY state opens the next term and votes for itself.
OpenTerm(n) ==
    /\ n \in Electable
    /\ role[n] = "follower"
    /\ Readable(n)
    /\ term[n] + 1 \in Opens[n]
    /\ term' = [term EXCEPT ![n] = @ + 1]
    /\ role' = [role EXCEPT ![n] = "candidate"]
    /\ voted' = [voted EXCEPT ![n] = term[n] + 1]
    /\ ballot' = [ballot EXCEPT ![n] = [opTime |-> LastOpTime(oplog[n]), votes |-> {n}]]
    /\ UNCHANGED <<leaving, elected, oplog, minValid, commitVars, snapshotVars, anomalies>>

\* Mutant of Fresh: the candidate's data is not looked at.
AlwaysFresh(opTime, v) == TRUE

\* The candidate's data is not staler than the voter's.
Fresh(opTime, v) == ~Less(opTime, LastOpTime(oplog[v]))

\* v answers the request of candidate n for its vote.
Vote(v, n) ==
    /\ v # n
    /\ role[n] = "candidate"
    /\ term[v] <= term[n]
    /\ v \notin ballot[n].votes
    /\ LET granted == Fresh(ballot[n].opTime, v) /\ voted[v] # term[n]
           asked == IF granted THEN [ballot EXCEPT ![n].votes = @ \cup {v}] ELSE ballot
       IN  /\ IF term[v] < term[n]
              THEN /\ term' = [term EXCEPT ![v] = term[n]]
                   /\ leaving' = [leaving EXCEPT ![v] = IsPrimary(v)]
                   /\ role' = [role EXCEPT ![v] = IF IsPrimary(v) THEN @ ELSE "follower"]
                   /\ ballot' = [asked EXCEPT ![v] = EmptyBallot]
              ELSE /\ granted
                   /\ UNCHANGED <<term, leaving, role>>
                   /\ ballot' = asked
           /\ voted' = IF granted THEN [voted EXCEPT ![v] = term[n]] ELSE voted
    /\ UNCHANGED <<elected, oplog, minValid, commitVars, snapshotVars, anomalies>>

\* Mutant of Win: the floor for the commit point is not raised.
WinWithOldFloor(n) ==
    /\ role[n] = "candidate"
    /\ Cardinality(ballot[n].votes) >= MajorityVoteCount
    /\ role' = [role EXCEPT ![n] = "draining"]
    /\ ballot' = [ballot EXCEPT ![n] = EmptyBallot]
    /\ elected' = elected \cup {<<term[n], n>>}
    /\ UNCHANGED <<term, leaving, voted, oplog, minValid, commitVars, snapshotVars, anomalies>>

\* The votes make n primary: it waits for its applier to drain, and commits
\* nothing until then.
Win(n) ==
    /\ role[n] = "candidate"
    /\ Cardinality(ballot[n].votes) >= MajorityVoteCount
    /\ role' = [role EXCEPT ![n] = "draining"]
    /\ ballot' = [ballot EXCEPT ![n] = EmptyBallot]
    /\ elected' = elected \cup {<<term[n], n>>}
    /\ firstOp' = [firstOp EXCEPT ![n] = Infinity]
    /\ UNCHANGED <<term, leaving, voted, oplog, minValid, slaveInfo, committed, commits, snapshotVars, anomalies>>

\* The votes are not enough, or the election is cancelled.
Lose(n) ==
    /\ role[n] = "candidate"
    /\ role' = [role EXCEPT ![n] = "follower"]
    /\ ballot' = [ballot EXCEPT ![n] = EmptyBallot]
    /\ UNCHANGED <<term, leaving, voted, elected, oplog, minValid, commitVars, snapshotVars, anomalies>>

\* A primary has the global lock, for a later term, by command, or because it
\* sees no majority.
StepDown(n) ==
    /\ IsPrimary(n)
    /\ role' = [role EXCEPT ![n] = "follower"]
    /\ leaving' = [leaving EXCEPT ![n] = FALSE]
    /\ UNCHANGED <<term, voted, ballot, elected, oplog, minValid, commitVars, snapshotVars, anomalies>>

-----------------------------------------------------------------------------
\* An operation is logged in the member's current term.
LogOp(n) ==
    /\ Len(oplog[n]) < MaxOps
    /\ oplog' = [oplog EXCEPT ![n] = Append(@, <<term[n], n>>)]
    /\ anomalies' = IF term[n] # WonTerm(n) THEN anomalies \cup {"lateWrite"} ELSE anomalies
    /\ UNCHANGED <<slaveInfo, minValid, preparing>>

\* The applier has drained: the first operation of the term is logged.
SignalDrainComplete(n) ==
    /\ role[n] = "draining"
    /\ role' = [role EXCEPT ![n] = "writing"]
    /\ LogOp(n)
    /\ firstOp' = [firstOp EXCEPT ![n] = LastOpTime(oplog'[n])]
    /\ SetLastCommittedOpTime(n, oplog'[n], LastOpTime(oplog'[n]), {})
    /\ UNCHANGED <<term, leaving, voted, ballot, elected>>

\* A client's write.
Write(n) ==
    /\ role[n] = "writing"
    /\ LogOp(n)
    /\ SetLastCommittedOpTime(n, oplog'[n], firstOp[n], {})
    /\ UNCHANGED <<electionVars, firstOp>>

\* Primary n counts the progress of m, which may be in a later term than n
\* leads.  (Progress heard of before an election lies below the floor that
\* winning it sets for the commit point.)
CountProgress(n, m) ==
    /\ slaveInfo' = [slaveInfo EXCEPT ![n][m] = LastOpTime(oplog[m])]
    /\ anomalies' = IF term[m] > WonTerm(n)
                    THEN anomalies \cup {"staleReport"} ELSE anomalies

Progressed(n, m) ==
    IsPrimary(n) /\ ~IsPrimary(m) /\ Less(slaveInfo[n][m], LastOpTime(oplog[m]))

\* n handles a heartbeat response of m, when it brings news: its commit point,
\* its term, and, of a member that is not primary, its optime.
Heartbeat(n, m) ==
    /\ term[n] < term[m] \/ Less(committed[n], committed[m]) \/ Progressed(n, m)
    /\ UpdateTerm(n, term[m])
    /\ IF Progressed(n, m) THEN CountProgress(n, m)
       ELSE UNCHANGED <<slaveInfo, anomalies>>
    /\ SetLastCommittedOpTime(n, oplog[n], firstOp[n], {committed[m]})
    /\ UNCHANGED <<voted, elected, oplog, minValid, firstOp, preparing>>

\* The progress of m reaches n, along the chain of sync sources in one step.
UpdatePosition(n, m) ==
    /\ Progressed(n, m)
    /\ CountProgress(n, m)
    /\ SetLastCommittedOpTime(n, oplog[n], firstOp[n], {})
    /\ UNCHANGED <<electionVars, oplog, minValid, firstOp, preparing>>

\* m can be the sync source of n: readable, and ahead in time.
SyncSource(n, m) ==
    /\ ~IsPrimary(n)
    /\ Readable(m)
    /\ Len(oplog[m]) > Len(oplog[n])

\* Mutant of OplogStartFound: what the source has at n's last optime is not
\* looked at.
OplogStartAssumed(n, m) == TRUE

\* checkRemoteOplogStart: the source has n's last operation.
OplogStartFound(n, m) ==
    LET last == Len(oplog[n]) IN oplog[m][last] = oplog[n][last]

\* n fetches the next operation from m, takes notice of the commit point and
\* the term that come with it, and applies it.
Fetch(n, m) ==
    /\ SyncSource(n, m)
    /\ OplogStartFound(n, m)
    /\ UpdateTerm(n, term[m])
    /\ SetLastCommittedOpTime(n, oplog[n], Null, {committed[m]})
    /\ oplog' = [oplog EXCEPT ![n] = Append(@, oplog[m][Len(@) + 1])]
    /\ UNCHANGED <<voted, elected, minValid, slaveInfo, firstOp, preparing, anomalies>>

\* The last operation n has in common with m, by timestamp and hash.
CommonPoint(n, m) == Max({i \in 1..Len(oplog[n]) : oplog[m][i] = oplog[n][i]})

\* Mutant of FixUp: minValid is put past the last operation of m.
FixUpPastEnd(n, m) ==
    /\ oplog' = [oplog EXCEPT ![n] = SubSeq(@, 1, CommonPoint(n, m))]
    /\ minValid' = [minValid EXCEPT ![n] = <<LastOpTime(oplog[m])[1], Len(oplog[m]) + 1>>]
    /\ anomalies' = IF Less(LastOpTime(oplog[m]), LastOpTime(oplog[n]))
                    THEN anomalies \cup {"staleSource"} ELSE anomalies

\* What n has after the common point is undone, refetched from m and cut off.
FixUp(n, m) ==
    /\ oplog' = [oplog EXCEPT ![n] = SubSeq(@, 1, CommonPoint(n, m))]
    /\ minValid' = [minValid EXCEPT ![n] = LastOpTime(oplog[m])]
    /\ anomalies' = IF Less(LastOpTime(oplog[m]), LastOpTime(oplog[n]))
                    THEN anomalies \cup {"staleSource"} ELSE anomalies

\* A member that is to enter ROLLBACK state drops its snapshots, when the
\* snapshot thread has released the global lock.
DropAllSnapshots(n) ==
    /\ preparing[n] = 0
    /\ uncommittedSnapshots' = [uncommittedSnapshots EXCEPT ![n] = {}]
    /\ committedSnapshot' = [committedSnapshot EXCEPT ![n] = 0]

\* A consistent n rolls back for m; a candidate gives up its election for it.
Rollback(n, m) ==
    /\ SyncSource(n, m)
    /\ ~OplogStartFound(n, m)
    /\ Readable(n)
    /\ FixUp(n, m)
    /\ role' = [role EXCEPT ![n] = "follower"]
    /\ ballot' = [ballot EXCEPT ![n] = EmptyBallot]
    /\ IF n \in Snapshotters THEN DropAllSnapshots(n)
       ELSE UNCHANGED <<uncommittedSnapshots, committedSnapshot>>
    /\ UNCHANGED <<term, leaving, voted, elected, commitVars, preparing>>

-----------------------------------------------------------------------------
\* The snapshot thread takes a view of the data, under the global lock that
\* a rollback waits for.  One that is forced may be of the same operation as the
\* one before, which it takes the place of.
PrepareSnapshot(n) ==
    /\ Readable(n)
    /\ preparing[n] = 0
    /\ Cardinality(uncommittedSnapshots[n]) < MaxSnapshots
    /\ preparing' = [preparing EXCEPT ![n] = Len(oplog[n])]
    /\ UNCHANGED <<electionVars, oplog, minValid, commitVars, uncommittedSnapshots, committedSnapshot, anomalies>>

\* Mutant of OnSnapshotCreate: a snapshot always starts uncommitted.
OnSnapshotQueue(n) ==
    /\ preparing[n] # 0
    /\ preparing' = [preparing EXCEPT ![n] = 0]
    /\ uncommittedSnapshots' = [uncommittedSnapshots EXCEPT ![n] = @ \cup {preparing[n]}]
    /\ UNCHANGED <<electionVars, oplog, minValid, commitVars, committedSnapshot, anomalies>>

\* The view is a snapshot: committed at once, or when the commit point is there.
OnSnapshotCreate(n) ==
    /\ preparing[n] # 0
    /\ preparing' = [preparing EXCEPT ![n] = 0]
    /\ IF Less(committed[n], OpTimeAt(oplog[n], preparing[n]))
       THEN /\ uncommittedSnapshots' = [uncommittedSnapshots EXCEPT ![n] = @ \cup {preparing[n]}]
            /\ UNCHANGED committedSnapshot
       ELSE /\ committedSnapshot' = [committedSnapshot EXCEPT ![n] = preparing[n]]
            /\ UNCHANGED uncommittedSnapshots
    /\ UNCHANGED <<electionVars, oplog, minValid, commitVars, anomalies>>

Next ==
    \/ \E n \in Voters :
         OpenTerm(n) \/ Win(n) \/ Lose(n) \/ StepDown(n) \/ SignalDrainComplete(n) \/ Write(n)
    \/ \E n, m \in Voters :
         Vote(n, m) \/ Heartbeat(n, m) \/ UpdatePosition(n, m) \/ Fetch(n, m) \/ Rollback(n, m)
    \/ \E n \in Snapshotters : PrepareSnapshot(n) \/ OnSnapshotCreate(n)

Spec == Init /\ [][Next]_vars

-----------------------------------------------------------------------------
\* Two oplogs that share an operation share all that comes before it
\* (checkRemoteOplogStart, syncRollBackLocalOperations), also after a rollback
\* for a source that is on an old branch.
OplogsAgree ==
    \A n, m \in Voters : \A i \in 1..Len(oplog[n]) :
        i <= Len(oplog[m]) /\ oplog[n][i] = oplog[m][i] =>
            SubSeq(oplog[n], 1, i) = SubSeq(oplog[m], 1, i)

\* An operation that the primary of a term has committed is in the oplog of
\* every primary elected later, as long as no anomaly has happened.
CommittedSurvives ==
    anomalies = {} =>
        \A c \in commits : \A n \in Voters :
            IsPrimary(n) /\ WonTerm(n) > c[1] => HasOp(n, c[2])

\* The assertions of the snapshot code hold: snapshots are created in order,
\* the committed one is not after the commit point and before all others.
SnapshotsInOrder ==
    \A n \in Snapshotters :
        /\ \A i \in uncommittedSnapshots[n] :
             /\ Less(committed[n], OpTimeAt(oplog[n], i))
             /\ i > committedSnapshot[n]
        /\ committedSnapshot[n] # 0 => ~Less(committed[n], OpTimeAt(oplog[n], committedSnapshot[n]))
        /\ preparing[n] # 0 =>
             \A i \in uncommittedSnapshots[n] \cup {committedSnapshot[n]} : i <= preparing[n]

\* A committed operation is in the oplogs of a majority for good: "such ops
\* will never be rolled back" (getLastCommittedOpTime).
CommittedNeverRolledBack ==
    \A c \in commits : Cardinality({n \in Voters : HasOp(n, c[2])}) >= MajorityVoteCount

\* A primary counts as committed no operation from before its election until
\* the operation it logs on taking office is (_setFirstOpTimeOfMyTerm).
OwnTermCommitted == \A c \in commits : c[2][1] >= c[1]

Leader == INSTANCE Leadership WITH
    standing <- [n \in Voters |-> role[n] = "candidate"],
    leader <- [n \in Voters |-> IsPrimary(n)],
    stepDownPending <- leaving,
    finishing <- leaving

\* These elections keep the promise that Leadership states.
ImplementsLeadership == Leader!LeadershipSpec
=============================================================================
