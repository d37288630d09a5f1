-------------------------- MODULE OplogApplication --------------------------
(***************************************************************************)
(* How one member applies the set's operations, and what it is after a     *)
(* crash.  Its producer (bgsync) fetches operations into a buffer; its     *)
(* applier (SyncTail) takes batches of them, marks each batch in minValid, *)
(* lets a pool of writers change the data while it writes the oplog, and   *)
(* clears the mark.  Winning an election puts the member into drain mode:  *)
(* the producer pauses, the applier empties the buffer and only then lets  *)
(* the member accept writes.  A restart cuts the oplog back to the start   *)
(* of an unfinished batch.                                                 *)
(*                                                                         *)
(* An operation is its timestamp.  Two operations of a batch change        *)
(* different documents; those that change the same one go to one writer,   *)
(* in order (fillWriterVectors).  A crash returns the storage to some      *)
(* commit since the last one waited for (survivors): commits are journaled *)
(* in order.  upstream is the oplog of the rest of the set, which follows  *)
(* this member while it is primary; a source that lacks one of this        *)
(* member's operations is the business of Replication.                     *)
(***************************************************************************)
EXTENDS Naturals, Sequences, FiniteSetsExt, SequencesExt

CONSTANTS
    MaxTs,       \* bound: the last timestamp
    MaxWins,     \* bound: elections this member wins
    MaxCrashes   \* bound: crashes of this member

ASSUME ApplyAssumption ==
    MaxTs \in Nat \ {0} /\ MaxWins \in Nat /\ MaxCrashes \in Nat

VARIABLES
    state,        \* its member state
    draining,     \* _isWaitingForDrainToComplete
    canWrite,     \* _canAcceptNonLocalWrites
    producer,     \* "paused", "starting" (past the check of _producerThread),
                  \* "fetching", "pushing" (past the check of _fetcherCallback)
    lastFetched,  \* _lastOpTimeFetched; Null while paused
    inHand,       \* the operation a pushing producer is about to push
    buffer,       \* bgsync's _buffer
    applier,      \* "idle", "popped", "applying", "applied", "signalling"
    ops,          \* the batch
    originalEnd,  \* minValid.end as oplogApplication found it
    lastApplied,  \* _myLastOptime
    clock,        \* globalTimestamp
    disk,         \* what the storage holds: oplog, data and minValid
    survivors,    \* what it may hold after a crash
    upstream,     \* the oplog of the rest of the set
    wins,         \* counts against MaxWins
    crashes,      \* counts against MaxCrashes
    anomalies     \* history: what happened that the comments do not foresee

applyVars == <<state, draining, canWrite, producer, lastFetched, inHand, buffer,
               applier, ops, originalEnd, lastApplied, clock, disk, survivors,
               upstream, wins, crashes, anomalies>>
memberVars == <<state, draining, canWrite, wins>>
producerVars == <<producer, lastFetched, inHand>>
applierVars == <<applier, ops>>
diskVars == <<disk, survivors>>
bookVars == <<crashes, anomalies>>

Null == 0
Timestamps == 1 .. MaxTs
Disks == [oplog : SUBSET Timestamps, data : SUBSET Timestamps,
          begin : Timestamps \cup {Null}, end : Timestamps]

\* A write unit of work commits: not durable until something waits for it.
Commit(new) ==
    /\ disk' = new
    /\ survivors' = survivors \cup {new}

\* waitUntilDurable after a commit.
CommitDurably(new) ==
    /\ disk' = new
    /\ survivors' = {new}

\* A member that is up to date and has just restarted.
ApplyInit ==
    /\ state = "recovering" /\ draining = FALSE /\ canWrite = FALSE
    /\ producer = "paused" /\ lastFetched = Null /\ inHand = Null /\ buffer = <<>>
    /\ applier = "idle" /\ ops = <<>>
    /\ disk = [oplog |-> {1}, data |-> {1}, begin |-> Null, end |-> 1]
    /\ survivors = {disk}
    /\ originalEnd = 1 /\ lastApplied = 1 /\ clock = 1
    /\ upstream = {1}
    /\ wins = 0 /\ crashes = 0 /\ anomalies = {}

-----------------------------------------------------------------------------
(* The producer. *)

\* Mutant of MustPause: only a primary pauses.
OnlyPrimaryPauses == state = "primary"

\* When _producerThread and _fetcherCallback leave the fetching.
MustPause == draining \/ state = "primary"

\* _producerThread: paused, and a follower that is not draining.
ProducerResumes ==
    /\ producer = "paused"
    /\ ~MustPause
    /\ producer' = "starting"
    /\ UNCHANGED <<memberVars, lastFetched, inHand, buffer, applierVars, originalEnd,
                   lastApplied, clock, diskVars, upstream, bookVars>>

\* start: from the last operation applied; it throws, and the thread begins
\* again, while the buffer is not empty.
StartProducer ==
    /\ producer = "starting"
    /\ IF buffer = <<>>
       THEN producer' = "fetching" /\ lastFetched' = lastApplied
       ELSE producer' = "paused" /\ UNCHANGED lastFetched
    /\ anomalies' = anomalies \cup (IF MustPause THEN {"lateResume"} ELSE {})
    /\ UNCHANGED <<memberVars, inHand, buffer, applierVars, originalEnd,
                   lastApplied, clock, diskVars, upstream, crashes>>

\* The operations the source answers with: the next of the set's oplog, which
\* is a new one when there is none.
NextUpstream ==
    LET ahead == {t \in upstream : t > lastFetched}
    IN  IF ahead # {} THEN {Min(ahead)} ELSE {t \in Timestamps : t > Max(upstream)}

\* _fetcherCallback has a document and finds that it need not pause.
FetcherCallback ==
    /\ producer = "fetching"
    /\ ~MustPause
    /\ \E t \in NextUpstream :
         /\ inHand' = t
         /\ upstream' = upstream \cup {t}
    /\ producer' = "pushing"
    /\ UNCHANGED <<memberVars, lastFetched, buffer, applierVars, originalEnd,
                   lastApplied, clock, diskVars, bookVars>>

\* It pushes it, whatever the member has become since.
PushToBuffer ==
    /\ producer = "pushing"
    /\ producer' = "fetching"
    /\ buffer' = Append(buffer, inHand)
    /\ lastFetched' = inHand
    /\ inHand' = Null
    /\ UNCHANGED <<memberVars, applierVars, originalEnd,
                   lastApplied, clock, diskVars, upstream, bookVars>>

\* Mutant of StopProducer: stop clears the buffer.
StopClearsBuffer ==
    /\ producer = "fetching"
    /\ MustPause
    /\ producer' = "paused"
    /\ lastFetched' = Null
    /\ buffer' = <<>>
    /\ UNCHANGED <<memberVars, inHand, applierVars, originalEnd,
                   lastApplied, clock, diskVars, upstream, bookVars>>

\* _producerThread pauses: stop keeps the buffer.
StopProducer ==
    /\ producer = "fetching"
    /\ MustPause
    /\ producer' = "paused"
    /\ lastFetched' = Null
    /\ UNCHANGED <<memberVars, inHand, buffer, applierVars, originalEnd,
                   lastApplied, clock, diskVars, upstream, bookVars>>

-----------------------------------------------------------------------------
(* The applier. *)

\* Mutant of GoLive: the end of the batch must have been passed.
GoLivePastEnd ==
    /\ applier = "idle"
    /\ state = "recovering"
    /\ disk.begin = Null
    /\ disk.end < lastApplied
    /\ state' = "secondary"
    /\ UNCHANGED <<draining, canWrite, wins, producerVars, buffer, applierVars, originalEnd,
                   lastApplied, clock, diskVars, upstream, bookVars>>

\* tryToGoLiveAsASecondary.
GoLive ==
    /\ applier = "idle"
    /\ state = "recovering"
    /\ disk.begin = Null
    /\ disk.end <= lastApplied
    /\ state' = "secondary"
    /\ UNCHANGED <<draining, canWrite, wins, producerVars, buffer, applierVars, originalEnd,
                   lastApplied, clock, diskVars, upstream, bookVars>>

\* tryPopAndWaitForMore, as often as the limits of a batch allow.
PopBatch ==
    /\ applier = "idle"
    /\ \E n \in 1 .. Len(buffer) :
         /\ ops' = SubSeq(buffer, 1, n)
         /\ buffer' = SubSeq(buffer, n + 1, Len(buffer))
    /\ applier' = "popped"
    /\ UNCHANGED <<memberVars, producerVars, originalEnd,
                   lastApplied, clock, diskVars, upstream, bookVars>>

BatchEnd(first) == Max({first, Last(ops)})

\* Mutant of MarkBatch: the end of the failed batch is forgotten.
MarkBatchOnly ==
    /\ applier = "popped"
    /\ applier' = "applying"
    /\ Commit([disk EXCEPT !.begin = clock, !.end = Last(ops)])
    /\ UNCHANGED <<memberVars, producerVars, buffer, ops, originalEnd,
                   lastApplied, clock, upstream, bookVars>>

(***************************************************************************)
(* oplogApplication marks the batch, from the last timestamp set to the    *)
(* larger of its end and the end found at the start, and enters multiApply.*)
(***************************************************************************)
MarkBatch ==
    /\ applier = "popped"
    /\ applier' = "applying"
    /\ Commit([disk EXCEPT !.begin = clock, !.end = BatchEnd(originalEnd)])
    /\ UNCHANGED <<memberVars, producerVars, buffer, ops, originalEnd,
                   lastApplied, clock, upstream, bookVars>>

\* One of the writers applies its operation.
ApplyOp(t) ==
    /\ applier = "applying"
    /\ t \notin disk.data
    /\ Commit([disk EXCEPT !.data = @ \cup {t}])
    /\ UNCHANGED <<memberVars, producerVars, buffer, applierVars, originalEnd,
                   lastApplied, clock, upstream, bookVars>>

\* writeOpsToOplog: the whole batch in one unit of work, beside the writers.
WriteOpsToOplog ==
    /\ applier = "applying"
    /\ ~ ToSet(ops) \subseteq disk.oplog
    /\ Commit([disk EXCEPT !.oplog = @ \cup ToSet(ops)])
    /\ UNCHANGED <<memberVars, producerVars, buffer, applierVars, originalEnd,
                   lastApplied, clock, upstream, bookVars>>

\* The writers are joined: the member's optime is published, readers return.
FinishMultiApply ==
    /\ applier = "applying"
    /\ ToSet(ops) \subseteq disk.oplog \cap disk.data
    /\ applier' = "applied"
    /\ lastApplied' = Last(ops)
    /\ clock' = Last(ops)
    /\ UNCHANGED <<memberVars, producerVars, buffer, ops, originalEnd,
                   diskVars, upstream, bookVars>>

\* Mutant of ClearMark: the other end is unset.
ClearEnd ==
    /\ applier = "applied"
    /\ CommitDurably([disk EXCEPT !.end = Null])
    /\ applier' = "idle"
    /\ ops' = <<>>
    /\ UNCHANGED <<memberVars, producerVars, buffer, originalEnd,
                   lastApplied, clock, upstream, bookVars>>

\* setMinValid(end, Strong) removes the mark and waits until that is durable.
ClearMark ==
    /\ applier = "applied"
    /\ CommitDurably([disk EXCEPT !.begin = Null, !.end = BatchEnd(originalEnd)])
    /\ applier' = "idle"
    /\ ops' = <<>>
    /\ UNCHANGED <<memberVars, producerVars, buffer, originalEnd,
                   lastApplied, clock, upstream, bookVars>>

-----------------------------------------------------------------------------
(* Elections and drain mode. *)

\* What this member holds, in its oplog or on the way there.
Held == disk.oplog \cup ToSet(buffer) \cup ToSet(ops) \cup ({inHand} \ {Null})

\* kActionWinElection takes a timestamp for the election and begins to drain.
WinElection ==
    /\ state = "secondary"
    /\ wins < MaxWins
    /\ \E t \in Timestamps : t > clock /\ clock' = t
    /\ state' = "primary"
    /\ draining' = TRUE
    /\ upstream' = {t \in upstream : t <= Max(Held)}
    /\ wins' = wins + 1
    /\ UNCHANGED <<canWrite, producerVars, buffer, applierVars, originalEnd,
                   lastApplied, diskVars, bookVars>>

\* A step-down needs the global exclusive lock, which multiApply keeps out.
\* It leaves the member draining, if it was.
StepDown ==
    /\ state = "primary"
    /\ applier # "applying"
    /\ state' = "secondary"
    /\ canWrite' = FALSE
    /\ UNCHANGED <<draining, wins, producerVars, buffer, applierVars, originalEnd,
                   lastApplied, clock, diskVars, upstream, bookVars>>

\* Mutant of StartSignalDrain: the producer's pause is not waited for.
SignalWithoutPause ==
    /\ applier = "idle"
    /\ draining
    /\ buffer = <<>>
    /\ applier' = "signalling"
    /\ UNCHANGED <<memberVars, producerVars, buffer, ops, originalEnd,
                   lastApplied, clock, diskVars, upstream, bookVars>>

\* tryPopAndWaitForMore finds nothing, waits until the producer has paused,
\* finds nothing again and calls signalDrainComplete.
StartSignalDrain ==
    /\ applier = "idle"
    /\ draining
    /\ producer \in {"paused", "starting"}
    /\ buffer = <<>>
    /\ applier' = "signalling"
    /\ UNCHANGED <<memberVars, producerVars, buffer, ops, originalEnd,
                   lastApplied, clock, diskVars, upstream, bookVars>>

\* _logOp: the next timestamp, the data and the oplog in one unit of work.
LogOp ==
    \E t \in Timestamps :
        /\ t > clock
        /\ clock' = t
        /\ lastApplied' = t
        /\ Commit([disk EXCEPT !.oplog = @ \cup {t}, !.data = @ \cup {t}])
        /\ upstream' = IF state = "primary" THEN upstream \cup {t} ELSE upstream

\* Mutant of SignalDrainComplete: nothing to do for a member that stepped down.
SignalIfPrimary ==
    /\ applier = "signalling"
    /\ applier' = "idle"
    /\ IF state = "primary"
       THEN /\ draining' = FALSE
            /\ canWrite' = TRUE
            /\ LogOp
       ELSE UNCHANGED <<draining, canWrite, clock, lastApplied, diskVars, upstream>>
    /\ UNCHANGED <<state, wins, producerVars, buffer, ops, originalEnd, bookVars>>

\* The rest of signalDrainComplete, under the global exclusive lock.
SignalDrainComplete ==
    /\ applier = "signalling"
    /\ applier' = "idle"
    /\ draining' = FALSE
    /\ canWrite' = TRUE
    /\ \/ LogOp
       \/ clock = MaxTs /\ UNCHANGED <<clock, lastApplied, diskVars, upstream>>
    /\ anomalies' = anomalies \cup (IF state = "primary" THEN {} ELSE {"lateSignal"})
    /\ UNCHANGED <<state, wins, producerVars, buffer, ops, originalEnd, crashes>>

\* A client's write.
Write ==
    /\ canWrite
    /\ applier # "applying"
    /\ LogOp
    /\ UNCHANGED <<memberVars, producerVars, buffer, applierVars, originalEnd, bookVars>>

-----------------------------------------------------------------------------
(* Crash and restart. *)

\* truncateOplogTo: scanning back, it stops at the first entry before begin,
\* which it keeps, or at the oldest one.
TruncateOplogTo(oplog, begin) ==
    {t \in oplog : t < begin} \cup {Min(oplog)}

\* cleanUpLastApplyBatch; the mark stays.
CleanUpLastApplyBatch(d) ==
    IF d.begin = Null THEN d
    ELSE [d EXCEPT !.oplog = TruncateOplogTo(d.oplog, d.begin)]

(***************************************************************************)
(* A crash at any point, and the restart: _startLoadLocalConfig cleans up, *)
(* the optime and the clock come from the oplog, and runSyncThread enters  *)
(* RECOVERING and reads the end of minValid.                               *)
(***************************************************************************)
CrashAndRestart ==
    /\ crashes < MaxCrashes
    /\ crashes' = crashes + 1
    /\ \E d \in survivors : CommitDurably(CleanUpLastApplyBatch(d))
    /\ anomalies' = anomalies \cup
         (IF applier \in {"applying", "applied"} /\ disk.begin >= Head(ops)
          THEN {"electionStart"} ELSE {})
    /\ state' = "recovering" /\ draining' = FALSE /\ canWrite' = FALSE
    /\ producer' = "paused" /\ lastFetched' = Null /\ inHand' = Null /\ buffer' = <<>>
    /\ applier' = "idle" /\ ops' = <<>>
    /\ originalEnd' = disk'.end
    /\ lastApplied' = Max(disk'.oplog)
    /\ clock' = Max(disk'.oplog)
    /\ UNCHANGED <<upstream, wins>>

-----------------------------------------------------------------------------
ProducerNext ==
    \/ ProducerResumes \/ StartProducer
    \/ FetcherCallback \/ PushToBuffer \/ StopProducer

ApplierNext ==
    \/ GoLive \/ PopBatch \/ MarkBatch
    \/ \E t \in ToSet(ops) : ApplyOp(t)
    \/ WriteOpsToOplog \/ FinishMultiApply \/ ClearMark
    \/ StartSignalDrain \/ SignalDrainComplete

ApplyNext ==
    \/ ProducerNext
    \/ ApplierNext
    \/ WinElection \/ StepDown \/ Write
    \/ CrashAndRestart

ApplySpec == ApplyInit /\ [][ApplyNext]_applyVars

\* Both threads run on, whatever the other does; nothing obliges a client to
\* write, the set to elect this member or the member to crash.
ApplyFairness ==
    /\ WF_applyVars(ProducerNext)
    /\ WF_applyVars(ApplierNext)

FairApplySpec == ApplySpec /\ ApplyFairness

-----------------------------------------------------------------------------
\* The type of every variable.
ApplyTypeOK ==
    /\ state \in {"recovering", "secondary", "primary"}
    /\ draining \in BOOLEAN
    /\ canWrite \in BOOLEAN
    /\ producer \in {"paused", "starting", "fetching", "pushing"}
    /\ lastFetched \in Timestamps \cup {Null}
    /\ inHand \in Timestamps \cup {Null}
    /\ buffer \in Seq(Timestamps)
    /\ applier \in {"idle", "popped", "applying", "applied", "signalling"}
    /\ ops \in Seq(Timestamps)
    /\ originalEnd \in Timestamps
    /\ lastApplied \in Timestamps
    /\ clock \in Timestamps
    /\ disk \in Disks
    /\ survivors \subseteq Disks
    /\ upstream \subseteq Timestamps
    /\ wins \in 0 .. MaxWins
    /\ crashes \in 0 .. MaxCrashes
    /\ anomalies \subseteq {"electionStart", "lateSignal", "lateResume"}

\* A member that serves reads, outside of multiApply, which keeps readers out.
Readable == state # "recovering" /\ applier # "applying"

\* What a reader sees is what the member's oplog says, wherever in a batch a
\* crash has fallen and however it was made up for (cleanUpLastApplyBatch,
\* tryToGoLiveAsASecondary), unless the batch was marked from the timestamp of
\* an election, a follower wrote, or the producer started where it should have
\* paused.
ReadsMatchOplog ==
    Readable /\ anomalies = {} => disk.data = disk.oplog

\* No operation is skipped or taken twice: up to its last one the member's
\* oplog is the set's, over pauses, drains and restarts (start, stop,
\* truncateOplogTo).
OplogIsUpstreams ==
    anomalies = {} /\ applier # "applying" =>
        disk.oplog = {t \in upstream : t <= lastApplied}

\* A primary accepts writes only once everything it fetched is applied: nothing
\* is left in the buffer, in a batch or in the producer's hand (waitUntilPaused
\* and the second peek of tryPopAndWaitForMore; fassert 28527 of multiApply).
WritesAfterDrain ==
    state = "primary" /\ ~draining =>
        buffer = <<>> /\ ops = <<>> /\ inHand = Null

\* The optime of a member moves forward until it crashes (the invariant of
\* _setMyLastOptime_inlock).
OptimeMovesForward ==
    [][crashes' = crashes /\ anomalies' = {} => lastApplied' >= lastApplied]_applyVars

\* A draining member stops draining, primary still or not.
DrainEnds == draining ~> ~draining

\* A member that restarts in RECOVERING becomes a secondary: what it cut from
\* its oplog it fetches again, and a batch clears the mark.
RecoveryEnds ==
    state = "recovering" /\ anomalies = {} ~> state # "recovering"

\* "If start is null/missing, and end is equal to the last oplog entry then we
\* are in a consistent state and ready for reads."
ReadsAreConsistent ==
    Readable => disk.data = disk.oplog
=============================================================================
