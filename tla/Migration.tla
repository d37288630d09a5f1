------------------------------ MODULE Migration ------------------------------
(***************************************************************************)
(* The migration of one chunk: moveChunk and MigrationSourceManager on the *)
(* shard that gives it away, MigrationDestinationManager on the shard that *)
(* receives it, the config servers, which say whose it is, and the         *)
(* distributed lock of the collection.                                     *)
(*                                                                         *)
(* The donor process drives.  Its commands to the recipient, and its write *)
(* to the config servers, may be lost, and so may their answers.  Another  *)
(* shard may use the recipient for a chunk of another collection, and a    *)
(* rival process may take the collection's lock when the donor's pings     *)
(* stay away.  A document is a version number, 0 when it does not exist;   *)
(* docs is what the clients of the chunk have written.                     *)
(*                                                                         *)
(* anomalies is a history variable: it records the events after which the  *)
(* code no longer promises what it promises otherwise.                     *)
(***************************************************************************)
EXTENDS DistLock

CONSTANTS
    Docs,        \* documents of the chunk
    Foreign,     \* a document of another chunk that the recipient owns
    Donor,       \* the process that gives the chunk away
    Rival,       \* another process that migrates chunks of the collection
    MaxWrites,   \* bound: client writes
    MaxVersion,  \* bound: versions of the collection
    NoVersion

ASSUME MigrationAssumption ==
    /\ Donor \in Processes /\ Rival \in Processes /\ Donor # Rival
    /\ Foreign \notin Docs
    /\ MaxWrites \in Nat /\ MaxFaults \in Nat /\ MaxVersion \in Nat \ {0}
    /\ MaxSessions \in Nat
    /\ NoVersion \notin Nat

VARIABLES
    move,       \* the moveChunk thread: its place, and the collection version it read
    owns,       \* the donor's CollectionMetadata has the chunk
    docs,       \* the documents of the chunk
    donorHas,   \* the donor still stores them
    source,     \* MigrationSourceManager: _active, _cloneLocs, _deleted, _reload
    recipient,  \* MigrationDestinationManager, with the place of its thread
    copy,       \* the documents of the chunk at the recipient
    config,     \* config.chunks: the chunk's shard and the collection version
    request,    \* the version an applyOps under way expects
    writes,     \* client writes so far
    anomalies   \* what has happened that weakens the promises

lockDocVars == <<lock, used, before, holds, forcing, toUnlock, observed>>
donorVars == <<move, owns, docs, donorHas, source>>
recipientVars == <<recipient, copy>>
otherVars == <<config, request, writes, anomalies>>
vars == <<lockVars, donorVars, recipientVars, otherVars>>

Places == {"idle", "started", "polling", "checked", "donated",
           "awaiting", "accepted", "applying", "confirming", "committed", "down"}
States == {"READY", "CLONE", "CATCHUP", "STEADY", "COMMIT_START", "DONE", "FAIL", "ABORT"}
Threads == {"none", "prepare", "clone", "catchup", "steady", "pulling", "deciding", "leaving", "other"}
Versions == 1 .. MaxVersion
Anomalies == {"wrongCommit", "abortedCommit", "lateCommit", "mistakenCommit", "stolenMods", "foreignBatch"}

NoSource == [active |-> FALSE, cloneLocs |-> {}, deleted |-> {}, reload |-> {}]
NoCopy == [d \in Docs |-> 0]
Inactive == [active |-> FALSE, state |-> "READY", thread |-> "none", ours |-> FALSE,
             afterCommit |-> FALSE, flushed |-> FALSE]
Existing == {d \in Docs : docs[d] # 0}

\* An earlier attempt has left documents at the recipient.
Init ==
    /\ LockInit
    /\ move = [at |-> "idle", version |-> NoVersion]
    /\ owns = TRUE
    /\ docs = [d \in Docs |-> 1]
    /\ donorHas = TRUE
    /\ source = NoSource
    /\ recipient = Inactive
    /\ copy = docs
    /\ config = [owner |-> "donor", version |-> 1]
    /\ request = NoVersion
    /\ writes = 0
    /\ anomalies = {}

Record(happened, a) == anomalies' = IF happened THEN anomalies \cup {a} ELSE anomalies
At(place) == move.at = place
Go(place) == move' = [move EXCEPT !.at = place]

-----------------------------------------------------------------------------
(* The client writes of the chunk, and what logOp notes of them.           *)

\* An insert or an update.
Upsert(d) ==
    /\ owns /\ ~At("down")
    /\ writes < MaxWrites
    /\ writes' = writes + 1
    /\ docs' = [docs EXCEPT ![d] = writes + 2]
    /\ source' = IF source.active THEN [source EXCEPT !.reload = @ \cup {d}] ELSE source
    /\ UNCHANGED <<lockVars, move, owns, donorHas, recipientVars, config, request, anomalies>>

\* A delete, which also takes the record out of the ones to clone.
Delete(d) ==
    /\ owns /\ ~At("down")
    /\ d \in Existing
    /\ writes < MaxWrites
    /\ writes' = writes + 1
    /\ docs' = [docs EXCEPT ![d] = 0]
    /\ source' = IF source.active
                 THEN [source EXCEPT !.cloneLocs = @ \ {d}, !.deleted = @ \cup {d}]
                 ELSE source
    /\ UNCHANGED <<lockVars, move, owns, donorHas, recipientVars, config, request, anomalies>>

\* Mutant of DeleteForeign: an update of a document outside the range is logged.
UpdateForeign ==
    /\ source.active
    /\ Fault
    /\ source' = [source EXCEPT !.reload = @ \cup {Foreign}]
    /\ UNCHANGED <<lockDocVars, move, owns, docs, donorHas, recipientVars, otherVars>>

\* A delete in another chunk of the donor: logOp cannot tell.
DeleteForeign ==
    /\ source.active
    /\ Fault
    /\ source' = [source EXCEPT !.deleted = @ \cup {Foreign}]
    /\ UNCHANGED <<lockDocVars, move, owns, docs, donorHas, recipientVars, otherVars>>

-----------------------------------------------------------------------------
(* The donor: MoveChunkCommand::run and ChunkMoveOperationState.           *)

\* The end of every attempt: done, and the distributed lock is given back.
Done ==
    /\ source' = NoSource
    /\ Unlock(Donor)
    /\ move' = [at |-> "idle", version |-> NoVersion]

GiveUp == Done /\ UNCHANGED <<owns, docs, donorHas>>

\* acquireMoveMetadata, once the lock is there, then start and storeCurrentLocs.
StartMove ==
    /\ At("idle") /\ holds[Donor] # NoSession
    /\ owns' = (config.owner = "donor")
    /\ IF owns'
       THEN /\ move' = [at |-> "started", version |-> config.version]
            /\ source' = [NoSource EXCEPT !.active = TRUE, !.cloneLocs = Existing]
            /\ UNCHANGED lockVars
       ELSE Done
    /\ UNCHANGED <<docs, donorHas, recipientVars, otherVars>>

Receiving == [Inactive EXCEPT !.active = TRUE, !.ours = TRUE, !.thread = "prepare"]

\* _recvChunkStart; it is refused, or lost, or its answer is.
SendStart ==
    /\ At("started")
    /\ \/ GiveUp /\ UNCHANGED recipient
       \/ /\ ~recipient.active
          /\ recipient' = Receiving
          /\ \/ Go("polling") /\ UNCHANGED <<lockVars, owns, docs, donorHas, source>>
             \/ GiveUp
    /\ UNCHANGED <<copy, otherVars>>

\* _recvChunkStatus until the answer, which must be of this migration, is steady
\* or a day has passed; then the last checks, of the documents to clone and of
\* the lock.
Poll ==
    /\ At("polling")
    /\ \/ GiveUp
       \/ /\ recipient.ours /\ recipient.state # "FAIL"
          /\ source.cloneLocs = {}
          /\ lock.session = holds[Donor]
          /\ Go("checked")
          /\ UNCHANGED <<lockVars, owns, docs, donorHas, source>>
    /\ UNCHANGED <<recipientVars, otherVars>>

\* donateChunk: from here on the donor takes no writes for the chunk.
DonateChunk ==
    /\ At("checked")
    /\ \/ owns' = FALSE /\ Go("donated") /\ UNCHANGED <<lockVars, docs, donorHas, source>>
       \/ GiveUp
    /\ UNCHANGED <<recipientVars, otherVars>>

\* undoDonateChunk, and the end of the attempt.
UndoDonateChunk ==
    /\ owns' = TRUE
    /\ Done
    /\ UNCHANGED <<docs, donorHas>>

\* _recvChunkCommit arrives, startCommit: whatever is being received is to be
\* committed, if it is steady.
StartCommit ==
    /\ At("donated")
    /\ IF recipient.state = "STEADY"
       THEN /\ recipient' = [recipient EXCEPT !.state = "COMMIT_START"]
            /\ Record(~recipient.ours, "wrongCommit")
            /\ Go("awaiting")
            /\ UNCHANGED <<lockVars, owns, docs, donorHas, source>>
       ELSE UndoDonateChunk /\ UNCHANGED <<recipient, anomalies>>
    /\ UNCHANGED <<copy, config, request, writes>>

\* startCommit returns once the thread has ended.
CommitAnswer ==
    /\ At("awaiting") /\ ~recipient.active
    /\ IF recipient.state = "DONE"
       THEN /\ Record(~recipient.ours, "wrongCommit")
            /\ Go("accepted")
            /\ UNCHANGED <<lockVars, owns, docs, donorHas, source>>
       ELSE UndoDonateChunk /\ UNCHANGED anomalies
    /\ UNCHANGED <<recipientVars, config, request, writes>>

\* Mutant of CommitFails: the donation is not undone.
CommitFailsOnly ==
    /\ At("donated") \/ At("awaiting")
    /\ GiveUp
    /\ UNCHANGED <<recipientVars, otherVars>>

\* The command does not arrive, or its answer does not, or startCommit waits in
\* vain and ends the migration.
CommitFails ==
    /\ At("donated") \/ At("awaiting")
    /\ UndoDonateChunk
    /\ \/ UNCHANGED recipient
       \/ At("awaiting") /\ recipient.active /\ recipient' = [recipient EXCEPT !.state = "FAIL"]
    /\ UNCHANGED <<copy, otherVars>>

\* The applyOps is sent, or could not be (PrepareConfigsFailed).
SendApplyOps ==
    /\ At("accepted")
    /\ \/ /\ request' = move.version
          /\ Go("applying")
          /\ UNCHANGED <<lockVars, owns, docs, donorHas, source>>
       \/ UndoDonateChunk /\ UNCHANGED request
    /\ UNCHANGED <<recipientVars, config, writes, anomalies>>

\* Mutant of VersionAsRead: the applyOps has no preCondition.
AnyVersion == TRUE

\* The preCondition: the collection is at the version the donor read.
VersionAsRead == config.version = request

\* The config servers execute it.  The donor may wait for the answer, or wait no
\* more.
ApplyOps ==
    /\ request # NoVersion
    /\ request' = NoVersion
    /\ IF VersionAsRead
       THEN /\ config' = [owner |-> "recipient", version |-> request + 1]
            /\ IF At("applying") THEN Go("committed") \/ Go("confirming") ELSE UNCHANGED move
            /\ Record(~(At("applying") \/ At("confirming")), "lateCommit")
       ELSE /\ IF At("applying") THEN Go("confirming") ELSE UNCHANGED move
            /\ UNCHANGED <<config, anomalies>>
    /\ UNCHANGED <<lockVars, owns, docs, donorHas, source, recipientVars, writes>>

\* It is lost, or has not arrived when the donor ceases to wait.
ApplyOpsFails ==
    /\ At("applying")
    /\ Go("confirming")
    /\ request' \in {request, NoVersion}
    /\ UNCHANGED <<lockVars, owns, docs, donorHas, source, recipientVars, config, writes, anomalies>>

\* The process ends: dbexit, or a crash.  The lock document stays as it is.
Exit ==
    /\ move' = [at |-> "down", version |-> NoVersion]
    /\ source' = NoSource
    /\ LoseProcess(Donor)
    /\ UNCHANGED <<owns, docs, donorHas>>

\* Mutant of ConfirmCommit: every error is taken for PrepareConfigsFailed.
UndoUnconfirmed ==
    /\ At("confirming")
    /\ UndoDonateChunk
    /\ UNCHANGED <<recipientVars, otherVars>>

\* The newest version of the collection tells whether the commit made it; if
\* not, or if it cannot be read, the process ends.
ConfirmCommit ==
    /\ At("confirming")
    /\ \/ /\ config.version = move.version + 1
          /\ Go("committed")
          /\ Record(config.owner = "donor", "mistakenCommit")
          /\ UNCHANGED <<lockVars, owns, docs, donorHas, source>>
       \/ Exit /\ UNCHANGED <<anomalies, faults>>
    /\ UNCHANGED <<recipientVars, config, request, writes>>

\* The critical section is left, and the donor's documents are deleted.
Committed ==
    /\ At("committed")
    /\ donorHas' = FALSE
    /\ Done
    /\ UNCHANGED <<owns, docs, recipientVars, otherVars>>

Crash ==
    /\ ~At("down")
    /\ Fault
    /\ Exit
    /\ UNCHANGED <<recipientVars, config, request, writes, anomalies>>

\* The process is back, and reads from the config servers what it owns.
Restart ==
    /\ At("down")
    /\ Go("idle")
    /\ owns' = (config.owner = "donor")
    /\ UNCHANGED <<lockVars, docs, donorHas, source, recipientVars, otherVars>>

-----------------------------------------------------------------------------
(* The recipient: MigrationDestinationManager.  setState does not look at  *)
(* the state it replaces.                                                  *)

Thread(t) == recipient.active /\ recipient.thread = t
Ended(state) == [recipient EXCEPT !.active = FALSE, !.state = state, !.thread = "none"]
Enter(thread, state) == recipient' = [recipient EXCEPT !.thread = thread, !.state = state]

\* Collection, indexes, and the deletion of what is left in the range.
PrepareRange ==
    /\ Thread("prepare")
    /\ copy' = NoCopy
    /\ Enter("clone", "CLONE")
    /\ UNCHANGED <<lockVars, donorVars, otherVars>>

\* Mutant of CloneBatch: a document that does not fit is not sent, even alone.
CloneWhatFits ==
    /\ Thread("clone") /\ source.active
    /\ \E batch \in SUBSET source.cloneLocs :
         /\ source' = [source EXCEPT !.cloneLocs = @ \ batch]
         /\ IF batch = {}
            THEN Enter("catchup", "CATCHUP") /\ UNCHANGED copy
            ELSE /\ copy' = [d \in Docs |-> IF d \in batch THEN docs[d] ELSE copy[d]]
                 /\ UNCHANGED recipient
    /\ UNCHANGED <<lockVars, move, owns, docs, donorHas, otherVars>>

\* An attempt has begun at the donor and not yet at the recipient: a thread that
\* pulls now is of an earlier one, and what it takes is missing later.
Stolen == At("started") /\ source' # source

\* _migrateClone: as many documents as fit into an answer.
CloneBatch ==
    /\ Thread("clone") /\ source.active
    /\ \E batch \in SUBSET source.cloneLocs :
         /\ batch = {} <=> source.cloneLocs = {}
         /\ source' = [source EXCEPT !.cloneLocs = @ \ batch]
         /\ IF batch = {}
            THEN Enter("catchup", "CATCHUP") /\ UNCHANGED copy
            ELSE IF recipient.state = "ABORT"
            THEN recipient' = Ended("ABORT") /\ UNCHANGED copy
            ELSE /\ copy' = [d \in Docs |-> IF d \in batch THEN docs[d] ELSE copy[d]]
                 /\ UNCHANGED recipient
    /\ Record(Stolen, "stolenMods")
    /\ UNCHANGED <<lockVars, move, owns, docs, donorHas, config, request, writes>>

\* What an answer of _transferMods may hold: deletes first, then documents to
\* load again, as they are now; nothing only if there is nothing.
Batches ==
    {b \in [deleted : SUBSET source.deleted, reload : SUBSET source.reload] :
        /\ b.deleted # source.deleted => b.deleted # {} /\ b.reload = {}
        /\ b.deleted = {} /\ b.reload \cap Existing = {} => b.reload = source.reload}

Size(b) == Cardinality(b.deleted) + Cardinality(b.reload \cap Existing)
Without(b) == [source EXCEPT !.deleted = @ \ b.deleted, !.reload = @ \ b.reload]

\* _applyMigrateOp: deletes, then documents.
ApplyMigrateOp(b) ==
    [d \in Docs |-> IF d \in b.reload /\ d \in Existing THEN docs[d]
                    ELSE IF d \in b.deleted THEN 0 ELSE copy[d]]

\* What _applyMigrateOp returns: a delete it skips is nothing done.
DidAnything(b) == b.deleted \ {Foreign} # {} \/ b.reload \cap Existing # {}

\* The bulk of the changes, until there are none; then a pause for replication.
CatchUp ==
    /\ Thread("catchup") /\ source.active
    /\ \E b \in Batches :
         /\ source' = Without(b)
         /\ copy' = ApplyMigrateOp(b)
         /\ IF recipient.state = "ABORT" THEN recipient' = Ended("ABORT")
            ELSE IF Size(b) = 0 THEN Enter("steady", "STEADY")
            ELSE UNCHANGED recipient
    /\ Record(Stolen, "stolenMods")
    /\ UNCHANGED <<lockVars, move, owns, docs, donorHas, config, request, writes>>

\* Mutant of BeginTransfer: any transfer will do.
AnyTransfer ==
    /\ Thread("steady")
    /\ recipient' = IF recipient.state \in {"STEADY", "COMMIT_START"}
                    THEN [recipient EXCEPT !.thread = "pulling", !.afterCommit = TRUE]
                    ELSE [recipient EXCEPT !.thread = "leaving"]
    /\ UNCHANGED <<lockVars, donorVars, copy, otherVars>>

\* The head of the loop that waits for the commit: is this transfer after it?
BeginTransfer ==
    /\ Thread("steady")
    /\ recipient' = IF recipient.state \in {"STEADY", "COMMIT_START"}
                    THEN [recipient EXCEPT !.thread = "pulling",
                                           !.afterCommit = @ \/ recipient.state = "COMMIT_START"]
                    ELSE [recipient EXCEPT !.thread = "leaving"]
    /\ UNCHANGED <<lockVars, donorVars, copy, otherVars>>

\* One transfer.
Transfer ==
    /\ Thread("pulling") /\ source.active
    /\ \E b \in Batches :
         /\ source' = Without(b)
         /\ copy' = ApplyMigrateOp(b)
         /\ recipient' = [recipient EXCEPT !.thread = IF DidAnything(b) THEN "steady" ELSE "deciding"]
         /\ IF Stolen THEN Record(TRUE, "stolenMods")
            ELSE Record(/\ recipient.afterCommit /\ ~DidAnything(b)
                        /\ source'.deleted \cup source'.reload # {}, "foreignBatch")
    /\ UNCHANGED <<lockVars, move, owns, docs, donorHas, config, request, writes>>

\* One that brought nothing is the last, if it came after the commit message and
\* a majority of the recipient's shard has everything (_flushPendingWrites).
AfterTransfer ==
    /\ Thread("deciding")
    /\ \/ recipient' = IF recipient.state = "ABORT" THEN Ended("ABORT")
                       ELSE [recipient EXCEPT !.thread = "steady"]
       \/ /\ recipient.state = "COMMIT_START" /\ recipient.afterCommit
          /\ recipient' = [recipient EXCEPT !.thread = "leaving", !.flushed = TRUE]
    /\ UNCHANGED <<lockVars, donorVars, copy, otherVars>>

\* After the loop, whatever ended it.
Leave ==
    /\ Thread("leaving")
    /\ recipient' = Ended(IF recipient.state = "FAIL" THEN "FAIL" ELSE "DONE")
    /\ UNCHANGED <<lockVars, donorVars, copy, otherVars>>

\* The thread throws, cannot reach the donor, or hears that nothing is active.
ReceiveFails ==
    /\ recipient.active /\ recipient.ours
    /\ recipient' = Ended("FAIL")
    /\ UNCHANGED <<lockVars, donorVars, copy, otherVars>>

\* The recipient's shard has another primary, or the same one restarted: it
\* receives nothing, and has what was replicated to a majority.
RecipientLost ==
    /\ Fault
    /\ recipient' = [Inactive EXCEPT !.flushed = recipient.flushed]
    /\ \/ UNCHANGED copy
       \/ ~recipient.flushed /\ copy' = NoCopy
    /\ UNCHANGED <<lockDocVars, donorVars, otherVars>>

\* _recvChunkAbort, from an operator: the donor's own limit is never reached.
\* abort does not ask whether a thread is there.
RecvChunkAbort ==
    /\ recipient.state # "ABORT"
    /\ Fault
    /\ recipient' = [recipient EXCEPT !.state = "ABORT"]
    /\ Record(recipient.state = "COMMIT_START", "abortedCommit")
    /\ UNCHANGED <<lockDocVars, donorVars, copy, config, request, writes>>

\* The thread of an earlier attempt, at another shard, does not know yet that its
\* migration is over, and pulls from the one that is active now.
StaleTransfer ==
    /\ source.active
    /\ Fault
    /\ \/ source' = [source EXCEPT !.cloneLocs = {}]
       \/ source' = [source EXCEPT !.deleted = {}, !.reload = {}]
    /\ Record(source' # source, "stolenMods")
    /\ UNCHANGED <<lockDocVars, move, owns, docs, donorHas, recipientVars, config, request, writes>>

-----------------------------------------------------------------------------
(* Another donor, of another collection, at the same recipient, and the    *)
(* rival.                                                                  *)

OtherStarts ==
    /\ ~recipient.active
    /\ Fault
    /\ recipient' = [Inactive EXCEPT !.active = TRUE, !.thread = "other", !.flushed = recipient.flushed]
    /\ UNCHANGED <<lockDocVars, donorVars, copy, config, request, writes, anomalies>>

OtherProceeds ==
    /\ Thread("other")
    /\ recipient' \in
         {Ended("FAIL")}
         \cup (IF recipient.state = "READY" THEN {[recipient EXCEPT !.state = "STEADY"]} ELSE {})
         \cup (IF recipient.state = "COMMIT_START" THEN {Ended("DONE")} ELSE {})
    /\ UNCHANGED <<lockVars, donorVars, copy, otherVars>>

OtherCommits ==
    /\ Thread("other") /\ recipient.state = "STEADY"
    /\ recipient' = [recipient EXCEPT !.state = "COMMIT_START"]
    /\ UNCHANGED <<lockVars, donorVars, copy, otherVars>>

\* The rival moves another chunk of the collection, and gives the lock back.
RivalMoves ==
    /\ holds[Rival] # NoSession
    /\ config' \in {config} \cup {[config EXCEPT !.version = v] : v \in Versions \cap {config.version + 1}}
    /\ Unlock(Rival)
    /\ UNCHANGED <<donorVars, recipientVars, request, writes, anomalies>>

LockOnly(A) == A /\ UNCHANGED <<donorVars, recipientVars, otherVars>>

DonorStep ==
    \/ StartMove \/ SendStart \/ Poll \/ DonateChunk
    \/ StartCommit \/ CommitAnswer \/ CommitFails \/ SendApplyOps \/ ApplyOpsFails
    \/ ConfirmCommit \/ Committed

RecipientStep ==
    \/ PrepareRange \/ CloneBatch \/ CatchUp \/ BeginTransfer \/ Transfer \/ AfterTransfer \/ Leave \/ ReceiveFails

DonorLocks == (At("idle") /\ owns) /\ LockOnly(TryLock(Donor))
RivalLocks == LockOnly(TryLock(Rival))

Next ==
    \/ DonorStep \/ Crash \/ Restart \/ ApplyOps
    \/ RecipientStep \/ RecipientLost \/ RecvChunkAbort \/ StaleTransfer
    \/ OtherStarts \/ OtherProceeds \/ OtherCommits \/ RivalMoves
    \/ DeleteForeign
    \/ \E d \in Docs : Upsert(d) \/ Delete(d)
    \/ DonorLocks \/ RivalLocks
    \/ \E p \in Processes : LockOnly(UnlockQueued(p))
    \/ \E p \in Processes : LockOnly(Ping(p)) \/ LockOnly(Age(p))
    \/ LockOnly(ConfigElection)

\* The moveChunk thread, the migrate thread and a process that is to come back
\* keep going, and so do the lock pinger and whoever waits for the lock.  The
\* waits of the code are bounded, so a step that waits may also fail.
Fairness ==
    /\ WF_vars(DonorStep) /\ WF_vars(RecipientStep) /\ WF_vars(Restart)
    /\ WF_vars(RivalLocks) /\ WF_vars(RivalMoves) /\ WF_vars(LockOnly(Age(Rival)))
    /\ \A p \in Processes : WF_vars(LockOnly(UnlockQueued(p)))

MigrationSpec == Init /\ [][Next]_vars
FairMigrationSpec == MigrationSpec /\ Fairness

-----------------------------------------------------------------------------
\* Every variable of the migration and of its lock holds a value of its type.
MigrationTypeOK ==
    /\ LockTypeOK
    /\ move \in [at : Places, version : Versions \cup {NoVersion}]
    /\ owns \in BOOLEAN /\ donorHas \in BOOLEAN
    /\ docs \in [Docs -> 0 .. MaxWrites + 1] /\ copy \in [Docs -> 0 .. MaxWrites + 1]
    /\ source \in [active : BOOLEAN, cloneLocs : SUBSET Docs,
                   deleted : SUBSET (Docs \cup {Foreign}), reload : SUBSET Docs]
    /\ recipient \in [active : BOOLEAN, state : States, thread : Threads,
                      ours : BOOLEAN, afterCommit : BOOLEAN, flushed : BOOLEAN]
    /\ config \in [owner : {"donor", "recipient"}, version : 1 .. MaxVersion + 1]
    /\ request \in Versions \cup {NoVersion}
    /\ writes \in 0 .. MaxWrites
    /\ anomalies \in SUBSET Anomalies

\* The shard that the config servers name has every write of the chunk's
\* clients, whatever was written while the chunk was cloned, whatever failed and
\* whatever was tried again (_migrateDriver, commitMigration).
NoLostWrite ==
    anomalies = {} =>
        IF config.owner = "recipient" THEN copy = docs ELSE donorHas

\* The donor takes no write for a chunk that the config servers have given to
\* the recipient (donateChunk, undoDonateChunk and the restart).
OneOwner == anomalies = {} => ~(owns /\ config.owner = "recipient" /\ ~At("down"))

\* A recipient that tells this donor to be steady has cloned every document: what
\* move_chunk_command.cpp checks again before the critical section.
ClonedWhenSteady ==
    anomalies = {} /\ At("polling") /\ recipient.ours /\ recipient.state = "STEADY"
        => source.cloneLocs = {}

\* Whoever changes config.chunks raises the version of the collection: no two
\* migrations commit under one version, also when the rival has overtaken the
\* donor's lock and moved a chunk while the donor's applyOps was under way (the
\* preCondition of commitMigration).
VersionRises == [][config' # config => config'.version > config.version]_vars

\* A chunk that the donor has donated, and that the config servers have not given
\* to the recipient, gets an owner again: the critical section ends.
ChunkGetsOwner ==
    ~owns /\ config.owner = "donor"
        ~> owns \/ config.owner = "recipient" \/ anomalies # {}

\* A process that waits for the lock gets it, however the one before it ended:
\* released, queued for a later unlock, or silent for the expiration time.
RivalGetsLock == used[Rival] = 0 ~> used[Rival] # 0 \/ anomalies # {}
=============================================================================
