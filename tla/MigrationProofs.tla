--------------------------- MODULE MigrationProofs ---------------------------
(***************************************************************************)
(* The safety of the migration, for any set of documents and processes and *)
(* any bounds: types, and, as long as no anomaly is recorded, no lost      *)
(* write, one owner, and every document cloned when the recipient is       *)
(* steady.                                                                 *)
(***************************************************************************)
EXTENDS Migration, TLAPS

USE ZenonT(30)

\* An attempt is under way at the donor.
Moving == move.at \notin {"idle", "down"}

\* The places where the recipient may be receiving the attempt, and the ones
\* where it has accepted to own the chunk.
Receives == move.at \in {"polling", "checked", "donated", "awaiting"}
Accepted == move.at \in {"accepted", "applying", "confirming", "committed"}

\* The threads that are past the cloning.
Cloned == {"catchup", "steady", "pulling", "deciding", "leaving"}

\* The types of the lock, and that whoever forces it has a session left.
LockOK ==
    /\ LockTypeOK
    /\ \A p \in Processes : forcing[p] # NoSession => used[p] < MaxSessions

\* The types of everything but the lock.
Moves == [at : Places, version : Versions \cup {NoVersion}]
Sources == [active : BOOLEAN, cloneLocs : SUBSET Docs,
            deleted : SUBSET (Docs \cup {Foreign}), reload : SUBSET Docs]
Recipients == [active : BOOLEAN, state : States, thread : Threads,
               ours : BOOLEAN, afterCommit : BOOLEAN, flushed : BOOLEAN]
ChunkTypeOK ==
    /\ move \in Moves
    /\ owns \in BOOLEAN /\ donorHas \in BOOLEAN
    /\ docs \in [Docs -> 0 .. MaxWrites + 1] /\ copy \in [Docs -> 0 .. MaxWrites + 1]
    /\ source \in Sources
    /\ recipient \in Recipients
    /\ config \in [owner : {"donor", "recipient"}, version : 1 .. MaxVersion + 1]
    /\ request \in Versions \cup {NoVersion}
    /\ writes \in 0 .. MaxWrites
    /\ anomalies \in SUBSET Anomalies

\* What the types rest on: the donor has the lock while it moves, and versions
\* have room for a commit.
Books ==
    /\ config.owner = "donor" => config.version \in Versions
    /\ Moving => /\ holds[Donor] # NoSession
                 /\ move.version \in Versions
                 /\ source.active

\* Which thread runs at the recipient, by what it is told.
Tasks ==
    /\ recipient.active => (recipient.thread = "other" <=> ~recipient.ours)
    /\ recipient.active => recipient.thread # "none"
    /\ recipient.state \in {"STEADY", "COMMIT_START"} => recipient.active
    /\ recipient.state \in {"STEADY", "COMMIT_START"} /\ recipient.ours
          => recipient.thread \in {"steady", "pulling", "deciding", "leaving"}
    /\ recipient.state = "STEADY" => recipient.thread # "leaving"

\* Whose the chunk is.
Ownership ==
    /\ config.owner = "recipient" => ~owns /\ (Moving => move.at \in {"confirming", "committed"})
    /\ config.owner = "donor" => donorHas
    /\ At("committed") => config.owner = "recipient"
    /\ Accepted \/ At("donated") \/ At("awaiting") => ~owns

\* What the donor notes of the writes since it started: an existing document
\* that was deleted before is to be loaded again.
Noted ==
    source.active => \A d \in source.deleted \cap Docs : docs[d] # 0 => d \in source.reload

\* Before the recipient has anything, every document is to be cloned or loaded.
AllPending ==
    At("started") \/ (Receives /\ recipient.ours /\ recipient.active /\ recipient.thread = "prepare")
        => \A d \in Docs : docs[d] # 0 => d \in source.cloneLocs \cup source.reload

\* Later, every difference between the donor and the recipient is.
Pending ==
    \A d \in Docs : docs[d] # copy[d] =>
        IF docs[d] # 0 THEN d \in source.cloneLocs \cup source.reload ELSE d \in source.deleted

DifferencePending ==
    Receives /\ recipient.ours /\ recipient.active /\ recipient.thread # "prepare" =>
        /\ Pending
        /\ recipient.thread \in Cloned => source.cloneLocs = {}

\* The commit message: not yet sent, or sent and acted upon.
Commit ==
    /\ move.at \in {"polling", "checked", "donated"} /\ recipient.ours =>
          recipient.state # "COMMIT_START" /\ ~recipient.afterCommit
    /\ At("awaiting") /\ recipient.ours /\ recipient.active =>
          /\ recipient.state = "COMMIT_START"
          /\ recipient.thread = "deciding" /\ recipient.afterCommit => copy = docs
          /\ recipient.thread = "leaving" => copy = docs /\ recipient.flushed
    /\ At("awaiting") /\ recipient.ours /\ ~recipient.active /\ recipient.state = "DONE" =>
          copy = docs /\ recipient.flushed

\* The recipient has everything, for good.
Landed ==
    Accepted \/ config.owner = "recipient" =>
        /\ copy = docs /\ recipient.flushed
        /\ recipient.active => recipient.thread = "other"

Promised == Ownership /\ Noted /\ AllPending /\ DifferencePending /\ Commit /\ Landed

MigrationInv == LockOK /\ ChunkTypeOK /\ Books /\ Tasks /\ (anomalies = {} => Promised)

-----------------------------------------------------------------------------
(* The lock *)

\* A step that leaves the lock alone leaves its types.
LEMMA SameLock ==
    ASSUME LockTypeOK, UNCHANGED lockVars
    PROVE  LockTypeOK'
BY DEF LockTypeOK, lockVars

\* A fault is counted up to its bound.
LEMMA FaultCounted ==
    ASSUME faults \in 0 .. MaxFaults, Fault
    PROVE  faults' \in 0 .. MaxFaults
BY MigrationAssumption, SMTT(30) DEF Fault

\* What TakenBy leaves behind.
LEMMA TakenType ==
    ASSUME LockTypeOK, NEW p \in Processes, used[p] < MaxSessions, TakenBy(p)
    PROVE  /\ lock' \in [locked : BOOLEAN, session : Sessions \cup {NoSession}]
           /\ used' \in [Processes -> 0 .. MaxSessions]
           /\ holds' \in [Processes -> Sessions \cup {NoSession}]
           /\ toUnlock' \in [Processes -> SUBSET Sessions]
           /\ faults' \in 0 .. MaxFaults
           /\ \A q \in Processes \ {p} : used'[q] = used[q] /\ holds'[q] = holds[q]
<1>1. used[p] \in 0 .. MaxSessions /\ used[p] + 1 \in 1 .. MaxSessions
  BY MigrationAssumption, SMTT(30) DEF LockTypeOK
<1>2. NewSession(p) \in Sessions
  BY <1>1 DEF NewSession, Sessions
<1>3. lock' = [locked |-> TRUE, session |-> NewSession(p)] /\ used' = [used EXCEPT ![p] = @ + 1]
  BY DEF TakenBy
<1>4. used' \in [Processes -> 0 .. MaxSessions] /\ \A q \in Processes \ {p} : used'[q] = used[q]
  BY <1>1, <1>3, MigrationAssumption, SMTT(30) DEF LockTypeOK
<1>5. lock' \in [locked : BOOLEAN, session : Sessions \cup {NoSession}]
  BY <1>2, <1>3
<1>6. CASE holds' = [holds EXCEPT ![p] = NewSession(p)] /\ UNCHANGED <<toUnlock, faults>>
  BY <1>2, <1>4, <1>5, <1>6 DEF LockTypeOK
<1>7. CASE Fault /\ toUnlock' = [toUnlock EXCEPT ![p] = @ \cup {NewSession(p)}] /\ UNCHANGED holds
  <2>1. faults' \in 0 .. MaxFaults
    BY <1>7, FaultCounted DEF LockTypeOK
  <2>2. toUnlock' \in [Processes -> SUBSET Sessions]
    BY <1>2, <1>7 DEF LockTypeOK
  <2> QED BY <1>4, <1>5, <1>7, <2>1, <2>2 DEF LockTypeOK
<1> QED BY <1>6, <1>7 DEF TakenBy

\* One pass through the loop of lock takes it for p, or for nobody.
LEMMA TryLockOK ==
    ASSUME LockOK, NEW p \in Processes, TryLock(p)
    PROVE  LockOK' /\ \A q \in Processes \ {p} : holds'[q] = holds[q]
<1>0. LockTypeOK /\ \A q \in Processes : forcing[q] # NoSession => used[q] < MaxSessions
  BY DEF LockOK
<1>1. CASE GrabLock(p)
  <2>1. /\ used[p] < MaxSessions /\ forcing[p] = NoSession /\ TakenBy(p)
        /\ UNCHANGED <<before, forcing, observed>>
    BY <1>1 DEF GrabLock, Idle
  <2>2. LockTypeOK' /\ \A q \in Processes \ {p} : used'[q] = used[q] /\ holds'[q] = holds[q]
    BY <1>0, <2>1, TakenType DEF LockTypeOK
  <2> QED BY <1>0, <2>1, <2>2 DEF LockOK
<1>2. CASE CanOvertakeLock(p)
  <2>1. used[p] < MaxSessions /\ UNCHANGED <<lock, used, before, holds, toUnlock, faults>>
    BY <1>2 DEF CanOvertakeLock, Idle
  <2>2. lock.session \in Sessions \cup {NoSession}
    BY <1>0 DEF LockTypeOK
  <2>3. CASE /\ observed' = [observed EXCEPT ![p] = [NoObservation EXCEPT !.session = lock.session]]
             /\ UNCHANGED forcing
    <3>1. [NoObservation EXCEPT !.session = lock.session] \in Observations
      BY <2>2 DEF NoObservation, Observations
    <3> QED BY <1>0, <2>1, <2>3, <3>1 DEF LockOK, LockTypeOK
  <2>4. CASE forcing' = [forcing EXCEPT ![p] = lock.session] /\ UNCHANGED observed
    BY <1>0, <2>1, <2>2, <2>4 DEF LockOK, LockTypeOK
  <2> QED BY <1>2, <2>3, <2>4 DEF CanOvertakeLock
<1>3. CASE OvertakeLock(p)
  <2>1. /\ used[p] < MaxSessions
        /\ forcing' = [forcing EXCEPT ![p] = NoSession] /\ UNCHANGED <<before, observed>>
    BY <1>0, <1>3 DEF OvertakeLock
  <2>2. forcing' \in [Processes -> Sessions \cup {NoSession}] /\ forcing'[p] = NoSession
        /\ \A q \in Processes \ {p} : forcing'[q] = forcing[q]
    BY <1>0, <2>1 DEF LockTypeOK
  <2>3. CASE TakenBy(p)
    BY <1>0, <2>1, <2>2, <2>3, TakenType DEF LockOK, LockTypeOK
  <2>4. CASE UNCHANGED <<lock, used, holds, toUnlock, faults>>
    BY <1>0, <2>1, <2>2, <2>4 DEF LockOK, LockTypeOK
  <2> QED BY <1>3, <2>3, <2>4 DEF OvertakeLock
<1> QED BY <1>1, <1>2, <1>3 DEF TryLock

\* The document after an unlock.
LEMMA UnlockedType ==
    ASSUME LockTypeOK, NEW s
    PROVE  Unlocked(s) \in [locked : BOOLEAN, session : Sessions \cup {NoSession}]
<1>1. (lock.locked /\ lock.session # s) \in BOOLEAN
  OBVIOUS
<1> QED BY <1>1 DEF LockTypeOK, Unlocked

\* The process that holds the lock gives it back, or queues that.
LEMMA UnlockOK ==
    ASSUME LockOK, NEW p \in Processes, holds[p] # NoSession, Unlock(p)
    PROVE  LockOK' /\ \A q \in Processes \ {p} : holds'[q] = holds[q]
<1>0. LockTypeOK /\ \A q \in Processes : forcing[q] # NoSession => used[q] < MaxSessions
  BY DEF LockOK
<1>1. /\ holds' = [holds EXCEPT ![p] = NoSession] /\ UNCHANGED <<used, before, forcing, observed>>
  BY DEF Unlock
<1>2. holds[p] \in Sessions
  BY <1>0 DEF LockTypeOK
<1>3. Unlocked(holds[p]) \in [locked : BOOLEAN, session : Sessions \cup {NoSession}]
  BY <1>0, UnlockedType
<1>4. lock' \in [locked : BOOLEAN, session : Sessions \cup {NoSession}]
  BY <1>0, <1>3 DEF Unlock, LockTypeOK
<1>5. toUnlock' \in [Processes -> SUBSET Sessions]
  BY <1>0, <1>2, SMTT(30) DEF Unlock, LockTypeOK
<1>6. faults' \in 0 .. MaxFaults
  BY <1>0, FaultCounted DEF Unlock, LockTypeOK
<1> QED BY <1>0, <1>1, <1>4, <1>5, <1>6 DEF LockOK, LockTypeOK

\* The queue of unlocks is worked off.
LEMMA UnlockQueuedOK ==
    ASSUME LockOK, NEW p \in Processes, UnlockQueued(p)
    PROVE  LockOK' /\ holds' = holds
<1>1. PICK s \in toUnlock[p] :
        /\ lock' = Unlocked(s) /\ toUnlock' = [toUnlock EXCEPT ![p] = @ \ {s}]
        /\ UNCHANGED <<used, before, holds, forcing, observed, faults>>
  BY DEF UnlockQueued
<1>2. Unlocked(s) \in [locked : BOOLEAN, session : Sessions \cup {NoSession}]
  BY UnlockedType DEF LockOK
<1> QED BY <1>1, <1>2 DEF LockOK, LockTypeOK

\* What the processes have noted changes by pings, by time and by elections.
LEMMA ObserveOK ==
    ASSUME LockOK, NEW p \in Processes, Ping(p) \/ Age(p) \/ ConfigElection
    PROVE  LockOK' /\ holds' = holds
<1>0. LockTypeOK /\ observed \in [Processes -> Observations]
  BY DEF LockOK, LockTypeOK
<1>1. UNCHANGED <<lock, used, before, holds, forcing, toUnlock>>
  BY DEF Ping, Age, ConfigElection
<1>2. Outdated(observed) \in [Processes -> Observations]
  BY <1>0 DEF Outdated, Observations, NoObservation
<1>3. observed' \in [Processes -> Observations]
  <2>1. CASE Ping(p)
    BY <1>0, <1>2, <2>1 DEF Ping
  <2>2. CASE Age(p)
    BY <1>0, <2>2 DEF Age, Observations
  <2>3. CASE ConfigElection
    BY <1>2, <2>3 DEF ConfigElection
  <2> QED BY <2>1, <2>2, <2>3
<1>4. faults' \in 0 .. MaxFaults
  BY <1>0, FaultCounted DEF Ping, Age, ConfigElection, LockTypeOK
<1> QED BY <1>0, <1>1, <1>3, <1>4 DEF LockOK, LockTypeOK

\* A process that ends leaves the document as it is.
LEMMA LoseProcessOK ==
    ASSUME LockOK, NEW p \in Processes, LoseProcess(p), faults' \in 0 .. MaxFaults
    PROVE  LockOK'
<1>1. NoObservation \in Observations
  BY DEF NoObservation, Observations
<1> QED BY <1>1 DEF LockOK, LockTypeOK, LoseProcess

-----------------------------------------------------------------------------
(* The steps of the lock *)

\* What is not the lock's is as before.
LEMMA SameChunk ==
    ASSUME ChunkTypeOK, Tasks, anomalies = {} => Promised,
           UNCHANGED <<donorVars, recipientVars, otherVars>>
    PROVE  ChunkTypeOK' /\ Tasks' /\ (anomalies' = {} => Promised')
<1>1. /\ move' = move /\ owns' = owns /\ docs' = docs /\ donorHas' = donorHas /\ source' = source
      /\ recipient' = recipient /\ copy' = copy
      /\ config' = config /\ request' = request /\ writes' = writes /\ anomalies' = anomalies
  BY DEF donorVars, recipientVars, otherVars
<1>2. ChunkTypeOK'
  BY <1>1 DEF ChunkTypeOK
<1>3. Tasks'
  BY <1>1 DEF Tasks
<1>4. Promised => Promised'
  BY <1>1 DEF Promised, Ownership, Noted, AllPending, DifferencePending, Pending, Commit, Landed, Moving,
     Receives, Accepted, At
<1> QED BY <1>1, <1>2, <1>3, <1>4

\* So the invariant holds if the donor still has the lock it had.
LEMMA LockOnlyInv ==
    ASSUME MigrationInv, LockOK', UNCHANGED <<donorVars, recipientVars, otherVars>>,
           Moving => holds'[Donor] = holds[Donor]
    PROVE  MigrationInv'
<1>1. ChunkTypeOK' /\ Tasks' /\ (anomalies' = {} => Promised')
  BY SameChunk DEF MigrationInv
<1>2. move' = move /\ config' = config /\ source' = source
  BY DEF donorVars, otherVars
<1>3. Books'
  BY <1>2 DEF MigrationInv, Books, Moving
<1> QED BY <1>1, <1>3 DEF MigrationInv

\* Every step of the lock alone.
LEMMA LockStepInv ==
    ASSUME MigrationInv,
           \/ DonorLocks \/ RivalLocks
           \/ \E p \in Processes : LockOnly(UnlockQueued(p))
           \/ \E p \in Processes : LockOnly(Ping(p)) \/ LockOnly(Age(p))
           \/ LockOnly(ConfigElection)
    PROVE  MigrationInv'
<1>0. LockOK /\ Donor \in Processes /\ Rival \in Processes /\ Donor # Rival
  BY MigrationAssumption DEF MigrationInv
<1>1. UNCHANGED <<donorVars, recipientVars, otherVars>>
  BY DEF DonorLocks, RivalLocks, LockOnly
<1>2. CASE DonorLocks
  <2>1. At("idle") /\ TryLock(Donor)
    BY <1>2 DEF DonorLocks, LockOnly
  <2>2. ~Moving
    BY <2>1 DEF At, Moving
  <2> QED BY <1>0, <1>1, <2>1, <2>2, TryLockOK, LockOnlyInv
<1>3. CASE RivalLocks
  <2>1. TryLock(Rival)
    BY <1>3 DEF RivalLocks, LockOnly
  <2> QED BY <1>0, <1>1, <2>1, TryLockOK, LockOnlyInv
<1>4. ASSUME NEW p \in Processes, LockOnly(UnlockQueued(p))  PROVE MigrationInv'
  BY <1>0, <1>1, <1>4, UnlockQueuedOK, LockOnlyInv DEF LockOnly
<1>5. ASSUME NEW p \in Processes, LockOnly(Ping(p)) \/ LockOnly(Age(p))  PROVE MigrationInv'
  BY <1>0, <1>1, <1>5, ObserveOK, LockOnlyInv DEF LockOnly
<1>6. CASE LockOnly(ConfigElection)
  BY <1>0, <1>1, <1>6, ObserveOK, LockOnlyInv DEF LockOnly
<1> QED BY <1>2, <1>3, <1>4, <1>5, <1>6

-----------------------------------------------------------------------------
(* The writes, and what is taken from their log *)

\* The lock is as before, but for a fault that is counted.
LEMMA LockStays ==
    ASSUME LockOK, UNCHANGED lockVars \/ (Fault /\ UNCHANGED lockDocVars)
    PROVE  LockOK' /\ holds' = holds
<1>1. UNCHANGED <<lock, used, before, holds, forcing, toUnlock, observed>>
  BY DEF lockVars, lockDocVars
<1>2. faults' \in 0 .. MaxFaults
  BY FaultCounted DEF LockOK, LockTypeOK, lockVars
<1> QED BY <1>1, <1>2 DEF LockOK, LockTypeOK

\* The books depend on the lock, the versions and whether an attempt is active.
LEMMA BooksStay ==
    ASSUME Books, holds' = holds, move' = move, config' = config, source'.active = source.active
    PROVE  Books'
BY DEF Books, Moving

\* A client's write is logged while an attempt is active.
LEMMA UpsertInv ==
    ASSUME MigrationInv, NEW d \in Docs, Upsert(d)
    PROVE  MigrationInv'
<1>0. /\ LockOK /\ ChunkTypeOK /\ Books /\ Tasks /\ (anomalies = {} => Promised)
      /\ MaxWrites \in Nat /\ writes \in 0 .. MaxWrites
  BY MigrationAssumption DEF MigrationInv, ChunkTypeOK
<1>1. /\ owns /\ writes < MaxWrites /\ writes' = writes + 1
      /\ docs' = [docs EXCEPT ![d] = writes + 2]
      /\ source' = IF source.active THEN [source EXCEPT !.reload = @ \cup {d}] ELSE source
      /\ UNCHANGED <<lockVars, move, owns, donorHas, recipient, copy, config, request, anomalies>>
  BY DEF Upsert, recipientVars
<1>2. writes + 2 \in 1 .. MaxWrites + 1 /\ writes + 2 # 0 /\ writes' \in 0 .. MaxWrites
  BY <1>0, <1>1, SMTT(30)
<1>3. /\ docs' \in [Docs -> 0 .. MaxWrites + 1] /\ docs'[d] # 0
      /\ \A e \in Docs : e # d => docs'[e] = docs[e]
  BY <1>0, <1>1, <1>2, SMTT(30) DEF ChunkTypeOK
<1>4. /\ source' \in Sources
      /\ source'.active = source.active /\ source'.cloneLocs = source.cloneLocs
      /\ source'.deleted = source.deleted /\ source.reload \subseteq source'.reload
      /\ source.active => d \in source'.reload
  BY <1>0, <1>1 DEF ChunkTypeOK, Sources
<1>5. LockOK' /\ Books'
  BY <1>0, <1>1, <1>4, LockStays, BooksStay
<1>6. ChunkTypeOK' /\ Tasks'
  BY <1>0, <1>1, <1>2, <1>3, <1>4 DEF ChunkTypeOK, Tasks
<1>7. ASSUME anomalies' = {}  PROVE Promised'
  <2>0. Ownership /\ Noted /\ AllPending /\ DifferencePending /\ Commit /\ Landed
    BY <1>0, <1>1, <1>7 DEF Promised
  <2>1. config.owner = "donor" /\ ~Accepted /\ ~At("donated") /\ ~At("awaiting")
    BY <1>0, <1>1, <2>0 DEF Ownership, ChunkTypeOK
  <2>2. Moving => source.active
    BY <1>0 DEF Books
  <2>3. Noted'
    BY <1>3, <1>4, <2>0 DEF Noted
  <2>4. Ownership'
    BY <1>1, <2>0 DEF Ownership, Moving, Accepted, At
  <2>5. AllPending'
    BY <1>1, <1>3, <1>4, <2>0, <2>2 DEF AllPending, Receives, At, Moving
  <2>6. DifferencePending'
    BY <1>1, <1>3, <1>4, <2>0, <2>2 DEF DifferencePending, Pending, Receives, Moving, Cloned
  <2>7. Commit' /\ Landed'
    BY <1>1, <2>0, <2>1 DEF Commit, Landed, Accepted, At
  <2> QED BY <2>3, <2>4, <2>5, <2>6, <2>7 DEF Promised
<1> QED BY <1>5, <1>6, <1>7 DEF MigrationInv

LEMMA DeleteInv ==
    ASSUME MigrationInv, NEW d \in Docs, Delete(d)
    PROVE  MigrationInv'
<1>0. /\ LockOK /\ ChunkTypeOK /\ Books /\ Tasks /\ (anomalies = {} => Promised)
      /\ MaxWrites \in Nat /\ writes \in 0 .. MaxWrites
  BY MigrationAssumption DEF MigrationInv, ChunkTypeOK
<1>1. /\ owns /\ writes < MaxWrites /\ writes' = writes + 1 /\ docs[d] # 0
      /\ docs' = [docs EXCEPT ![d] = 0]
      /\ source' = IF source.active
                   THEN [source EXCEPT !.cloneLocs = @ \ {d}, !.deleted = @ \cup {d}]
                   ELSE source
      /\ UNCHANGED <<lockVars, move, owns, donorHas, recipient, copy, config, request, anomalies>>
  BY DEF Delete, Existing, recipientVars
<1>2. writes' \in 0 .. MaxWrites
  BY <1>0, <1>1, SMTT(30)
<1>3. /\ docs' \in [Docs -> 0 .. MaxWrites + 1] /\ docs'[d] = 0
      /\ \A e \in Docs : e # d => docs'[e] = docs[e]
  BY <1>0, <1>1, SMTT(30) DEF ChunkTypeOK
<1>4. /\ source' \in Sources
      /\ source'.active = source.active /\ source'.reload = source.reload
      /\ source.active => /\ source'.cloneLocs = source.cloneLocs \ {d}
                          /\ source'.deleted = source.deleted \cup {d}
  BY <1>0, <1>1 DEF ChunkTypeOK, Sources
<1>5. LockOK' /\ Books'
  BY <1>0, <1>1, <1>4, LockStays, BooksStay
<1>6. ChunkTypeOK' /\ Tasks'
  BY <1>0, <1>1, <1>2, <1>3, <1>4 DEF ChunkTypeOK, Tasks
<1>7. ASSUME anomalies' = {}  PROVE Promised'
  <2>0. Ownership /\ Noted /\ AllPending /\ DifferencePending /\ Commit /\ Landed
    BY <1>0, <1>1, <1>7 DEF Promised
  <2>1. config.owner = "donor" /\ ~Accepted /\ ~At("donated") /\ ~At("awaiting")
    BY <1>0, <1>1, <2>0 DEF Ownership, ChunkTypeOK
  <2>2. Moving => source.active
    BY <1>0 DEF Books
  <2>3. Noted'
    BY <1>3, <1>4, <2>0, SMTT(30) DEF Noted
  <2>4. Ownership'
    BY <1>1, <2>0 DEF Ownership, Moving, Accepted, At
  <2>5. AllPending'
    BY <1>1, <1>3, <1>4, <2>0, <2>2 DEF AllPending, Receives, At, Moving
  <2>6. DifferencePending'
    BY <1>1, <1>3, <1>4, <2>0, <2>2 DEF DifferencePending, Pending, Receives, Moving, Cloned
  <2>7. Commit' /\ Landed'
    BY <1>1, <2>0, <2>1 DEF Commit, Landed, Accepted, At
  <2> QED BY <2>3, <2>4, <2>5, <2>6, <2>7 DEF Promised
<1> QED BY <1>5, <1>6, <1>7 DEF MigrationInv

\* A delete elsewhere, or a transfer that finds nothing to take.
LEMMA ForeignInv ==
    ASSUME MigrationInv, DeleteForeign \/ StaleTransfer
    PROVE  MigrationInv'
<1>0. LockOK /\ ChunkTypeOK /\ Books /\ Tasks /\ (anomalies = {} => Promised) /\ Foreign \notin Docs
  BY MigrationAssumption DEF MigrationInv
<1>1. /\ Fault /\ UNCHANGED lockDocVars
      /\ UNCHANGED <<move, owns, docs, donorHas, recipient, copy, config, request, writes>>
  BY DEF DeleteForeign, StaleTransfer, recipientVars, otherVars
<1>2. /\ source' \in Sources
      /\ source'.active = source.active
  <2>0. source \in Sources
    BY <1>0 DEF ChunkTypeOK
  <2>1. CASE source' = [source EXCEPT !.deleted = @ \cup {Foreign}]
    BY <2>0, <2>1 DEF Sources
  <2>2. CASE source' = [source EXCEPT !.cloneLocs = {}]
    BY <2>0, <2>2 DEF Sources
  <2>3. CASE source' = [source EXCEPT !.deleted = {}, !.reload = {}]
    BY <2>0, <2>3 DEF Sources
  <2> QED BY <2>1, <2>2, <2>3 DEF DeleteForeign, StaleTransfer
<1>3. anomalies' \in SUBSET Anomalies
  BY <1>0 DEF DeleteForeign, StaleTransfer, Record, otherVars, Anomalies, ChunkTypeOK
<1>4. LockOK' /\ Books'
  BY <1>0, <1>1, <1>2, LockStays, BooksStay
<1>5. ChunkTypeOK' /\ Tasks'
  BY <1>0, <1>1, <1>2, <1>3 DEF ChunkTypeOK, Tasks
<1>6. ASSUME anomalies' = {}  PROVE Promised'
  <2>0. Ownership /\ Noted /\ AllPending /\ DifferencePending /\ Commit /\ Landed
    BY <1>0, <1>6 DEF Promised, DeleteForeign, StaleTransfer, otherVars, Record
  <2>1. /\ source'.cloneLocs = source.cloneLocs /\ source'.reload = source.reload
        /\ source'.deleted \cap Docs = source.deleted \cap Docs
    BY <1>0, <1>6, SMTT(30) DEF ChunkTypeOK, DeleteForeign, StaleTransfer, Record, Sources
  <2>2. Ownership' /\ Noted'
    BY <1>1, <1>2, <2>0, <2>1 DEF Ownership, Noted, Moving, Accepted, At
  <2>3. AllPending' /\ DifferencePending'
    BY <1>1, <2>0, <2>1 DEF AllPending, DifferencePending, Pending, Receives, At, Cloned
  <2>4. Commit' /\ Landed'
    BY <1>1, <2>0 DEF Commit, Landed, Accepted, At
  <2> QED BY <2>2, <2>3, <2>4 DEF Promised
<1> QED BY <1>4, <1>5, <1>6 DEF MigrationInv

-----------------------------------------------------------------------------
(* The donor *)

\* An attempt that ends leaves no promise but the ones about the owner.
LEMMA Stopped ==
    ASSUME Promised, UNCHANGED <<docs, copy, config>>, move'.at \in {"idle", "down"}, source' = NoSource,
           config.owner = "donor" => donorHas', config.owner = "recipient" => ~owns',
           recipient' = recipient \/ config.owner # "recipient"
    PROVE  Promised'
<1>1. ~Moving' /\ ~Receives' /\ ~Accepted' /\ ~source'.active
      /\ \A place \in {"started", "donated", "awaiting", "committed"} : ~At(place)'
  BY DEF Moving, Receives, Accepted, At, NoSource
<1>2. Ownership' /\ Noted'
  BY <1>1 DEF Ownership, Noted
<1>3. AllPending' /\ DifferencePending'
  BY <1>1 DEF AllPending, DifferencePending
<1>4. Commit'
  BY <1>1 DEF Commit, Receives, At
<1>5. Landed'
  BY <1>1 DEF Promised, Landed
<1> QED BY <1>2, <1>3, <1>4, <1>5 DEF Promised

\* The types and the books at the end of an attempt.
LEMMA DoneBooks ==
    ASSUME LockOK, ChunkTypeOK, Books, Moving \/ holds[Donor] # NoSession, Done, config' = config
    PROVE  /\ LockOK' /\ Books'
           /\ move' \in Moves /\ move'.at = "idle"
           /\ source' \in Sources
           /\ source' = NoSource
<1>1. Donor \in Processes /\ holds[Donor] # NoSession
  BY MigrationAssumption DEF Books
<1>2. LockOK'
  BY <1>1, UnlockOK DEF Done
<1>3. move' = [at |-> "idle", version |-> NoVersion] /\ source' = NoSource
  BY DEF Done
<1>4. Books'
  BY <1>3 DEF Books, Moving
<1> QED BY <1>2, <1>3, <1>4 DEF Places, NoSource, Moves, Sources

\* A step of the donor that ends an attempt, with the chunk kept or donated.
LEMMA EndInv ==
    ASSUME MigrationInv, Moving \/ holds[Donor] # NoSession, Done,
           UNCHANGED <<docs, copy, config, request, writes, anomalies>>,
           owns' \in BOOLEAN, donorHas' \in BOOLEAN,
           recipient' \in Recipients,
           Tasks',
           Promised => /\ config.owner = "donor" => donorHas'
                       /\ config.owner = "recipient" => ~owns'
                       /\ recipient' = recipient \/ config.owner # "recipient"
    PROVE  MigrationInv'
<1>0. LockOK /\ ChunkTypeOK /\ Books /\ (anomalies = {} => Promised)
  BY DEF MigrationInv
<1>1. /\ LockOK' /\ Books'
      /\ move' \in Moves /\ move'.at = "idle"
      /\ source' \in Sources
      /\ source' = NoSource
  BY <1>0, DoneBooks
<1>2. ChunkTypeOK'
  BY <1>0, <1>1 DEF ChunkTypeOK
<1>3. Promised => Promised'
  BY <1>1, Stopped
<1> QED BY <1>0, <1>1, <1>2, <1>3 DEF MigrationInv

\* The donor proceeds to another place of the same attempt.
LEMMA GoBooks ==
    ASSUME LockOK, ChunkTypeOK, Books, Moving, NEW place \in Places, Go(place),
           UNCHANGED <<lockVars, source, config>>
    PROVE  /\ LockOK' /\ Books' /\ move'.at = place
           /\ move' \in Moves
<1>1. LockOK' /\ holds' = holds
  BY LockStays
<1>2. /\ move' \in Moves
      /\ move'.at = place /\ move'.version = move.version
  BY DEF Go, ChunkTypeOK, Moves
<1>3. Books'
  BY <1>1, <1>2 DEF Books
<1> QED BY <1>1, <1>2, <1>3

\* moveChunk with the lock in hand.
LEMMA StartMoveInv ==
    ASSUME MigrationInv, StartMove
    PROVE  MigrationInv'
<1>0. LockOK /\ ChunkTypeOK /\ Books /\ Tasks /\ (anomalies = {} => Promised)
  BY DEF MigrationInv
<1>1. /\ At("idle") /\ holds[Donor] # NoSession /\ owns' = (config.owner = "donor")
      /\ UNCHANGED <<docs, donorHas, recipient, copy, config, request, writes, anomalies>>
  BY DEF StartMove, recipientVars, otherVars
<1>2. Tasks' /\ owns' \in BOOLEAN
  BY <1>0, <1>1 DEF Tasks
<1>3. CASE config.owner = "donor"
  <2>1. /\ move' = [at |-> "started", version |-> config.version]
        /\ source' = [NoSource EXCEPT !.active = TRUE, !.cloneLocs = Existing]
        /\ UNCHANGED lockVars
    BY <1>1, <1>3 DEF StartMove
  <2>2. config.version \in Versions
    BY <1>0, <1>3 DEF Books
  <2>3. /\ source' \in Sources
        /\ source'.active /\ source'.cloneLocs = Existing /\ source'.deleted = {}
    BY <2>1 DEF NoSource, Existing, Sources
  <2>4. move' \in Moves
        /\ move'.at = "started" /\ move'.version \in Versions
    BY <2>1, <2>2 DEF Places, Moves
  <2>5. LockOK' /\ Books'
    BY <1>0, <1>1, <1>3, <2>1, <2>2, <2>3, <2>4, LockStays DEF Books
  <2>6. ChunkTypeOK'
    BY <1>0, <1>1, <1>2, <2>3, <2>4 DEF ChunkTypeOK
  <2>7. ASSUME Promised  PROVE Promised'
    <3>1. Ownership' /\ Noted'
      BY <1>1, <1>3, <2>3, <2>4, <2>7 DEF Promised, Ownership, Noted, Accepted, At
    <3>2. AllPending' /\ DifferencePending'
      BY <1>1, <2>3, <2>4 DEF AllPending, DifferencePending, Existing, Receives
    <3>3. Commit' /\ Landed'
      BY <1>1, <1>3, <2>4 DEF Commit, Landed, Accepted, At
    <3> QED BY <3>1, <3>2, <3>3 DEF Promised
  <2> QED BY <1>0, <1>1, <1>2, <2>5, <2>6, <2>7 DEF MigrationInv
<1>4. CASE config.owner # "donor"
  <2>1. ~owns' /\ Done
    BY <1>1, <1>4 DEF StartMove
  <2> QED BY <1>0, <1>1, <1>2, <1>4, <2>1, EndInv DEF ChunkTypeOK
<1> QED BY <1>3, <1>4

\* The types of what the recipient is told to start with.
LEMMA ReceivingType ==
    /\ Receiving \in Recipients
    /\ Receiving.active /\ Receiving.ours /\ Receiving.thread = "prepare" /\ Receiving.state = "READY"
    /\ ~Receiving.afterCommit
BY DEF Receiving, Inactive, States, Threads, Recipients

\* _recvChunkStart, and every way it may fail.
LEMMA SendStartInv ==
    ASSUME MigrationInv, SendStart
    PROVE  MigrationInv'
<1>0. LockOK /\ ChunkTypeOK /\ Books /\ Tasks /\ (anomalies = {} => Promised)
  BY DEF MigrationInv
<1>1. At("started") /\ Moving /\ UNCHANGED <<copy, config, request, writes, anomalies>>
  BY DEF SendStart, otherVars, At, Moving
<1>2. Promised => config.owner = "donor" /\ donorHas
  BY <1>0, <1>1 DEF Promised, Ownership, At, ChunkTypeOK
<1>3. recipient' = Receiving => Tasks'
  BY ReceivingType DEF Tasks
<1>4. recipient' = recipient => Tasks'
  BY <1>0 DEF Tasks
<1>5. CASE GiveUp /\ (recipient' = recipient \/ recipient' = Receiving)
  <2>1. Done /\ UNCHANGED <<owns, docs, donorHas>>
    BY <1>5 DEF GiveUp
  <2>2. recipient' \in Recipients
    BY <1>0, <1>5, ReceivingType DEF ChunkTypeOK
  <2>3. owns' \in BOOLEAN /\ donorHas' \in BOOLEAN
    BY <1>0, <2>1 DEF ChunkTypeOK
  <2> QED BY <1>1, <1>2, <1>3, <1>4, <1>5, <2>1, <2>2, <2>3, EndInv
<1>6. CASE recipient' = Receiving /\ Go("polling") /\ UNCHANGED <<lockVars, owns, docs, donorHas, source>>
  <2>1. /\ LockOK' /\ Books' /\ move'.at = "polling"
        /\ move' \in Moves
    BY <1>0, <1>1, <1>6, GoBooks DEF Places
  <2>2. ChunkTypeOK'
    BY <1>0, <1>1, <1>6, <2>1, ReceivingType DEF ChunkTypeOK
  <2>3. ASSUME Promised  PROVE Promised'
    <3>1. Ownership' /\ Noted'
      BY <1>1, <1>2, <1>6, <2>1, <2>3 DEF Promised, Ownership, Noted, Accepted, At
    <3>2. AllPending' /\ DifferencePending'
      BY <1>1, <1>6, <2>1, <2>3, ReceivingType DEF Promised, AllPending, DifferencePending, Receives, At
    <3>3. Commit' /\ Landed'
      BY <1>1, <1>2, <1>6, <2>1, <2>3, ReceivingType DEF Commit, Landed, Accepted, At
    <3> QED BY <3>1, <3>2, <3>3 DEF Promised
  <2> QED BY <1>0, <1>1, <1>3, <1>6, <2>1, <2>2, <2>3 DEF MigrationInv
<1> QED BY <1>5, <1>6 DEF SendStart

\* The donor gives up while it keeps what it has.
LEMMA GiveUpInv ==
    ASSUME MigrationInv, Moving, GiveUp, UNCHANGED <<recipientVars, otherVars>>
    PROVE  MigrationInv'
<1>0. ChunkTypeOK /\ Tasks
  BY DEF MigrationInv
<1>1. /\ Done /\ UNCHANGED <<owns, docs, donorHas, recipient, copy, config, request, writes, anomalies>>
  BY DEF GiveUp, recipientVars, otherVars
<1>2. Tasks' /\ owns' \in BOOLEAN /\ donorHas' \in BOOLEAN
  BY <1>0, <1>1 DEF Tasks, ChunkTypeOK
<1>3. recipient' \in Recipients
  BY <1>0, <1>1 DEF ChunkTypeOK
<1>4. Promised => /\ config.owner = "donor" => donorHas'
                  /\ config.owner = "recipient" => ~owns'
  BY <1>1 DEF Promised, Ownership
<1> QED BY <1>1, <1>2, <1>3, <1>4, EndInv

\* The donor takes the chunk back: the config servers have not been asked yet.
LEMMA UndoInv ==
    ASSUME MigrationInv, move.at \in {"donated", "awaiting", "accepted"}, UndoDonateChunk,
           recipient' = recipient \/ recipient' = [recipient EXCEPT !.state = "FAIL"],
           UNCHANGED <<copy, otherVars>>
    PROVE  MigrationInv'
<1>0. ChunkTypeOK /\ Tasks
  BY DEF MigrationInv
<1>1. /\ Done /\ owns' = TRUE /\ UNCHANGED <<docs, donorHas, copy, config, request, writes, anomalies>>
  BY DEF UndoDonateChunk, otherVars
<1>2. recipient' \in Recipients
  BY <1>0 DEF ChunkTypeOK, States, Recipients
<1>3. Tasks'
  <2>1. CASE recipient' = recipient
    BY <1>0, <2>1 DEF Tasks
  <2>2. CASE recipient' = [recipient EXCEPT !.state = "FAIL"]
    <3>1. /\ recipient'.state = "FAIL" /\ recipient'.active = recipient.active
          /\ recipient'.thread = recipient.thread /\ recipient'.ours = recipient.ours
      BY <1>0, <2>2, SMTT(30) DEF ChunkTypeOK
    <3> QED BY <1>0, <3>1 DEF Tasks
  <2> QED BY <2>1, <2>2
<1>4. Moving /\ donorHas' \in BOOLEAN
  BY <1>0, <1>1 DEF Moving, ChunkTypeOK
<1>5. Promised => config.owner # "recipient" /\ (config.owner = "donor" => donorHas')
  BY <1>1, <1>4 DEF Promised, Ownership
<1> QED BY <1>1, <1>2, <1>3, <1>4, <1>5, EndInv

\* The donor finds the recipient steady, or gives up.
LEMMA PollInv ==
    ASSUME MigrationInv, Poll
    PROVE  MigrationInv'
<1>0. LockOK /\ ChunkTypeOK /\ Books /\ Tasks /\ (anomalies = {} => Promised)
  BY DEF MigrationInv
<1>1. At("polling") /\ Moving /\ UNCHANGED <<recipientVars, otherVars>>
  BY DEF Poll, At, Moving
<1>2. CASE Go("checked") /\ UNCHANGED <<lockVars, owns, docs, donorHas, source>>
  <2>0. UNCHANGED <<recipient, copy, config, request, writes, anomalies>>
    BY <1>1 DEF recipientVars, otherVars
  <2>1. /\ LockOK' /\ Books' /\ move'.at = "checked"
        /\ move' \in Moves
    BY <1>0, <1>1, <1>2, <2>0, GoBooks DEF Places
  <2>2. ChunkTypeOK' /\ Tasks'
    BY <1>0, <1>2, <2>0, <2>1 DEF ChunkTypeOK, Tasks
  <2>3. ASSUME Promised  PROVE Promised'
    <3>1. Ownership' /\ Noted'
      BY <1>1, <1>2, <2>0, <2>1, <2>3 DEF Promised, Ownership, Noted, Accepted, At, Moving
    <3>2. AllPending' /\ DifferencePending'
      BY <1>1, <1>2, <2>0, <2>1, <2>3 DEF Promised, AllPending, DifferencePending, Pending,
         Receives, At, Cloned
    <3>3. Commit' /\ Landed'
      BY <1>1, <1>2, <2>0, <2>1, <2>3 DEF Promised, Commit, Landed, Accepted, At
    <3> QED BY <3>1, <3>2, <3>3 DEF Promised
  <2> QED BY <1>0, <2>0, <2>1, <2>2, <2>3 DEF MigrationInv
<1>3. CASE GiveUp
  BY <1>1, <1>3, GiveUpInv
<1> QED BY <1>2, <1>3 DEF Poll

\* donateChunk.
LEMMA DonateChunkInv ==
    ASSUME MigrationInv, DonateChunk
    PROVE  MigrationInv'
<1>0. LockOK /\ ChunkTypeOK /\ Books /\ Tasks /\ (anomalies = {} => Promised)
  BY DEF MigrationInv
<1>1. At("checked") /\ Moving /\ UNCHANGED <<recipientVars, otherVars>>
  BY DEF DonateChunk, At, Moving
<1>2. CASE owns' = FALSE /\ Go("donated") /\ UNCHANGED <<lockVars, docs, donorHas, source>>
  <2>0. UNCHANGED <<recipient, copy, config, request, writes, anomalies>>
    BY <1>1 DEF recipientVars, otherVars
  <2>1. /\ LockOK' /\ Books' /\ move'.at = "donated"
        /\ move' \in Moves
    BY <1>0, <1>1, <1>2, <2>0, GoBooks DEF Places
  <2>2. ChunkTypeOK' /\ Tasks'
    BY <1>0, <1>2, <2>0, <2>1 DEF ChunkTypeOK, Tasks
  <2>3. ASSUME Promised  PROVE Promised'
    <3>1. Ownership' /\ Noted'
      BY <1>1, <1>2, <2>0, <2>1, <2>3 DEF Promised, Ownership, Noted, Accepted, At, Moving
    <3>2. AllPending' /\ DifferencePending'
      BY <1>1, <1>2, <2>0, <2>1, <2>3 DEF Promised, AllPending, DifferencePending, Pending,
         Receives, At, Cloned
    <3>3. Commit' /\ Landed'
      BY <1>1, <1>2, <2>0, <2>1, <2>3 DEF Promised, Commit, Landed, Accepted, At
    <3> QED BY <3>1, <3>2, <3>3 DEF Promised
  <2> QED BY <1>0, <2>0, <2>1, <2>2, <2>3 DEF MigrationInv
<1>3. CASE GiveUp
  BY <1>1, <1>3, GiveUpInv
<1> QED BY <1>2, <1>3 DEF DonateChunk

\* startCommit: the commit message finds the recipient steady, or is refused.
LEMMA StartCommitInv ==
    ASSUME MigrationInv, StartCommit
    PROVE  MigrationInv'
<1>0. LockOK /\ ChunkTypeOK /\ Books /\ Tasks /\ (anomalies = {} => Promised)
  BY DEF MigrationInv
<1>1. At("donated") /\ Moving /\ UNCHANGED <<copy, config, request, writes>>
  BY DEF StartCommit, At, Moving
<1>2. CASE recipient.state = "STEADY"
  <2>0. /\ recipient' = [recipient EXCEPT !.state = "COMMIT_START"]
        /\ anomalies' = IF ~recipient.ours THEN anomalies \cup {"wrongCommit"} ELSE anomalies
        /\ Go("awaiting") /\ UNCHANGED <<lockVars, owns, docs, donorHas, source>>
    BY <1>2 DEF StartCommit, Record
  <2>1. /\ LockOK' /\ Books' /\ move'.at = "awaiting"
        /\ move' \in Moves
    BY <1>0, <1>1, <2>0, GoBooks DEF Places
  <2>2. /\ recipient' \in Recipients
        /\ recipient'.state = "COMMIT_START" /\ recipient'.active = recipient.active
        /\ recipient'.thread = recipient.thread /\ recipient'.ours = recipient.ours
        /\ recipient'.afterCommit = recipient.afterCommit
    BY <1>0, <2>0 DEF ChunkTypeOK, States, Recipients
  <2>3. anomalies' \in SUBSET Anomalies
    BY <1>0, <2>0 DEF ChunkTypeOK, Anomalies
  <2>4. ChunkTypeOK' /\ Tasks'
    BY <1>0, <1>1, <1>2, <2>0, <2>1, <2>2, <2>3 DEF ChunkTypeOK, Tasks
  <2>5. ASSUME anomalies' = {}  PROVE Promised'
    <3>0. Promised /\ recipient.ours
      BY <1>0, <2>0, <2>5
    <3>1. Ownership' /\ Noted'
      BY <1>1, <2>0, <2>1, <3>0 DEF Promised, Ownership, Noted, Accepted, At, Moving
    <3>2. AllPending' /\ DifferencePending'
      BY <1>1, <2>0, <2>1, <2>2, <3>0 DEF Promised, AllPending, DifferencePending, Pending,
         Receives, At, Cloned
    <3>3. ~recipient.afterCommit /\ recipient.thread # "leaving"
      BY <1>0, <1>1, <1>2, <3>0 DEF Promised, Commit, At, Tasks
    <3>4. Commit'
      BY <2>1, <2>2, <3>3 DEF Commit, At
    <3>5. Landed'
      BY <1>1, <2>0, <2>1, <3>0 DEF Promised, Ownership, Landed, Accepted, At, Moving
    <3> QED BY <3>1, <3>2, <3>4, <3>5 DEF Promised
  <2> QED BY <2>1, <2>4, <2>5 DEF MigrationInv
<1>3. CASE recipient.state # "STEADY"
  <2>1. UndoDonateChunk /\ UNCHANGED <<recipient, copy, otherVars>>
    BY <1>3 DEF StartCommit, otherVars
  <2> QED BY <1>1, <2>1, UndoInv DEF At
<1> QED BY <1>2, <1>3

\* Its answer: the recipient is done, or has failed.
LEMMA CommitAnswerInv ==
    ASSUME MigrationInv, CommitAnswer
    PROVE  MigrationInv'
<1>0. LockOK /\ ChunkTypeOK /\ Books /\ Tasks /\ (anomalies = {} => Promised)
  BY DEF MigrationInv
<1>1. /\ At("awaiting") /\ Moving /\ ~recipient.active
      /\ UNCHANGED <<recipient, copy, config, request, writes>>
  BY DEF CommitAnswer, At, Moving, recipientVars
<1>2. CASE recipient.state = "DONE"
  <2>0. /\ anomalies' = IF ~recipient.ours THEN anomalies \cup {"wrongCommit"} ELSE anomalies
        /\ Go("accepted") /\ UNCHANGED <<lockVars, owns, docs, donorHas, source>>
    BY <1>2 DEF CommitAnswer, Record
  <2>1. /\ LockOK' /\ Books' /\ move'.at = "accepted"
        /\ move' \in Moves
    BY <1>0, <1>1, <2>0, GoBooks DEF Places
  <2>2. anomalies' \in SUBSET Anomalies
    BY <1>0, <2>0 DEF ChunkTypeOK, Anomalies
  <2>3. ChunkTypeOK' /\ Tasks'
    BY <1>0, <1>1, <2>0, <2>1, <2>2 DEF ChunkTypeOK, Tasks
  <2>4. ASSUME anomalies' = {}  PROVE Promised'
    <3>0. Promised /\ recipient.ours
      BY <1>0, <2>0, <2>4
    <3>1. Ownership' /\ Noted'
      BY <1>1, <2>0, <2>1, <3>0 DEF Promised, Ownership, Noted, Accepted, At, Moving
    <3>2. AllPending' /\ DifferencePending' /\ Commit'
      BY <2>1 DEF AllPending, DifferencePending, Pending, Commit, Receives, At
    <3>3. Landed'
      BY <1>1, <1>2, <2>0, <3>0 DEF Promised, Commit, Landed, At
    <3> QED BY <3>1, <3>2, <3>3 DEF Promised
  <2> QED BY <2>1, <2>3, <2>4 DEF MigrationInv
<1>3. CASE recipient.state # "DONE"
  <2>1. UndoDonateChunk /\ UNCHANGED <<recipient, copy, otherVars>>
    BY <1>1, <1>3 DEF CommitAnswer, otherVars
  <2> QED BY <1>1, <2>1, UndoInv DEF At
<1> QED BY <1>2, <1>3

\* No answer.
LEMMA CommitFailsInv ==
    ASSUME MigrationInv, CommitFails
    PROVE  MigrationInv'
<1>1. /\ move.at \in {"donated", "awaiting", "accepted"} /\ UndoDonateChunk
      /\ recipient' = recipient \/ recipient' = [recipient EXCEPT !.state = "FAIL"]
      /\ UNCHANGED <<copy, otherVars>>
  BY DEF CommitFails, At
<1> QED BY <1>1, UndoInv

\* From the recipient's answer on, the promise is about the owner alone.
LEMMA StillAccepted ==
    ASSUME Promised, Accepted, Accepted', UNCHANGED <<owns, docs, donorHas, source, recipient, copy>>,
           At("committed")' => config'.owner = "recipient",
           config'.owner = "recipient" => move'.at \in {"confirming", "committed"},
           config'.owner = "donor" => config.owner = "donor"
    PROVE  Promised'
<1>1. Ownership' /\ Noted'
  BY DEF Promised, Ownership, Noted
<1>2. AllPending' /\ DifferencePending' /\ Commit'
  BY DEF AllPending, DifferencePending, Pending, Commit, Receives, Accepted, At
<1>3. Landed'
  BY DEF Promised, Landed
<1> QED BY <1>1, <1>2, <1>3 DEF Promised

\* The donor asks the config servers, or takes the chunk back.
LEMMA SendApplyOpsInv ==
    ASSUME MigrationInv, SendApplyOps
    PROVE  MigrationInv'
<1>0. LockOK /\ ChunkTypeOK /\ Books /\ Tasks /\ (anomalies = {} => Promised)
  BY DEF MigrationInv
<1>1. At("accepted") /\ Moving /\ Accepted /\ UNCHANGED <<recipient, copy, config, writes, anomalies>>
  BY DEF SendApplyOps, At, Moving, Accepted, recipientVars
<1>2. CASE /\ request' = move.version /\ Go("applying")
           /\ UNCHANGED <<lockVars, owns, docs, donorHas, source>>
  <2>1. /\ LockOK' /\ Books' /\ move'.at = "applying"
        /\ move' \in Moves
    BY <1>0, <1>1, <1>2, GoBooks DEF Places
  <2>2. ChunkTypeOK' /\ Tasks'
    BY <1>0, <1>1, <1>2, <2>1 DEF ChunkTypeOK, Tasks, Books
  <2>3. ASSUME Promised  PROVE Promised'
    <3>1. config.owner # "recipient"
      BY <1>1, <2>3 DEF Promised, Ownership, At
    <3> QED BY <1>1, <1>2, <2>1, <2>3, <3>1, StillAccepted DEF Accepted, At
  <2> QED BY <1>0, <1>1, <2>1, <2>2, <2>3 DEF MigrationInv
<1>3. CASE UndoDonateChunk /\ UNCHANGED request
  <2>1. UNCHANGED <<recipient, copy, otherVars>>
    BY <1>1, <1>3 DEF otherVars
  <2> QED BY <1>1, <1>3, <2>1, UndoInv DEF At
<1> QED BY <1>2, <1>3 DEF SendApplyOps

\* The donor waits no more.
LEMMA ApplyOpsFailsInv ==
    ASSUME MigrationInv, ApplyOpsFails
    PROVE  MigrationInv'
<1>0. LockOK /\ ChunkTypeOK /\ Books /\ Tasks /\ (anomalies = {} => Promised)
  BY DEF MigrationInv
<1>1. /\ At("applying") /\ Moving /\ Accepted /\ Go("confirming") /\ request' \in {request, NoVersion}
      /\ UNCHANGED <<lockVars, owns, docs, donorHas, source, recipient, copy, config, writes, anomalies>>
  BY DEF ApplyOpsFails, At, Moving, Accepted, recipientVars
<1>2. /\ LockOK' /\ Books' /\ move'.at = "confirming"
      /\ move' \in Moves
  BY <1>0, <1>1, GoBooks DEF Places
<1>3. ChunkTypeOK' /\ Tasks'
  BY <1>0, <1>1, <1>2 DEF ChunkTypeOK, Tasks
<1>4. Promised => Promised'
  BY <1>1, <1>2, StillAccepted DEF Accepted, At
<1> QED BY <1>0, <1>1, <1>2, <1>3, <1>4 DEF MigrationInv

\* The config servers execute an applyOps, for a donor that waits or does not.
LEMMA ApplyOpsInv ==
    ASSUME MigrationInv, ApplyOps
    PROVE  MigrationInv'
<1>0. LockOK /\ ChunkTypeOK /\ Books /\ Tasks /\ (anomalies = {} => Promised)
  BY DEF MigrationInv
<1>1. /\ request \in Versions /\ request' = NoVersion
      /\ UNCHANGED <<lockVars, owns, docs, donorHas, source, recipient, copy, writes>>
  BY <1>0 DEF ApplyOps, recipientVars, ChunkTypeOK
<1>2. LockOK' /\ holds' = holds
  BY <1>0, <1>1, LockStays
<1>3. /\ move' \in Moves
      /\ move'.version = move.version /\ (Moving' <=> Moving)
      /\ At("applying") => move'.at \in {"confirming", "committed"}
      /\ ~At("applying") => move'.at = move.at
  <2>1. /\ ~At("applying") => move' = move
        /\ At("applying") => \/ move' = [move EXCEPT !.at = "committed"]
                             \/ move' = [move EXCEPT !.at = "confirming"]
    BY DEF ApplyOps, Go
  <2> QED BY <1>0, <2>1 DEF ChunkTypeOK, Places, At, Moving, Moves
<1>4. CASE VersionAsRead
  <2>1. /\ config' = [owner |-> "recipient", version |-> request + 1]
        /\ anomalies' = IF ~(At("applying") \/ At("confirming")) THEN anomalies \cup {"lateCommit"}
                        ELSE anomalies
    BY <1>4 DEF ApplyOps, Record
  <2>2. config' \in [owner : {"donor", "recipient"}, version : 1 .. MaxVersion + 1]
        /\ config'.owner = "recipient"
    BY <1>1, <2>1, MigrationAssumption, SMTT(30) DEF Versions
  <2>3. anomalies' \in SUBSET Anomalies
    BY <1>0, <2>1 DEF ChunkTypeOK, Anomalies
  <2>4. ChunkTypeOK' /\ Tasks'
    BY <1>0, <1>1, <1>3, <2>2, <2>3 DEF ChunkTypeOK, Tasks
  <2>5. Books'
    BY <1>0, <1>1, <1>2, <1>3, <2>2 DEF Books
  <2>6. ASSUME anomalies' = {}  PROVE Promised'
    <3>1. Promised /\ (At("applying") \/ At("confirming"))
      BY <1>0, <2>1, <2>6
    <3>2. Accepted /\ Accepted' /\ move'.at \in {"confirming", "committed"}
      BY <1>3, <3>1 DEF Accepted, At
    <3> QED BY <1>1, <2>2, <3>1, <3>2, StillAccepted
  <2> QED BY <1>2, <2>4, <2>5, <2>6 DEF MigrationInv
<1>5. CASE ~VersionAsRead
  <2>1. /\ UNCHANGED <<config, anomalies>>
        /\ At("applying") => move'.at = "confirming"
        /\ ~At("applying") => move' = move
    BY <1>0, <1>5 DEF ApplyOps, Go, ChunkTypeOK, Moves
  <2>2. ChunkTypeOK' /\ Tasks'
    BY <1>0, <1>1, <1>3, <2>1 DEF ChunkTypeOK, Tasks
  <2>3. Books'
    BY <1>0, <1>1, <1>2, <1>3, <2>1 DEF Books
  <2>4. ASSUME Promised  PROVE Promised'
    <3>1. CASE At("applying")
      BY <1>1, <2>1, <2>4, <3>1, StillAccepted DEF Accepted, At
    <3>2. CASE ~At("applying")
      BY <1>1, <2>1, <2>4, <3>2, SMTT(30) DEF Promised, Ownership, Noted, AllPending, DifferencePending, Pending, Commit,
         Landed, Moving, Receives, Accepted, At
    <3> QED BY <3>1, <3>2
  <2> QED BY <1>0, <1>2, <2>1, <2>2, <2>3, <2>4 DEF MigrationInv
<1> QED BY <1>4, <1>5

\* The donor's process ends.
LEMMA ExitInv ==
    ASSUME MigrationInv, Exit, faults' \in 0 .. MaxFaults,
           UNCHANGED <<recipient, copy, config, request, writes, anomalies>>
    PROVE  MigrationInv'
<1>0. LockOK /\ ChunkTypeOK /\ Books /\ Tasks /\ (anomalies = {} => Promised) /\ Donor \in Processes
  BY MigrationAssumption DEF MigrationInv
<1>1. /\ move' = [at |-> "down", version |-> NoVersion] /\ source' = NoSource
      /\ LoseProcess(Donor) /\ UNCHANGED <<owns, docs, donorHas>>
  BY DEF Exit
<1>2. LockOK'
  BY <1>0, <1>1, LoseProcessOK
<1>3. Books'
  BY <1>0, <1>1 DEF Books, Moving
<1>4. /\ move' \in Moves
      /\ source' \in Sources
  BY <1>1 DEF Places, NoSource, Moves, Sources
<1>5. ChunkTypeOK' /\ Tasks'
  BY <1>0, <1>1, <1>4 DEF ChunkTypeOK, Tasks
<1>6. ASSUME Promised  PROVE Promised'
  <2>1. /\ config.owner = "donor" => donorHas'
        /\ config.owner = "recipient" => ~owns'
    BY <1>1, <1>6 DEF Promised, Ownership
  <2> QED BY <1>1, <1>6, <2>1, Stopped
<1> QED BY <1>0, <1>2, <1>3, <1>5, <1>6 DEF MigrationInv

\* The donor reads whether the commit made it.
LEMMA ConfirmCommitInv ==
    ASSUME MigrationInv, ConfirmCommit
    PROVE  MigrationInv'
<1>0. LockOK /\ ChunkTypeOK /\ Books /\ Tasks /\ (anomalies = {} => Promised)
  BY DEF MigrationInv
<1>1. At("confirming") /\ Moving /\ Accepted /\ UNCHANGED <<recipient, copy, config, request, writes>>
  BY DEF ConfirmCommit, At, Moving, Accepted, recipientVars
<1>2. CASE /\ Go("committed") /\ Record(config.owner = "donor", "mistakenCommit")
           /\ UNCHANGED <<lockVars, owns, docs, donorHas, source>>
  <2>1. /\ LockOK' /\ Books' /\ move'.at = "committed"
        /\ move' \in Moves
    BY <1>0, <1>1, <1>2, GoBooks DEF Places
  <2>2. anomalies' \in SUBSET Anomalies
    BY <1>0, <1>2 DEF ChunkTypeOK, Anomalies, Record
  <2>3. ChunkTypeOK' /\ Tasks'
    BY <1>0, <1>1, <1>2, <2>1, <2>2 DEF ChunkTypeOK, Tasks
  <2>4. ASSUME anomalies' = {}  PROVE Promised'
    <3>1. Promised /\ config.owner = "recipient"
      BY <1>0, <1>2, <2>4 DEF Record, ChunkTypeOK
    <3> QED BY <1>1, <1>2, <2>1, <3>1, StillAccepted DEF Accepted
  <2> QED BY <2>1, <2>3, <2>4 DEF MigrationInv
<1>3. CASE Exit /\ UNCHANGED <<anomalies, faults>>
  BY <1>0, <1>1, <1>3, ExitInv DEF LockOK, LockTypeOK
<1> QED BY <1>2, <1>3 DEF ConfirmCommit

\* The donor deletes its documents.
LEMMA CommittedInv ==
    ASSUME MigrationInv, Committed
    PROVE  MigrationInv'
<1>0. ChunkTypeOK /\ Tasks
  BY DEF MigrationInv
<1>1. /\ At("committed") /\ Moving /\ donorHas' = FALSE /\ Done
      /\ UNCHANGED <<owns, docs, recipient, copy, config, request, writes, anomalies>>
  BY DEF Committed, At, Moving, recipientVars, otherVars
<1>2. Tasks' /\ owns' \in BOOLEAN /\ donorHas' \in BOOLEAN
  BY <1>0, <1>1 DEF Tasks, ChunkTypeOK
<1>3. recipient' \in Recipients
  BY <1>0, <1>1 DEF ChunkTypeOK
<1>4. Promised => config.owner = "recipient" /\ ~owns'
  BY <1>1 DEF Promised, Ownership
<1> QED BY <1>1, <1>2, <1>3, <1>4, EndInv

\* A crash, and the process that comes back.
LEMMA CrashRestartInv ==
    ASSUME MigrationInv, Crash \/ Restart
    PROVE  MigrationInv'
<1>0. LockOK /\ ChunkTypeOK /\ Books /\ Tasks /\ (anomalies = {} => Promised)
  BY DEF MigrationInv
<1>1. CASE Crash
  <2>1. /\ Fault /\ Exit /\ UNCHANGED <<recipient, copy, config, request, writes, anomalies>>
    BY <1>1 DEF Crash, recipientVars
  <2> QED BY <1>0, <2>1, FaultCounted, ExitInv DEF LockOK, LockTypeOK
<1>2. CASE Restart
  <2>1. /\ At("down") /\ Go("idle") /\ owns' = (config.owner = "donor")
        /\ UNCHANGED <<lockVars, docs, donorHas, source, recipient, copy, config, request, writes, anomalies>>
    BY <1>2 DEF Restart, recipientVars, otherVars
  <2>2. move' \in Moves /\ move'.at = "idle"
    BY <1>0, <2>1 DEF Go, ChunkTypeOK, Places, Moves
  <2>3. LockOK' /\ Books'
    BY <1>0, <2>1, <2>2, LockStays DEF Books, Moving
  <2>4. ChunkTypeOK' /\ Tasks'
    BY <1>0, <2>1, <2>2 DEF ChunkTypeOK, Tasks
  <2>5. ASSUME Promised  PROVE Promised'
    <3>1. Ownership' /\ Noted'
      BY <2>1, <2>2, <2>5 DEF Promised, Ownership, Noted, Moving, Accepted, At
    <3>2. AllPending' /\ DifferencePending' /\ Commit'
      BY <2>2 DEF AllPending, DifferencePending, Pending, Commit, Receives, At
    <3>3. Landed'
      BY <2>1, <2>2, <2>5 DEF Promised, Landed, Accepted
    <3> QED BY <3>1, <3>2, <3>3 DEF Promised
  <2> QED BY <1>0, <2>1, <2>3, <2>4, <2>5 DEF MigrationInv
<1> QED BY <1>1, <1>2

-----------------------------------------------------------------------------
(* The recipient *)

\* A step of the recipient is judged by what it has received.
LEMMA RecipientFrame ==
    ASSUME MigrationInv, LockOK', holds' = holds,
           UNCHANGED <<move, owns, docs, donorHas, config, request, writes>>,
           recipient' \in Recipients,
           copy' \in [Docs -> 0 .. MaxWrites + 1],
           source' \in Sources,
           source'.active = source.active,
           anomalies' \in SUBSET Anomalies, anomalies \subseteq anomalies', Tasks',
           anomalies' = {} => Noted' /\ AllPending' /\ DifferencePending' /\ Commit' /\ Landed'
    PROVE  MigrationInv'
<1>0. ChunkTypeOK /\ Books /\ (anomalies = {} => Promised)
  BY DEF MigrationInv
<1>1. ChunkTypeOK'
  BY <1>0 DEF ChunkTypeOK
<1>2. Books'
  BY <1>0, BooksStay
<1>3. ASSUME anomalies' = {}  PROVE Promised'
  <2>1. Ownership
    BY <1>0, <1>3 DEF Promised
  <2>2. Ownership'
    BY <2>1 DEF Ownership, Moving, Accepted, At
  <2> QED BY <1>3, <2>2 DEF Promised
<1> QED BY <1>1, <1>2, <1>3 DEF MigrationInv

\* Most steps change the recipient's own state only.
LEMMA RecipientOnly ==
    ASSUME MigrationInv, LockOK', holds' = holds, UNCHANGED <<donorVars, copy, config, request, writes>>,
           recipient' \in Recipients,
           anomalies' \in SUBSET Anomalies, anomalies \subseteq anomalies', Tasks',
           anomalies' = {} =>
              /\ recipient'.ours /\ recipient'.active =>
                    /\ recipient.ours /\ recipient.active /\ recipient'.thread # "prepare"
                    /\ recipient.thread # "prepare"
                    /\ recipient'.thread \in Cloned => recipient.thread \in Cloned
              /\ Commit' /\ Landed'
    PROVE  MigrationInv'
<1>0. ChunkTypeOK /\ (anomalies = {} => Promised)
  BY DEF MigrationInv
<1>1. UNCHANGED <<move, owns, docs, donorHas, source>>
  BY DEF donorVars
<1>2. ASSUME anomalies' = {}  PROVE Noted' /\ AllPending' /\ DifferencePending' /\ Commit' /\ Landed'
  <2>1. Noted /\ AllPending /\ DifferencePending
    BY <1>0, <1>2 DEF Promised
  <2>2. Noted'
    BY <1>1, <2>1 DEF Noted
  <2>3. AllPending'
    BY <1>1, <1>2, <2>1 DEF AllPending, Receives, At
  <2>4. DifferencePending'
    BY <1>1, <1>2, <2>1 DEF DifferencePending, Pending, Receives
  <2> QED BY <1>2, <2>2, <2>3, <2>4
<1>3. /\ copy' \in [Docs -> 0 .. MaxWrites + 1]
      /\ source' \in Sources
      /\ source'.active = source.active
  BY <1>0, <1>1 DEF ChunkTypeOK
<1> QED BY <1>1, <1>2, <1>3, RecipientFrame

\* The loop that waits for the commit.
LEMMA BeginTransferInv ==
    ASSUME MigrationInv, BeginTransfer
    PROVE  MigrationInv'
<1>0. LockOK /\ ChunkTypeOK /\ Tasks /\ (anomalies = {} => Promised)
  BY DEF MigrationInv
<1>1. /\ recipient.active /\ recipient.thread = "steady" /\ UNCHANGED lockVars
      /\ UNCHANGED <<donorVars, copy, config, request, writes, anomalies>>
  BY DEF BeginTransfer, Thread, otherVars
<1>2. recipient.ours
  BY <1>0, <1>1 DEF Tasks, ChunkTypeOK
<1>3. LockOK' /\ holds' = holds
  BY <1>0, <1>1, LockStays
<1>4. move' = move /\ docs' = docs
  BY <1>1 DEF donorVars
<1>5. anomalies = {} => ~Accepted /\ config.owner # "recipient"
  BY <1>0, <1>1 DEF Promised, Landed
<1>6. CASE recipient.state \in {"STEADY", "COMMIT_START"}
  <2>0. recipient' = [recipient EXCEPT !.thread = "pulling",
                                       !.afterCommit = @ \/ recipient.state = "COMMIT_START"]
    BY <1>6 DEF BeginTransfer
  <2>1. /\ recipient' \in Recipients
        /\ recipient'.thread = "pulling" /\ recipient'.state = recipient.state
        /\ recipient'.ours /\ recipient'.active
        /\ recipient'.afterCommit = (recipient.afterCommit \/ recipient.state = "COMMIT_START")
    BY <1>0, <1>1, <1>2, <2>0 DEF ChunkTypeOK, Threads, Recipients
  <2>2. Tasks'
    BY <1>0, <2>1 DEF Tasks
  <2>3. anomalies' = {} => Commit'
    BY <1>0, <1>1, <1>2, <1>4, <2>1 DEF Promised, Commit, At
  <2>4. anomalies' = {} => Landed'
    BY <1>1, <1>4, <1>5 DEF Landed, Accepted
  <2> QED BY <1>0, <1>1, <1>2, <1>3, <2>1, <2>2, <2>3, <2>4, RecipientOnly DEF Cloned, ChunkTypeOK
<1>7. CASE recipient.state \notin {"STEADY", "COMMIT_START"}
  <2>0. recipient' = [recipient EXCEPT !.thread = "leaving"]
    BY <1>7 DEF BeginTransfer
  <2>1. /\ recipient' \in Recipients
        /\ recipient'.thread = "leaving" /\ recipient'.state = recipient.state
        /\ recipient'.ours /\ recipient'.active /\ recipient'.afterCommit = recipient.afterCommit
    BY <1>0, <1>1, <1>2, <2>0 DEF ChunkTypeOK, Threads, Recipients
  <2>2. Tasks'
    BY <1>0, <1>7, <2>1 DEF Tasks
  <2>3. anomalies' = {} => Commit'
    BY <1>0, <1>1, <1>2, <1>4, <1>7, <2>1 DEF Promised, Commit, At
  <2>4. anomalies' = {} => Landed'
    BY <1>1, <1>4, <1>5 DEF Landed, Accepted
  <2> QED BY <1>0, <1>1, <1>2, <1>3, <2>1, <2>2, <2>3, <2>4, RecipientOnly DEF Cloned, ChunkTypeOK
<1> QED BY <1>6, <1>7

\* The thread ends; done only with everything received, if the donor waits for it.
LEMMA EndedInv ==
    ASSUME MigrationInv, UNCHANGED <<lockVars, donorVars, copy, otherVars>>,
           NEW state \in {"ABORT", "FAIL", "DONE"}, recipient' = Ended(state),
           anomalies = {} /\ state = "DONE" /\ At("awaiting") /\ recipient.ours
              => copy = docs /\ recipient.flushed
    PROVE  MigrationInv'
<1>0. LockOK /\ ChunkTypeOK /\ (anomalies = {} => Promised)
  BY DEF MigrationInv
<1>1. UNCHANGED lockVars /\ UNCHANGED <<donorVars, copy, config, request, writes, anomalies>>
  BY DEF otherVars
<1>2. move' = move /\ docs' = docs
  BY <1>1 DEF donorVars
<1>3. /\ recipient' \in Recipients
      /\ recipient'.thread = "none" /\ recipient'.state = state /\ ~recipient'.active
      /\ recipient'.ours = recipient.ours /\ recipient'.afterCommit = recipient.afterCommit
      /\ recipient'.flushed = recipient.flushed
  BY <1>0 DEF Ended, ChunkTypeOK, States, Threads, Recipients
<1>4. Tasks'
  BY <1>3 DEF Tasks
<1>5. LockOK' /\ holds' = holds
  BY <1>0, <1>1, LockStays
<1>6. anomalies' = {} => Commit'
  BY <1>0, <1>1, <1>2, <1>3 DEF Promised, Commit, At
<1>7. anomalies' = {} => Landed'
  BY <1>0, <1>1, <1>2, <1>3 DEF Promised, Landed, Accepted
<1> QED BY <1>0, <1>1, <1>3, <1>4, <1>5, <1>6, <1>7, RecipientOnly DEF ChunkTypeOK

\* The last transfer, or another round.
LEMMA AfterTransferInv ==
    ASSUME MigrationInv, AfterTransfer
    PROVE  MigrationInv'
<1>0. LockOK /\ ChunkTypeOK /\ Tasks /\ (anomalies = {} => Promised)
  BY DEF MigrationInv
<1>1. /\ recipient.active /\ recipient.thread = "deciding"
      /\ UNCHANGED <<lockVars, donorVars, copy, otherVars>>
  BY DEF AfterTransfer, Thread
<1>2. recipient.ours
  BY <1>0, <1>1 DEF Tasks, ChunkTypeOK
<1>3. LockOK' /\ holds' = holds
  BY <1>0, <1>1, LockStays
<1>4. move' = move /\ docs' = docs /\ UNCHANGED <<copy, config, request, writes, anomalies>>
  BY <1>1 DEF donorVars, otherVars
<1>5. anomalies = {} => ~Accepted /\ config.owner # "recipient"
  BY <1>0, <1>1 DEF Promised, Landed
<1>6. CASE recipient' = Ended("ABORT")
  BY <1>1, <1>6, EndedInv
<1>7. CASE recipient' = [recipient EXCEPT !.thread = "steady"]
  <2>1. /\ recipient' \in Recipients
        /\ recipient'.thread = "steady" /\ recipient'.state = recipient.state
        /\ recipient'.ours /\ recipient'.active /\ recipient'.afterCommit = recipient.afterCommit
    BY <1>0, <1>1, <1>2, <1>7 DEF ChunkTypeOK, Threads, Recipients
  <2>2. Tasks'
    BY <1>0, <2>1 DEF Tasks
  <2>3. anomalies' = {} => Commit'
    BY <1>0, <1>1, <1>2, <1>4, <2>1 DEF Promised, Commit, At
  <2>4. anomalies' = {} => Landed'
    BY <1>4, <1>5 DEF Landed, Accepted
  <2> QED BY <1>0, <1>1, <1>2, <1>3, <1>4, <2>1, <2>2, <2>3, <2>4, RecipientOnly DEF Cloned, ChunkTypeOK
<1>8. CASE /\ recipient.state = "COMMIT_START" /\ recipient.afterCommit
           /\ recipient' = [recipient EXCEPT !.thread = "leaving", !.flushed = TRUE]
  <2>1. /\ recipient' \in Recipients
        /\ recipient'.thread = "leaving" /\ recipient'.state = "COMMIT_START" /\ recipient'.flushed
        /\ recipient'.ours /\ recipient'.active
    BY <1>0, <1>1, <1>2, <1>8 DEF ChunkTypeOK, Threads, Recipients
  <2>2. Tasks'
    BY <1>0, <2>1 DEF Tasks
  <2>3. anomalies' = {} => Commit'
    BY <1>0, <1>1, <1>2, <1>4, <1>8, <2>1 DEF Promised, Commit, At
  <2>4. anomalies' = {} => Landed'
    BY <1>4, <1>5 DEF Landed, Accepted
  <2> QED BY <1>0, <1>1, <1>2, <1>3, <1>4, <2>1, <2>2, <2>3, <2>4, RecipientOnly DEF Cloned, ChunkTypeOK
<1> QED BY <1>6, <1>7, <1>8 DEF AfterTransfer

\* The thread leaves its loop, or fails.
LEMMA LeaveInv ==
    ASSUME MigrationInv, Leave \/ ReceiveFails
    PROVE  MigrationInv'
<1>0. ChunkTypeOK /\ (anomalies = {} => Promised)
  BY DEF MigrationInv
<1>1. UNCHANGED <<lockVars, donorVars, copy, otherVars>> /\ recipient.active
  BY DEF Leave, ReceiveFails, Thread
<1>2. CASE recipient' = Ended("FAIL")
  BY <1>1, <1>2, EndedInv
<1>3. CASE recipient.thread = "leaving" /\ recipient' = Ended("DONE")
  <2>1. anomalies = {} /\ At("awaiting") /\ recipient.ours => copy = docs /\ recipient.flushed
    BY <1>0, <1>1, <1>3 DEF Promised, Commit
  <2> QED BY <1>1, <1>3, <2>1, EndedInv
<1> QED BY <1>2, <1>3 DEF Leave, ReceiveFails, Thread

\* The recipient works for another donor, or for nobody: what was replicated to a
\* majority stays.
LEMMA NotOursInv ==
    ASSUME MigrationInv, LockOK', holds' = holds, UNCHANGED <<donorVars, otherVars>>,
           recipient' \in Recipients,
           ~recipient'.ours, recipient'.flushed = recipient.flushed,
           recipient'.active => recipient'.thread = "other",
           recipient'.state \in {"STEADY", "COMMIT_START"} => recipient'.active,
           copy' = copy \/ (~recipient.flushed /\ copy' = NoCopy)
    PROVE  MigrationInv'
<1>0. ChunkTypeOK /\ (anomalies = {} => Promised)
  BY DEF MigrationInv
<1>1. UNCHANGED <<move, owns, docs, donorHas, source, config, request, writes, anomalies>>
  BY DEF donorVars, otherVars
<1>2. copy' \in [Docs -> 0 .. MaxWrites + 1]
  BY <1>0, MigrationAssumption, SMTT(30) DEF ChunkTypeOK, NoCopy
<1>3. Tasks'
  BY DEF Tasks
<1>4. ASSUME anomalies' = {}  PROVE Noted' /\ AllPending' /\ DifferencePending' /\ Commit' /\ Landed'
  <2>0. Noted /\ AllPending /\ Landed
    BY <1>0, <1>1, <1>4 DEF Promised
  <2>1. Noted' /\ AllPending'
    BY <1>1, <2>0 DEF Noted, AllPending, At
  <2>2. DifferencePending' /\ Commit'
    BY DEF DifferencePending, Commit
  <2>3. Landed'
    BY <1>1, <2>0 DEF Landed, Accepted
  <2> QED BY <2>1, <2>2, <2>3
<1>5. /\ source' \in Sources
      /\ source'.active = source.active /\ anomalies' \in SUBSET Anomalies /\ anomalies \subseteq anomalies'
  BY <1>0, <1>1 DEF ChunkTypeOK
<1> QED BY <1>1, <1>2, <1>3, <1>4, <1>5, RecipientFrame

\* Another donor's migration, and a new primary of the recipient's shard.
LEMMA OtherInv ==
    ASSUME MigrationInv, OtherStarts \/ OtherProceeds \/ OtherCommits \/ RecipientLost
    PROVE  MigrationInv'
<1>0. LockOK /\ ChunkTypeOK /\ Tasks
  BY DEF MigrationInv
<1>1. UNCHANGED lockVars \/ (Fault /\ UNCHANGED lockDocVars)
  BY DEF OtherStarts, OtherProceeds, OtherCommits, RecipientLost
<1>2. UNCHANGED <<donorVars, otherVars>>
  BY DEF OtherStarts, OtherProceeds, OtherCommits, RecipientLost, otherVars
<1>3. LockOK' /\ holds' = holds
  BY <1>0, <1>1, LockStays
<1>4. CASE OtherStarts
  <2>1. recipient' = [Inactive EXCEPT !.active = TRUE, !.thread = "other", !.flushed = recipient.flushed]
        /\ copy' = copy
    BY <1>4 DEF OtherStarts
  <2>2. /\ recipient' \in Recipients
        /\ ~recipient'.ours /\ recipient'.flushed = recipient.flushed /\ recipient'.thread = "other"
        /\ recipient'.active
    BY <1>0, <2>1 DEF Inactive, ChunkTypeOK, States, Threads, Recipients
  <2> QED BY <1>2, <1>3, <2>1, <2>2, NotOursInv
<1>5. CASE RecipientLost
  <2>1. recipient' = [Inactive EXCEPT !.flushed = recipient.flushed]
        /\ (copy' = copy \/ (~recipient.flushed /\ copy' = NoCopy))
    BY <1>5 DEF RecipientLost
  <2>2. /\ recipient' \in Recipients
        /\ ~recipient'.ours /\ recipient'.flushed = recipient.flushed /\ recipient'.state = "READY"
        /\ ~recipient'.active
    BY <1>0, <2>1 DEF Inactive, ChunkTypeOK, States, Threads, Recipients
  <2> QED BY <1>2, <1>3, <2>1, <2>2, NotOursInv
<1>6. CASE OtherProceeds \/ OtherCommits
  <2>1. recipient.active /\ recipient.thread = "other" /\ copy' = copy
    BY <1>6 DEF OtherProceeds, OtherCommits, Thread
  <2>2. ~recipient.ours
    BY <1>0, <2>1 DEF Tasks
  <2>3. CASE recipient' \in {Ended("FAIL"), Ended("DONE")}
    <3>1. /\ recipient' \in Recipients
          /\ ~recipient'.ours /\ recipient'.flushed = recipient.flushed
          /\ recipient'.state \in {"FAIL", "DONE"} /\ ~recipient'.active
      <4>1. CASE recipient' = Ended("FAIL")
        BY <1>0, <2>2, <4>1 DEF Ended, ChunkTypeOK, States, Threads, Recipients
      <4>2. CASE recipient' = Ended("DONE")
        BY <1>0, <2>2, <4>2 DEF Ended, ChunkTypeOK, States, Threads, Recipients
      <4> QED BY <2>3, <4>1, <4>2
    <3> QED BY <1>2, <1>3, <2>1, <3>1, NotOursInv
  <2>4. CASE recipient' \in {[recipient EXCEPT !.state = "STEADY"], [recipient EXCEPT !.state = "COMMIT_START"]}
    <3>1. /\ recipient' \in Recipients
          /\ ~recipient'.ours /\ recipient'.flushed = recipient.flushed
          /\ recipient'.thread = "other" /\ recipient'.active
      <4>1. CASE recipient' = [recipient EXCEPT !.state = "STEADY"]
        BY <1>0, <2>1, <2>2, <4>1 DEF ChunkTypeOK, States, Recipients
      <4>2. CASE recipient' = [recipient EXCEPT !.state = "COMMIT_START"]
        BY <1>0, <2>1, <2>2, <4>2 DEF ChunkTypeOK, States, Recipients
      <4> QED BY <2>4, <4>1, <4>2
    <3> QED BY <1>2, <1>3, <2>1, <3>1, NotOursInv
  <2> QED BY <1>6, <2>3, <2>4 DEF OtherProceeds, OtherCommits
<1> QED BY <1>4, <1>5, <1>6

\* An operator's abort.
LEMMA RecvChunkAbortInv ==
    ASSUME MigrationInv, RecvChunkAbort
    PROVE  MigrationInv'
<1>0. LockOK /\ ChunkTypeOK /\ Tasks /\ (anomalies = {} => Promised)
  BY DEF MigrationInv
<1>1. /\ Fault /\ UNCHANGED lockDocVars
      /\ recipient' = [recipient EXCEPT !.state = "ABORT"]
      /\ anomalies' = IF recipient.state = "COMMIT_START" THEN anomalies \cup {"abortedCommit"} ELSE anomalies
      /\ UNCHANGED <<donorVars, copy, config, request, writes>>
  BY DEF RecvChunkAbort, Record
<1>2. LockOK' /\ holds' = holds
  BY <1>0, <1>1, LockStays
<1>3. move' = move /\ docs' = docs /\ source' = source
  BY <1>1 DEF donorVars
<1>4. /\ recipient' \in Recipients
      /\ recipient'.state = "ABORT" /\ recipient'.active = recipient.active /\ recipient'.thread = recipient.thread
      /\ recipient'.ours = recipient.ours /\ recipient'.afterCommit = recipient.afterCommit
      /\ recipient'.flushed = recipient.flushed
  BY <1>0, <1>1 DEF ChunkTypeOK, States, Recipients
<1>5. Tasks'
  BY <1>0, <1>1, <1>4 DEF Tasks
<1>6. anomalies' \in SUBSET Anomalies /\ anomalies \subseteq anomalies'
  BY <1>0, <1>1 DEF ChunkTypeOK, Anomalies
<1>7. ASSUME anomalies' = {}  PROVE Noted' /\ AllPending' /\ DifferencePending' /\ Commit' /\ Landed'
  <2>0. Promised /\ recipient.state # "COMMIT_START"
    BY <1>0, <1>1, <1>7
  <2>1. Noted' /\ AllPending'
    BY <1>1, <1>3, <1>4, <2>0 DEF Promised, Noted, AllPending, Receives, At
  <2>2. DifferencePending'
    BY <1>1, <1>3, <1>4, <2>0 DEF Promised, DifferencePending, Pending, Receives
  <2>3. Commit'
    BY <1>1, <1>3, <1>4, <2>0 DEF Promised, Commit, At
  <2>4. Landed'
    BY <1>1, <1>3, <1>4, <2>0 DEF Promised, Landed, Accepted
  <2> QED BY <2>1, <2>2, <2>3, <2>4
<1>8. /\ copy' \in [Docs -> 0 .. MaxWrites + 1]
      /\ source' \in Sources
      /\ source'.active = source.active /\ UNCHANGED <<owns, donorHas>>
  BY <1>0, <1>1, <1>3 DEF ChunkTypeOK, donorVars
<1> QED BY <1>1, <1>2, <1>3, <1>4, <1>5, <1>6, <1>7, <1>8, RecipientFrame

\* The range is emptied before anything is cloned into it.
LEMMA PrepareRangeInv ==
    ASSUME MigrationInv, PrepareRange
    PROVE  MigrationInv'
<1>0. LockOK /\ ChunkTypeOK /\ Tasks /\ (anomalies = {} => Promised)
  BY DEF MigrationInv
<1>1. /\ recipient.active /\ recipient.thread = "prepare" /\ copy' = NoCopy
      /\ recipient' = [recipient EXCEPT !.thread = "clone", !.state = "CLONE"]
      /\ UNCHANGED <<lockVars, donorVars, config, request, writes, anomalies>>
  BY DEF PrepareRange, Thread, Enter, otherVars
<1>2. recipient.ours /\ recipient.state \notin {"STEADY", "COMMIT_START"}
  BY <1>0, <1>1 DEF Tasks, ChunkTypeOK
<1>3. LockOK' /\ holds' = holds
  BY <1>0, <1>1, LockStays
<1>4. move' = move /\ docs' = docs /\ source' = source /\ UNCHANGED <<owns, donorHas>>
  BY <1>1 DEF donorVars
<1>5. /\ recipient' \in Recipients
      /\ recipient'.state = "CLONE" /\ recipient'.active /\ recipient'.thread = "clone"
      /\ recipient'.ours /\ recipient'.afterCommit = recipient.afterCommit
  BY <1>0, <1>1, <1>2 DEF ChunkTypeOK, States, Threads, Recipients
<1>6. Tasks'
  BY <1>5 DEF Tasks
<1>7. copy' \in [Docs -> 0 .. MaxWrites + 1] /\ \A d \in Docs : copy'[d] = 0
  BY <1>1, MigrationAssumption, SMTT(30) DEF NoCopy
<1>8. ASSUME anomalies' = {}  PROVE Noted' /\ AllPending' /\ DifferencePending' /\ Commit' /\ Landed'
  <2>0. Noted /\ AllPending /\ Commit /\ Landed
    BY <1>0, <1>1, <1>8 DEF Promised
  <2>1. Noted' /\ AllPending'
    BY <1>4, <1>5, <2>0 DEF Noted, AllPending, At
  <2>2. DifferencePending'
    BY <1>1, <1>2, <1>4, <1>5, <1>7, <2>0 DEF AllPending, DifferencePending, Pending, Receives, Cloned
  <2>3. Commit'
    BY <1>1, <1>2, <1>4, <1>5, <2>0 DEF Commit, At
  <2>4. Landed'
    BY <1>1, <1>4, <2>0 DEF Landed, Accepted
  <2> QED BY <2>1, <2>2, <2>3, <2>4
<1>9. /\ source' \in Sources
      /\ source'.active = source.active /\ anomalies' \in SUBSET Anomalies /\ anomalies \subseteq anomalies'
  BY <1>0, <1>1, <1>4 DEF ChunkTypeOK
<1> QED BY <1>1, <1>3, <1>4, <1>5, <1>6, <1>7, <1>8, <1>9, RecipientFrame

\* One answer of _migrateClone.
LEMMA CloneBatchInv ==
    ASSUME MigrationInv, CloneBatch
    PROVE  MigrationInv'
<1>0. LockOK /\ ChunkTypeOK /\ Tasks /\ (anomalies = {} => Promised)
  BY DEF MigrationInv
<1>1. /\ recipient.active /\ recipient.thread = "clone" /\ source.active
      /\ anomalies' = IF Stolen THEN anomalies \cup {"stolenMods"} ELSE anomalies
      /\ UNCHANGED <<lockVars, move, owns, docs, donorHas, config, request, writes>>
  BY DEF CloneBatch, Thread, Record
<1>2. recipient.ours /\ recipient.state \notin {"STEADY", "COMMIT_START"}
  BY <1>0, <1>1 DEF Tasks, ChunkTypeOK
<1>3. PICK batch \in SUBSET source.cloneLocs :
        /\ batch = {} <=> source.cloneLocs = {}
        /\ source' = [source EXCEPT !.cloneLocs = @ \ batch]
        /\ \/ /\ batch = {} /\ copy' = copy
              /\ recipient' = [recipient EXCEPT !.thread = "catchup", !.state = "CATCHUP"]
           \/ batch # {} /\ recipient' = Ended("ABORT") /\ copy' = copy
           \/ /\ batch # {} /\ recipient' = recipient
              /\ copy' = [d \in Docs |-> IF d \in batch THEN docs[d] ELSE copy[d]]
  BY DEF CloneBatch, Enter
<1>4. LockOK' /\ holds' = holds
  BY <1>0, <1>1, LockStays
<1>5. /\ source' \in Sources
      /\ source'.active = source.active /\ source'.cloneLocs = source.cloneLocs \ batch
      /\ source'.deleted = source.deleted /\ source'.reload = source.reload
  BY <1>0, <1>3 DEF ChunkTypeOK, Sources
<1>6. anomalies' \in SUBSET Anomalies /\ anomalies \subseteq anomalies'
  BY <1>0, <1>1 DEF ChunkTypeOK, Anomalies
<1>7. anomalies' = {} => Noted'
  BY <1>0, <1>1, <1>5, <1>6 DEF Promised, Noted
<1>8. anomalies' = {} /\ At("started") => source' = source
  BY <1>1 DEF Stolen
<1>9. anomalies' = {} => ~Accepted /\ config.owner # "recipient"
  BY <1>0, <1>1, <1>6 DEF Promised, Landed
<1>10. anomalies' = {} => Landed'
  BY <1>1, <1>9 DEF Landed, Accepted
<1>11. anomalies' = {} => ~At("awaiting") /\ (recipient.ours /\ Receives => Pending /\ ~recipient.afterCommit)
  BY <1>0, <1>1, <1>2, <1>6 DEF Promised, DifferencePending, Commit, Receives, At
<1>12. CASE batch = {}
  <2>1. /\ recipient' \in Recipients
        /\ recipient'.state = "CATCHUP" /\ recipient'.active /\ recipient'.thread = "catchup"
        /\ recipient'.ours /\ recipient'.afterCommit = recipient.afterCommit
    BY <1>0, <1>1, <1>2, <1>3, <1>12 DEF ChunkTypeOK, States, Threads, Recipients
  <2>2. Tasks'
    BY <2>1 DEF Tasks
  <2>3. copy' = copy /\ source'.cloneLocs = {} /\ source.cloneLocs = {}
    BY <1>3, <1>5, <1>12
  <2>4. copy' \in [Docs -> 0 .. MaxWrites + 1]
    BY <1>0, <2>3 DEF ChunkTypeOK
  <2>5. anomalies' = {} => AllPending'
    BY <1>0, <1>1, <1>6, <1>8, <2>1 DEF Promised, AllPending, At
  <2>6. anomalies' = {} => DifferencePending'
    BY <1>1, <1>2, <1>5, <1>11, <2>1, <2>3 DEF DifferencePending, Pending, Receives
  <2>7. anomalies' = {} => Commit'
    BY <1>1, <1>2, <1>11, <2>1 DEF Commit, Receives, At
  <2> QED BY <1>1, <1>4, <1>5, <1>6, <1>7, <1>10, <2>1, <2>2, <2>4, <2>5, <2>6, <2>7, RecipientFrame
<1>13. CASE batch # {} /\ recipient' = Ended("ABORT") /\ copy' = copy
  <2>1. /\ recipient' \in Recipients
        /\ recipient'.state = "ABORT" /\ ~recipient'.active
        /\ recipient'.afterCommit = recipient.afterCommit
    BY <1>0, <1>13 DEF Ended, ChunkTypeOK, States, Threads, Recipients
  <2>2. Tasks' /\ copy' \in [Docs -> 0 .. MaxWrites + 1]
    BY <1>0, <1>13, <2>1 DEF Tasks, ChunkTypeOK
  <2>3. anomalies' = {} => AllPending' /\ DifferencePending'
    BY <1>0, <1>1, <1>6, <1>8, <2>1 DEF Promised, AllPending, DifferencePending, At
  <2>4. anomalies' = {} => Commit'
    BY <1>1, <1>2, <1>11, <2>1 DEF Commit, Receives, At
  <2> QED BY <1>1, <1>4, <1>5, <1>6, <1>7, <1>10, <2>1, <2>2, <2>3, <2>4, RecipientFrame
<1>14. CASE /\ batch # {} /\ recipient' = recipient
            /\ copy' = [d \in Docs |-> IF d \in batch THEN docs[d] ELSE copy[d]]
  <2>1. /\ recipient' \in Recipients
        /\ Tasks'
    BY <1>0, <1>14 DEF ChunkTypeOK, Tasks
  <2>2. copy' \in [Docs -> 0 .. MaxWrites + 1]
    BY <1>0, <1>14 DEF ChunkTypeOK
  <2>3. anomalies' = {} => AllPending'
    BY <1>0, <1>1, <1>6, <1>8, <1>14 DEF Promised, AllPending, At
  <2>4. anomalies' = {} => DifferencePending'
    BY <1>1, <1>2, <1>5, <1>11, <1>14 DEF DifferencePending, Pending, Receives, Cloned
  <2>5. anomalies' = {} => Commit'
    BY <1>1, <1>2, <1>11, <1>14 DEF Commit, Receives, At
  <2> QED BY <1>1, <1>4, <1>5, <1>6, <1>7, <1>10, <2>1, <2>2, <2>3, <2>4, <2>5, RecipientFrame
<1> QED BY <1>3, <1>12, <1>13, <1>14

\* An answer of _transferMods takes away no more than what its documents bring:
\* a document is reloaded after all its deletes, as it is now.
LEMMA BatchPending ==
    ASSUME ChunkTypeOK, NEW b \in Batches, source' = Without(b), copy' = ApplyMigrateOp(b), docs' = docs
    PROVE  /\ source' \in Sources
           /\ source'.active = source.active /\ source'.cloneLocs = source.cloneLocs
           /\ copy' \in [Docs -> 0 .. MaxWrites + 1]
           /\ source.active /\ Noted => Noted' /\ (Pending => Pending')
<1>1. /\ b.deleted \subseteq source.deleted /\ b.reload \subseteq source.reload
      /\ b.deleted # source.deleted => b.reload = {}
  BY DEF Batches
<1>2. /\ source' \in Sources
      /\ source'.active = source.active /\ source'.cloneLocs = source.cloneLocs
      /\ source'.deleted = source.deleted \ b.deleted /\ source'.reload = source.reload \ b.reload
  BY <1>1 DEF Without, ChunkTypeOK, Sources
<1>3. /\ copy' \in [Docs -> 0 .. MaxWrites + 1]
      /\ \A d \in Docs : copy'[d] = IF d \in b.reload /\ docs[d] # 0 THEN docs[d]
                                    ELSE IF d \in b.deleted THEN 0 ELSE copy[d]
  BY MigrationAssumption, SMTT(30) DEF ApplyMigrateOp, Existing, ChunkTypeOK
<1>4. ASSUME source.active, Noted  PROVE Noted'
  BY <1>1, <1>2, <1>4 DEF Noted
<1>5. ASSUME source.active, Noted, Pending  PROVE Pending'
  <2> SUFFICES ASSUME NEW d \in Docs, docs[d] # copy'[d]
               PROVE  IF docs[d] # 0 THEN d \in source'.cloneLocs \cup source'.reload
                      ELSE d \in source'.deleted
    BY DEF Pending
  <2>1. copy'[d] = IF d \in b.reload /\ docs[d] # 0 THEN docs[d]
                   ELSE IF d \in b.deleted THEN 0 ELSE copy[d]
    BY <1>3
  <2>2. CASE docs[d] # 0
    <3>1. d \notin b.reload
      BY <2>1, <2>2
    <3>2. d \in source.cloneLocs \cup source.reload
      BY <1>1, <1>5, <2>1, <2>2, <3>1 DEF Noted, Pending
    <3> QED BY <1>2, <2>2, <3>1, <3>2
  <2>3. CASE docs[d] = 0
    <3>1. d \notin b.deleted /\ copy'[d] = copy[d]
      BY <2>1, <2>3
    <3> QED BY <1>2, <1>5, <2>3, <3>1 DEF Pending
  <2> QED BY <2>2, <2>3
<1> QED BY <1>2, <1>3, <1>4, <1>5

\* What catch-up and transfers have in common: nothing an attempt that has just
\* begun still needs is taken away, and the differences stay pending.
LEMMA TransferKeeps ==
    ASSUME MigrationInv, recipient.active, recipient.thread \in {"catchup", "pulling"}, source.active,
           NEW b \in Batches, source' = Without(b), copy' = ApplyMigrateOp(b),
           UNCHANGED <<move, docs, config>>, anomalies' = {}, anomalies \subseteq anomalies',
           recipient'.active => recipient'.thread # "prepare",
           At("started") => source' = source
    PROVE  /\ Promised /\ Noted' /\ AllPending' /\ Landed'
           /\ recipient.ours /\ Receives => Pending' /\ source'.cloneLocs = {}
<1>0. ChunkTypeOK /\ Promised
  BY DEF MigrationInv
<1>1. Noted /\ AllPending /\ DifferencePending /\ Landed
  BY <1>0 DEF Promised
<1>2. source'.cloneLocs = source.cloneLocs /\ Noted' /\ (Pending => Pending')
  BY <1>0, <1>1, BatchPending
<1>3. AllPending'
  BY <1>1 DEF AllPending, At
<1>4. Landed'
  BY <1>1 DEF Landed, Accepted
<1>5. recipient.ours /\ Receives => Pending' /\ source'.cloneLocs = {}
  BY <1>1, <1>2 DEF DifferencePending, Cloned
<1> QED BY <1>0, <1>2, <1>3, <1>4, <1>5

\* Catching up.
LEMMA CatchUpInv ==
    ASSUME MigrationInv, CatchUp
    PROVE  MigrationInv'
<1>0. LockOK /\ ChunkTypeOK /\ Tasks
  BY DEF MigrationInv
<1>1. /\ recipient.active /\ recipient.thread = "catchup" /\ source.active
      /\ anomalies' = IF Stolen THEN anomalies \cup {"stolenMods"} ELSE anomalies
      /\ UNCHANGED <<lockVars, move, owns, docs, donorHas, config, request, writes>>
  BY DEF CatchUp, Thread, Record
<1>2. recipient.ours /\ recipient.state \notin {"STEADY", "COMMIT_START"}
  BY <1>0, <1>1 DEF Tasks, ChunkTypeOK
<1>3. PICK b \in Batches :
        /\ source' = Without(b) /\ copy' = ApplyMigrateOp(b)
        /\ \/ recipient' = Ended("ABORT")
           \/ recipient' = [recipient EXCEPT !.thread = "steady", !.state = "STEADY"]
           \/ recipient' = recipient
  BY DEF CatchUp, Enter
<1>4. LockOK' /\ holds' = holds
  BY <1>0, <1>1, LockStays
<1>5. /\ source' \in Sources
      /\ source'.active = source.active /\ copy' \in [Docs -> 0 .. MaxWrites + 1]
  BY <1>0, <1>1, <1>3, BatchPending
<1>6. anomalies' \in SUBSET Anomalies /\ anomalies \subseteq anomalies'
  BY <1>0, <1>1 DEF ChunkTypeOK, Anomalies
<1>7. /\ recipient' \in Recipients
      /\ recipient'.ours /\ recipient'.afterCommit = recipient.afterCommit
      /\ \/ ~recipient'.active /\ recipient'.state = "ABORT"
         \/ recipient'.active /\ recipient'.state = "STEADY" /\ recipient'.thread = "steady"
         \/ recipient'.active /\ recipient'.state = recipient.state /\ recipient'.thread = "catchup"
  <2>1. CASE recipient' = Ended("ABORT")
    BY <1>0, <1>2, <2>1 DEF Ended, ChunkTypeOK, States, Threads, Recipients
  <2>2. CASE recipient' = [recipient EXCEPT !.thread = "steady", !.state = "STEADY"]
    BY <1>0, <1>1, <1>2, <2>2 DEF ChunkTypeOK, States, Threads, Recipients
  <2>3. CASE recipient' = recipient
    BY <1>0, <1>1, <1>2, <2>3 DEF ChunkTypeOK
  <2> QED BY <1>3, <2>1, <2>2, <2>3
<1>8. Tasks'
  BY <1>0, <1>1, <1>2, <1>7 DEF Tasks
<1>9. ASSUME anomalies' = {}  PROVE Noted' /\ AllPending' /\ DifferencePending' /\ Commit' /\ Landed'
  <2>1. At("started") => source' = source
    BY <1>1, <1>9 DEF Stolen
  <2>2. recipient'.active => recipient'.thread # "prepare"
    BY <1>7
  <2>3. /\ Promised /\ Noted' /\ AllPending' /\ Landed'
        /\ recipient.ours /\ Receives => Pending' /\ source'.cloneLocs = {}
    BY <1>1, <1>3, <1>6, <1>9, <2>1, <2>2, TransferKeeps
  <2>4. DifferencePending'
    BY <1>1, <1>2, <2>3 DEF DifferencePending, Receives
  <2>5. Commit'
    BY <1>1, <1>2, <1>7, <2>3 DEF Promised, Commit, At
  <2> QED BY <2>3, <2>4, <2>5
<1> QED BY <1>1, <1>4, <1>5, <1>6, <1>7, <1>8, <1>9, RecipientFrame

\* A transfer after the commit message that brings nothing leaves nothing behind.
LEMMA TransferInv ==
    ASSUME MigrationInv, Transfer
    PROVE  MigrationInv'
<1>0. LockOK /\ ChunkTypeOK /\ Tasks
  BY DEF MigrationInv
<1>1. /\ recipient.active /\ recipient.thread = "pulling" /\ source.active
      /\ UNCHANGED <<lockVars, move, owns, docs, donorHas, config, request, writes>>
  BY DEF Transfer, Thread
<1>2. recipient.ours
  BY <1>0, <1>1 DEF Tasks, ChunkTypeOK
<1>3. PICK b \in Batches :
        /\ source' = Without(b) /\ copy' = ApplyMigrateOp(b)
        /\ recipient' = [recipient EXCEPT !.thread = IF DidAnything(b) THEN "steady" ELSE "deciding"]
        /\ IF Stolen THEN Record(TRUE, "stolenMods")
           ELSE Record(/\ recipient.afterCommit /\ ~DidAnything(b)
                       /\ source'.deleted \cup source'.reload # {}, "foreignBatch")
  BY DEF Transfer
<1>4. LockOK' /\ holds' = holds
  BY <1>0, <1>1, LockStays
<1>5. /\ source' \in Sources
      /\ source'.active = source.active /\ copy' \in [Docs -> 0 .. MaxWrites + 1]
  BY <1>0, <1>1, <1>3, BatchPending
<1>6. anomalies' \in SUBSET Anomalies /\ anomalies \subseteq anomalies'
  BY <1>0, <1>3 DEF ChunkTypeOK, Anomalies, Record
<1>7. /\ recipient' \in Recipients
      /\ recipient'.ours /\ recipient'.active /\ recipient'.afterCommit = recipient.afterCommit
      /\ recipient'.state = recipient.state
      /\ recipient'.thread = IF DidAnything(b) THEN "steady" ELSE "deciding"
  BY <1>0, <1>1, <1>2, <1>3 DEF ChunkTypeOK, Threads, Recipients
<1>8. Tasks'
  BY <1>0, <1>1, <1>2, <1>7 DEF Tasks
<1>9. ASSUME anomalies' = {}  PROVE Noted' /\ AllPending' /\ DifferencePending' /\ Commit' /\ Landed'
  <2>1. ~Stolen /\ (recipient.afterCommit /\ ~DidAnything(b) => source'.deleted \cup source'.reload = {})
    BY <1>3, <1>9 DEF Record
  <2>2. (At("started") => source' = source) /\ recipient'.thread # "prepare"
    BY <1>7, <2>1 DEF Stolen
  <2>3. /\ Promised /\ Noted' /\ AllPending' /\ Landed'
        /\ recipient.ours /\ Receives => Pending' /\ source'.cloneLocs = {}
    BY <1>1, <1>3, <1>6, <1>9, <2>2, TransferKeeps
  <2>4. DifferencePending'
    BY <1>1, <1>2, <2>3 DEF DifferencePending, Receives
  <2>5. ASSUME At("awaiting"), ~DidAnything(b), recipient.afterCommit  PROVE copy' = docs'
    <3>1. Pending' /\ source'.cloneLocs = {}
      BY <1>2, <2>3, <2>5 DEF Receives, At
    <3>2. source'.deleted = {} /\ source'.reload = {}
      BY <2>1, <2>5
    <3>3. \A d \in Docs : docs'[d] = copy'[d]
      BY <3>1, <3>2 DEF Pending
    <3>4. docs' \in [Docs -> 0 .. MaxWrites + 1]
      BY <1>0, <1>1 DEF ChunkTypeOK
    <3> QED BY <1>5, <3>3, <3>4, SMTT(30)
  <2>6. Commit'
    BY <1>1, <1>2, <1>7, <2>3, <2>5 DEF Promised, Commit, At
  <2> QED BY <2>3, <2>4, <2>6
<1> QED BY <1>1, <1>4, <1>5, <1>6, <1>7, <1>8, <1>9, RecipientFrame

-----------------------------------------------------------------------------
(* The whole *)

\* Another chunk of the collection moves: the version goes up, the owner stays.
LEMMA RivalMovesInv ==
    ASSUME MigrationInv, RivalMoves
    PROVE  MigrationInv'
<1>0. LockOK /\ ChunkTypeOK /\ Books /\ Tasks /\ (anomalies = {} => Promised)
  BY DEF MigrationInv
<1>1. /\ holds[Rival] # NoSession /\ Unlock(Rival)
      /\ UNCHANGED <<move, owns, docs, donorHas, source, recipient, copy, request, writes, anomalies>>
  BY DEF RivalMoves, donorVars, recipientVars
<1>2. LockOK' /\ holds'[Donor] = holds[Donor]
  BY <1>0, <1>1, UnlockOK, MigrationAssumption
<1>3. /\ config' \in [owner : {"donor", "recipient"}, version : 1 .. MaxVersion + 1]
      /\ config'.owner = config.owner /\ (config'.version = config.version \/ config'.version \in Versions)
  <2>1. CASE config' = config
    BY <1>0, <2>1 DEF ChunkTypeOK
  <2>2. ASSUME NEW v \in Versions, config' = [config EXCEPT !.version = v]
        PROVE  /\ config' \in [owner : {"donor", "recipient"}, version : 1 .. MaxVersion + 1]
               /\ config'.owner = config.owner /\ config'.version \in Versions
    <3>1. v \in 1 .. MaxVersion + 1
      BY MigrationAssumption, SMTT(30) DEF Versions
    <3> QED BY <1>0, <2>2, <3>1 DEF ChunkTypeOK
  <2> QED BY <2>1, <2>2 DEF RivalMoves
<1>4. ChunkTypeOK' /\ Tasks'
  BY <1>0, <1>1, <1>3 DEF ChunkTypeOK, Tasks
<1>5. Books'
  BY <1>0, <1>1, <1>2, <1>3 DEF Books, Moving
<1>6. Promised => Promised'
  BY <1>1, <1>3 DEF Promised, Ownership, Noted, AllPending, DifferencePending, Pending, Commit, Landed,
     Moving, Receives, Accepted, At
<1> QED BY <1>0, <1>1, <1>2, <1>4, <1>5, <1>6 DEF MigrationInv

\* Where it starts: the chunk at the donor, nothing under way.
LEMMA InitInv == Init => MigrationInv
<1> SUFFICES ASSUME Init PROVE MigrationInv
  OBVIOUS
<1>0. /\ move = [at |-> "idle", version |-> NoVersion] /\ owns = TRUE
      /\ docs = [d \in Docs |-> 1] /\ donorHas = TRUE /\ source = NoSource
      /\ recipient = Inactive /\ copy = docs /\ config = [owner |-> "donor", version |-> 1]
      /\ request = NoVersion /\ writes = 0 /\ anomalies = {} /\ LockInit
  BY DEF Init
<1>1. LockOK
  BY <1>0, MigrationAssumption, SMTT(30) DEF LockInit, LockOK, LockTypeOK, NoObservation, Observations
<1>2. recipient \in Recipients
      /\ ~recipient.active /\ recipient.state = "READY" /\ ~recipient.ours
  BY <1>0 DEF Inactive, States, Threads, Recipients
<1>3. 1 \in 1 .. MaxVersion /\ 1 \in 1 .. MaxVersion + 1 /\ 1 \in 0 .. MaxWrites + 1 /\ 0 \in 0 .. MaxWrites
  BY MigrationAssumption, SMTT(30)
<1>4. ChunkTypeOK
  BY <1>0, <1>2, <1>3 DEF ChunkTypeOK, Places, NoSource, Versions, Moves, Sources
<1>5. Books /\ Tasks
  BY <1>0, <1>2, <1>3 DEF Books, Tasks, Moving, Versions
<1>6. Promised
  BY <1>0, <1>2 DEF Promised, Ownership, Noted, AllPending, DifferencePending, Commit, Landed,
     Moving, Receives, Accepted, At, NoSource
<1> QED BY <1>1, <1>4, <1>5, <1>6 DEF MigrationInv

\* Every step keeps the invariant.
LEMMA NextInv == MigrationInv /\ [Next]_vars => MigrationInv'
<1> SUFFICES ASSUME MigrationInv, [Next]_vars PROVE MigrationInv'
  OBVIOUS
<1>1. CASE DonorStep
  BY <1>1, StartMoveInv, SendStartInv, PollInv, DonateChunkInv, StartCommitInv, CommitAnswerInv,
     CommitFailsInv, SendApplyOpsInv, ApplyOpsFailsInv, ConfirmCommitInv, CommittedInv DEF DonorStep
<1>2. CASE Crash \/ Restart \/ ApplyOps
  BY <1>2, CrashRestartInv, ApplyOpsInv
<1>3. CASE RecipientStep
  BY <1>3, PrepareRangeInv, CloneBatchInv, CatchUpInv, BeginTransferInv, TransferInv, AfterTransferInv,
     LeaveInv DEF RecipientStep
<1>4. CASE RecvChunkAbort \/ RecipientLost \/ OtherStarts \/ OtherProceeds \/ OtherCommits
  BY <1>4, RecvChunkAbortInv, OtherInv
<1>5. CASE RivalMoves \/ StaleTransfer \/ DeleteForeign
  BY <1>5, RivalMovesInv, ForeignInv
<1>6. CASE \E d \in Docs : Upsert(d) \/ Delete(d)
  BY <1>6, UpsertInv, DeleteInv
<1>7. CASE \/ DonorLocks \/ RivalLocks
           \/ \E p \in Processes : LockOnly(UnlockQueued(p))
           \/ \E p \in Processes : LockOnly(Ping(p)) \/ LockOnly(Age(p))
           \/ LockOnly(ConfigElection)
  BY <1>7, LockStepInv
<1>8. CASE UNCHANGED vars
  <2>1. UNCHANGED lockVars /\ UNCHANGED <<donorVars, recipientVars, otherVars>>
    BY <1>8 DEF vars
  <2> QED BY <2>1, LockStays, LockOnlyInv DEF MigrationInv
<1> QED BY <1>1, <1>2, <1>3, <1>4, <1>5, <1>6, <1>7, <1>8 DEF Next

\* What the invariant says about the properties.
LEMMA InvSays == MigrationInv => MigrationTypeOK /\ NoLostWrite /\ OneOwner /\ ClonedWhenSteady
<1> SUFFICES ASSUME MigrationInv PROVE MigrationTypeOK /\ NoLostWrite /\ OneOwner /\ ClonedWhenSteady
  OBVIOUS
<1>0. LockOK /\ ChunkTypeOK /\ Tasks /\ (anomalies = {} => Promised)
  BY DEF MigrationInv
<1>1. MigrationTypeOK
  BY <1>0 DEF MigrationTypeOK, LockOK, ChunkTypeOK, Moves, Sources, Recipients
<1>2. NoLostWrite
  BY <1>0 DEF NoLostWrite, Promised, Ownership, Landed, ChunkTypeOK
<1>3. OneOwner
  BY <1>0 DEF OneOwner, Promised, Ownership
<1>4. ClonedWhenSteady
  <2> SUFFICES ASSUME anomalies = {}, At("polling"), recipient.ours, recipient.state = "STEADY"
               PROVE  source.cloneLocs = {}
    BY DEF ClonedWhenSteady
  <2>1. recipient.active /\ recipient.thread \in {"steady", "pulling", "deciding"}
    BY <1>0 DEF Tasks
  <2> QED BY <1>0, <2>1 DEF Promised, DifferencePending, Receives, Cloned, At
<1> QED BY <1>1, <1>2, <1>3, <1>4

\* The invariant holds throughout.
LEMMA Always == MigrationSpec => []MigrationInv
<1> QED BY InitInv, NextInv, PTL DEF MigrationSpec

\* Every variable of the migration and of its lock keeps its type: in particular
\* a process that forces the lock has a session to take it with, and an applyOps
\* never writes a version beyond the one after the last that was read.
THEOREM MigrationTypes == MigrationSpec => []MigrationTypeOK
<1> QED BY Always, InvSays, PTL

\* Whatever is written while the chunk is cloned, whatever message is lost and
\* whoever crashes, the shard the config servers name has every write, until one
\* of the recorded anomalies happens (_migrateDriver, commitMigration).
THEOREM NoLostWriteHolds == MigrationSpec => []NoLostWrite
<1> QED BY Always, InvSays, PTL

\* Until then the donor takes no write for a chunk that has been given away
\* (donateChunk, undoDonateChunk, the confirmation of the commit, the restart).
THEOREM OneOwnerHolds == MigrationSpec => []OneOwner
<1> QED BY Always, InvSays, PTL

\* Until then a recipient that reports to be steady has cloned every document, as
\* move_chunk_command.cpp checks again before the critical section.
THEOREM ClonedWhenSteadyHolds == MigrationSpec => []ClonedWhenSteady
<1> QED BY Always, InvSays, PTL

-----------------------------------------------------------------------------
(* The version of the collection, and the lock: whatever anomalies happen *)

\* The steps of the donor, the recipient and the clients leave config.chunks alone.
LEMMA ConfigStays ==
    ASSUME DonorStep \/ Crash \/ Restart \/ RecipientStep \/ RecipientLost \/ RecvChunkAbort \/ StaleTransfer
    PROVE  config' = config
<1>1. CASE StartMove \/ SendStart \/ Poll \/ DonateChunk \/ StartCommit \/ CommitAnswer
  BY <1>1 DEF StartMove, SendStart, Poll, DonateChunk, StartCommit, CommitAnswer, otherVars
<1>2. CASE CommitFails \/ SendApplyOps \/ ApplyOpsFails \/ ConfirmCommit \/ Committed \/ Crash \/ Restart
  BY <1>2 DEF CommitFails, SendApplyOps, ApplyOpsFails, ConfirmCommit, Committed, Crash, Restart, otherVars
<1>3. CASE RecipientStep
  BY <1>3 DEF RecipientStep, PrepareRange, CloneBatch, CatchUp, BeginTransfer, Transfer, AfterTransfer, Leave,
     ReceiveFails, otherVars
<1>4. CASE RecipientLost \/ RecvChunkAbort \/ StaleTransfer
  BY <1>4 DEF RecipientLost, RecvChunkAbort, StaleTransfer, otherVars
<1> QED BY <1>1, <1>2, <1>3, <1>4 DEF DonorStep

\* A step that changes config.chunks raises the version.
LEMMA ConfigStep ==
    ASSUME ChunkTypeOK, [Next]_vars
    PROVE  config' # config => config'.version > config.version
<1>0. config \in [owner : {"donor", "recipient"}, version : 1 .. MaxVersion + 1] /\ MaxVersion \in Nat
  BY MigrationAssumption DEF ChunkTypeOK
<1>1. config.version \in Nat
  BY <1>0, SMTT(30)
<1>2. CASE ApplyOps
  <2>1. config' = config \/ (VersionAsRead /\ config' = [owner |-> "recipient", version |-> request + 1])
    BY <1>2 DEF ApplyOps
  <2> QED BY <1>1, <2>1, SMTT(30) DEF VersionAsRead
<1>3. CASE RivalMoves
  <2>1. config' = config \/ config' = [config EXCEPT !.version = config.version + 1]
    BY <1>3 DEF RivalMoves
  <2> QED BY <1>0, <1>1, <2>1, SMTT(30)
<1>4. CASE OtherStarts \/ OtherProceeds \/ OtherCommits \/ DeleteForeign \/ \E d \in Docs : Upsert(d) \/ Delete(d)
  BY <1>4 DEF OtherStarts, OtherProceeds, OtherCommits, DeleteForeign, Upsert, Delete, otherVars
<1>5. CASE \/ DonorLocks \/ RivalLocks
           \/ \E p \in Processes : LockOnly(UnlockQueued(p))
           \/ \E p \in Processes : LockOnly(Ping(p)) \/ LockOnly(Age(p))
           \/ LockOnly(ConfigElection)
  BY <1>5 DEF DonorLocks, RivalLocks, LockOnly, otherVars
<1>6. CASE UNCHANGED vars
  BY <1>6 DEF vars, otherVars
<1> QED BY <1>2, <1>3, <1>4, <1>5, <1>6, ConfigStays DEF Next

\* No two migrations commit under one version, also when the rival overtakes the
\* lock while the donor's applyOps is under way, and whatever anomalies happen
\* (the preCondition of commitMigration).
THEOREM VersionRisesHolds == MigrationSpec => VersionRises
<1>1. MigrationInv /\ [Next]_vars => [config' # config => config'.version > config.version]_vars
  BY ConfigStep DEF MigrationInv
<1> QED BY <1>1, Always, PTL DEF MigrationSpec, VersionRises

\* The ways the donor's steps end leave the lock alone or unlock it.
LEMMA DonorLock ==
    ASSUME DonorStep
    PROVE  lock' = lock \/ Unlock(Donor)
<1>1. CASE StartMove \/ SendStart \/ Poll \/ DonateChunk
  BY <1>1 DEF StartMove, SendStart, Poll, DonateChunk, GiveUp, Done, lockVars
<1>2. CASE StartCommit \/ CommitAnswer \/ CommitFails \/ SendApplyOps
  BY <1>2 DEF StartCommit, CommitAnswer, CommitFails, SendApplyOps, UndoDonateChunk, Done, lockVars
<1>3. CASE ApplyOpsFails \/ ConfirmCommit \/ Committed
  BY <1>3 DEF ApplyOpsFails, ConfirmCommit, Committed, Exit, LoseProcess, Done, lockVars
<1> QED BY <1>1, <1>2, <1>3 DEF DonorStep

\* What may change the lock document.
LEMMA LockMoves ==
    ASSUME [Next]_vars
    PROVE  lock' = lock \/ \E p \in Processes : Unlock(p) \/ UnlockQueued(p) \/ GrabLock(p) \/ OvertakeLock(p)
<1>0. Donor \in Processes /\ Rival \in Processes
  BY MigrationAssumption
<1>1. CASE DonorStep
  BY <1>0, <1>1, DonorLock
<1>2. CASE Crash \/ Restart \/ ApplyOps
  BY <1>2 DEF Crash, Restart, ApplyOps, Exit, LoseProcess, lockVars
<1>3. CASE RecipientStep
  BY <1>3 DEF RecipientStep, PrepareRange, CloneBatch, CatchUp, BeginTransfer, Transfer, AfterTransfer, Leave,
     ReceiveFails, lockVars
<1>4. CASE RecipientLost \/ RecvChunkAbort \/ StaleTransfer \/ OtherStarts \/ OtherProceeds \/ OtherCommits
           \/ DeleteForeign
  BY <1>4 DEF RecipientLost, RecvChunkAbort, StaleTransfer, OtherStarts, OtherProceeds, OtherCommits, DeleteForeign,
     lockDocVars, lockVars
<1>5. CASE RivalMoves
  BY <1>0, <1>5 DEF RivalMoves
<1>6. CASE \E d \in Docs : Upsert(d) \/ Delete(d)
  BY <1>6 DEF Upsert, Delete, lockVars
<1>7. CASE \/ DonorLocks \/ RivalLocks
           \/ \E p \in Processes : LockOnly(UnlockQueued(p))
           \/ \E p \in Processes : LockOnly(Ping(p)) \/ LockOnly(Age(p))
           \/ LockOnly(ConfigElection)
  BY <1>0, <1>7 DEF DonorLocks, RivalLocks, LockOnly, TryLock, CanOvertakeLock, Ping, Age, ConfigElection
<1>8. CASE UNCHANGED vars
  BY <1>8 DEF vars, lockVars
<1> QED BY <1>1, <1>2, <1>3, <1>4, <1>5, <1>6, <1>7, <1>8 DEF Next

\* A locked document is not changed by locking it.
LEMMA StillLocked ==
    ASSUME NEW d \in [locked : BOOLEAN, session : Sessions \cup {NoSession}], d.locked = TRUE
    PROVE  [d EXCEPT !.locked = TRUE] = d
BY SMTT(30)

\* An unlock changes the document of its own session only.
LEMMA UnlockedIs ==
    ASSUME LockTypeOK, NEW s, NEW u, lock = [locked |-> TRUE, session |-> s], Unlocked(u) # lock
    PROVE  u = s
<1> SUFFICES ASSUME u # s
             PROVE  FALSE
  OBVIOUS
<1>1. lock.locked = TRUE /\ lock.session = s
  OBVIOUS
<1>2. Unlocked(u) = [lock EXCEPT !.locked = TRUE]
  BY <1>1 DEF Unlocked
<1>3. [lock EXCEPT !.locked = TRUE] = lock
  BY <1>1, StillLocked DEF LockTypeOK
<1> QED BY <1>2, <1>3

\* Nobody loses the lock out of turn in a step.
LEMMA LostStep ==
    ASSUME LockTypeOK, [Next]_vars, NEW s \in Sessions
    PROVE  LosesInTurn(s)
<1> SUFFICES ASSUME lock = [locked |-> TRUE, session |-> s], lock' # lock
             PROVE  \E p \in Processes : \/ holds[p] = s /\ holds'[p] # s
                                         \/ s \in toUnlock[p]
                                         \/ forcing[p] = s
  BY DEF LosesInTurn
<1>1. PICK p \in Processes : Unlock(p) \/ UnlockQueued(p) \/ GrabLock(p) \/ OvertakeLock(p)
  BY LockMoves
<1>2. CASE Unlock(p)
  <2>1. holds' = [holds EXCEPT ![p] = NoSession] /\ lock' = Unlocked(holds[p])
    BY <1>2 DEF Unlock
  <2>2. holds[p] = s
    BY <2>1, UnlockedIs
  <2>3. holds'[p] # s
    BY <2>1, LockAssumption DEF LockTypeOK
  <2> QED BY <2>2, <2>3
<1>3. CASE UnlockQueued(p)
  <2>1. PICK u \in toUnlock[p] : lock' = Unlocked(u)
    BY <1>3 DEF UnlockQueued
  <2> QED BY <2>1, UnlockedIs
<1>4. CASE GrabLock(p)
  BY <1>4 DEF GrabLock
<1>5. CASE OvertakeLock(p)
  BY <1>5 DEF OvertakeLock
<1> QED BY <1>1, <1>2, <1>3, <1>4, <1>5

\* A late unlock, or an overtaking decided upon before the lock changed hands,
\* never takes it from another session, with any number of processes and
\* sessions and whatever anomalies happen (unlock and overtakeLock of
\* dist_lock_catalog_impl.cpp).
THEOREM LostInTurnHolds == MigrationSpec => LostInTurn
<1>1. MigrationInv /\ [Next]_vars => [\A s \in Sessions : LosesInTurn(s)]_lockVars
  BY LostStep DEF MigrationInv, LockOK
<1> QED BY <1>1, Always, PTL DEF MigrationSpec, LostInTurn

=============================================================================
