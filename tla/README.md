# Formal models of the server

TLA+ models of the parts of this server whose correctness rests on the order in
which threads, members and shards take their steps: the lock manager with its
deadlock detector, replica sets (elections, the oplog and its commit point,
applying the oplog and recovering from a crash), and the migration of a chunk
between two shards under the distributed lock. TLC checks small instances of all
of them; TLAPS proves the mutual exclusion of the lock manager and the safety of the
migration for every size of the instance.

Sources are quoted relative to `src/mongo/`. `PROJECT.json` has, for every
definition that models code, the lines it models, and the full list of hazards.

## The parts and their modules

| Part of the system | Code | Modules |
|---|---|---|
| Lock modes, request lists | `db/concurrency/lock_manager_defs.h`, `lock_request_list.h` | `LockModes`, `LockRequestList` |
| Lock manager and lockers | `db/concurrency/lock_manager.cpp`, `lock_state.cpp` | `LockManager` |
| Deadlock detector | `lock_manager.cpp` (class `DeadlockDetector`) | `DeadlockDetector`, extends `LockManager` |
| Proofs about the lock manager | | `LockRequestListProofs`, `LockManagerInvariant`, `LockManagerSteps`, `LockManagerProofs` |
| What elections promise | `db/repl/topology_coordinator_impl.cpp` | `Leadership` (abstract) |
| Elections, protocol version 1 | `replication_coordinator_impl_elect_v1.cpp`, `vote_requester.cpp`, ... | `Election`, `ElectionRestart` |
| Oplogs, commit point, rollback, snapshots | `replication_coordinator_impl.cpp`, `bgsync.cpp`, `rs_rollback.cpp`, `oplog.cpp` | `Replication` |
| Applying the oplog, drain mode, crash recovery | `sync_tail.cpp`, `bgsync.cpp`, `minvalid.cpp` | `OplogApplication` |
| Distributed lock | `s/catalog/replset/replset_dist_lock_manager.cpp`, `dist_lock_catalog_impl.cpp` | `DistLock` |
| Chunk migration | `db/s/migration_*.cpp`, `move_chunk_command.cpp`, `s/d_migrate.cpp` | `Migration`, extends `DistLock` |
| Proofs about the migration | | `MigrationProofs` |

A module `MC...` instantiates the one it is named after for TLC.

How they fit together: every operation of a server runs under the lock manager.
A replica set elects a primary (`Election`), which leads as `Leadership` says;
`Replication` has elections that implement the same `Leadership`, with the
oplogs that the primary's operations travel through; `OplogApplication` looks
inside one member's step of fetching and applying an operation. A shard is a
replica set; `Migration` moves a chunk between two of them and takes their
durability, and the config servers, as given.

### LockManager

One thread per locker. A step is what the code does without a scheduling point:
the section under a partition mutex, one iteration of a loop under the bucket
mutex, or an access to the locker's own request outside every mutex; `bucket[r]`
is the thread between two steps under the mutex of `r`. The calls are lock (fast
path in a partition, starting a partition, migrating the partitions, the queue),
convert, unlock and downgrade, with `_onLockModeChanged` as a scan of its own,
the wait with its time-out (`WakeUp`, `GiveUp`) and the cleaner. A counter array
is the set of `<<locker, mode>>` pairs counted, so that a count that is wrong
shows as a set that differs from the queues.

### DeadlockDetector

`check()` walks the wait-for graph with one bucket mutex at a time: each node is
one step, and the other lockers go on in between. `startCycle` is history: the
cycles of waits at the start of the walk.

### Leadership, Election, ElectionRestart

An action of `Election` is one callback of a member's executor; a
replSetRequestVotes command is an rpc with a stage, because it enters the
executor twice and stores the vote in between or after. Commands are lost, late
and time out. Which candidate is fresh enough is open here (any voter may refuse
any candidate) and decided by the oplogs in `Replication`. `ElectionRestart` adds
crashes: a member comes back with what it stored. `Leadership` is the abstract
specification: terms grow, a term is won once, a primary that learns of a later
term steps down, in two steps. The refinement mapping takes a member as standing
while its requester collects real votes for its present term.

### Replication

Oplogs are sequences of `<<term, member>>`; optimes compare by term, then by
position. Fetching one operation, a heartbeat, a progress report, a rollback are
one step each. `commits` is history: which primary counted which operation as
committed. Three things the code does break the usual argument for committed
operations, and are recorded in `anomalies`: a primary that knows of a later term
logs in that term (`lateWrite`); a report of a member in a later term is counted
(`staleReport`); a member rolls back for a source whose last operation is of an
earlier term (`staleSource`). `CommittedSurvives` is claimed as long as none has
happened, `OplogsAgree` without that condition; the search of `replication` goes
on after `staleSource` and stops at the other two.

Simplifications: `SyncSource` compares the optimes the members have, the code the
ones it remembers from heartbeats (`topology_coordinator_impl.cpp:264`); a source
that turns out to be behind is left (`bgsync.cpp:98`), which is no step here; the
steps of a rollback are one, without a crash or an election between them. Two
snapshots of one operation, which the code tells apart by name, are one here.

### OplogApplication

One member: producer thread, buffer, applier with its batches, the pool of
writers (any order of the operations of a batch, beside the oplog write),
minValid, drain mode, step-down, crash and restart. `disk` is what the storage
holds, `survivors` what it may hold after a crash: any commit since the last one
that was waited for. Anomalies: `electionStart` (a batch marked from the
timestamp of an election is interrupted), `lateSignal` (drain mode ends on a
member that is no longer primary), `lateResume` (the producer starts after it
should have paused).

### DistLock and Migration

`lock` is the lock document, a session is `<<process, number>>`. A call to the
config servers may fail before or after it took effect; then the unlock is queued
and the lock pinger works it off. What a process has noted of the lock
(`observed`) goes out of date by a ping, by another session or by an election of
the config servers, and ages otherwise; an aged note lets the process force the
lock from that session.

The donor's `move.at` is the place of the moveChunk thread, from the lock to the
deletion of the range; the recipient's thread goes through prepare, clone,
catch-up and steady, and its state is overwritten by whoever sets it, as
`setState` does. Commands and answers get lost, the donor crashes and restarts,
the recipient's shard fails over and keeps what was flushed to a majority, an
operator aborts, another collection's donor uses the recipient, a rival takes the
lock. `docs` is what clients have written, `copy` what the recipient has.

After six events the code no longer promises what it promises otherwise. They are
recorded in `anomalies`, the properties are claimed until one happens, and each of
them alone makes TLC find `NoLostWrite` violated when the condition is dropped
(`lateCommit` also `OneOwner`):

- `wrongCommit`: `_recvChunkCommit` names no migration, and commits another one
  that the recipient is receiving by then (`migration_impl.cpp:322`).
- `abortedCommit`: `_recvChunkAbort` after COMMIT_START ends the loop before the
  last transfer, and the thread goes on to DONE (`migration_destination_manager.cpp:784`).
- `lateCommit`: the applyOps is executed after the donor has ceased to wait for
  it and has exited, whether it is back by then or comes back later
  (`migration_impl.cpp:506`).
- `mistakenCommit`: the commit is confirmed by a version that a rival reached
  after it overtook the lock (`migration_impl.cpp:527`).
- `stolenMods`: `_transferMods` and `_migrateClone` name no migration; a thread
  left from an earlier attempt takes what the present one needs
  (`migration_source_manager.cpp:300`).
- `foreignBatch`: after the commit message an answer that holds only deletes
  outside the range counts as nothing done, although the size limit kept other
  changes back (`migration_destination_manager.cpp:761`).

`VersionRises` and `LostInTurn` (every commit raises the version of the collection;
the lock is lost only by an unlock or an overtaking meant for the session that has
it) are stated without this condition: TLC checks them up to the first of the events
like the others, and `MigrationProofs` proves them whatever happens. The two updates of the applyOps are
one step here; the code has no unit of work around them (`apply_ops.cpp:119`).

`s/d_migrate.cpp:211` says of the recipient that its state "is serialized by
distributed collection lock"; the first and the fifth event are what that lock,
which belongs to one collection and can be overtaken, does not rule out.

## The runs

| Run | Instance | Shows |
|---|---|---|
| `lock_global` | 3 lockers, 1 resource that full modes jump the queue of, 2 partitions, recursion 2 | exclusion, counts equal queues, fast path sound, no lost wakeup, lockers hold what they believe, one notification per wait |
| `lock_cancel_race` (violation) | 2 lockers, conversions that time out | the comment of `unlock()` on `recursiveCount` is wrong for a cancelled conversion |
| `deadlock_cycles` | 3 lockers, 2 resources, no conversions | a cycle at the start of a check is found |
| `deadlock_upgrades` | 2 lockers, 1 resource, conversions, time-outs | cycles of held modes are found, every check ends, also after the cancel race |
| `election_split` | 3 voters, 2 candidates, 1 term, a late command | one vote per voter, one winner |
| `election_terms` | 2 voters, 3 terms, step-downs, setFollowerMode | implements `Leadership`; assertions; elections and step-downs end |
| `election_restart` (violation) | 3 voters, one restarts | two winners of one term after a vote stored out of order |
| `replication` | 3 voters, 2 terms, 3 operations, snapshots on one member | oplogs agree, committed operations survive, snapshot assertions, implements `Leadership` |
| `replication_rolled_back` (violation) | the same without snapshots | a committed operation is rolled back |
| `oplog_crash` | 4 timestamps, 1 win, 2 crashes | reads agree with the oplog, nothing is skipped, writes wait for the drain, drain and recovery end |
| `oplog_drain_crash` (violation) | the same, 1 crash | a member serves reads that lack operations of its oplog |
| `migration` | 1 document, 2 writes, 1 fault, 1 session per process | no lost write, one owner, cloned when steady, every commit raises the version, the lock is lost in turn, the chunk gets an owner, the rival gets the lock |

TLC's deadlock check is off: lockers may wait for each other for good, which is
what the detector is for, and in the other models clients, elections and faults
are used up at the bounds. Lost wakeups and waits that do not end are stated as
properties instead.

### Bounds

Three lockers are the fewest with a waiter, a holder and somebody who changes the
queue under both; two partitions are the fewest of which one is shared and one is
not. Three voters are the fewest with a majority that is not everybody. Two
candidates in one term and two terms with different primaries are the smallest
split vote and the smallest divergence; a third operation lets a branch continue
after it diverged. In `OplogApplication` four timestamps allow two batches, with
an election between them, and the second crash meets the recovery from the first.
In `Migration` one fault is any one of: a lock or unlock that fails, a crash of
the donor, a failover of the recipient, an abort, a delete outside the range, a
pull by a thread of an earlier attempt at another shard, another donor, a change
of config primary. Commands and answers between the shards, and the commit, may
fail without counting against it. Two writes let a document be changed
while cloned and again before the commit. `CONSTRAINT`s stop `replication` after
`lateWrite` and `staleReport`, and `migration` after any anomaly; each liveness
property of `migration` admits that end. A second constraint of `replication` keeps
the second operation of the first term on its primary, which may have to roll it
back. In `lock_global` one locker gives conversions up and does not ask for IS,
and the search stops where giving up meets the race of `lock_cancel_race`.

Larger instances were run by hand, safety only and without error: `Migration` with
two documents (697,008 states), with two faults (472,272), and with two sessions per
process and one write (4,215,660, in which an earlier attempt's thread meets a later
attempt, and an overtaking a lock that changed hands); `OplogApplication` with five
timestamps and one crash (611,845); `Replication` without the bound to one replicated
operation of the first term (333,799), and with a third term and no snapshots
(399,643); `LockManager` as in `lock_global` with every mode for the locker that gives
up (1,527,124) and with all three lockers giving up (2,708,699).

Symmetry is used over lockers in the same partition and over candidates that play
the same part, in runs without liveness. `VIEW` drops the stored vote of a member
that does not restart, which no action then reads.

### Fairness

- `DeadlockDetector`: a thread inside a call that is not blocked on a mutex runs
  on; the detector gets a bucket mutex that is free again and again (strong
  fairness, since others take it in between). No caller is obliged to call.
- `Election`: the database thread and the executor run what is queued, a command
  fails in the end if no answer comes (its time-out), the global lock is granted
  in the end. No candidate is obliged to stand, no voter to vote.
- `OplogApplication`: both threads run on. Nothing obliges clients, the set or a
  crash.
- `Migration`: the moveChunk thread, the migrate thread, a process that is to come
  back, the queue of unlocks, and the process that waits for the lock keep going.
  The code's waits are bounded, so a waiting step may also fail and weak fairness
  is enough. Pings are not fair: a silent holder must not keep the lock.

## What is proved

### The lock manager

`LockManagerProofs` proves, for all finite or infinite sets of lockers, resources
and partitions and with or without conversions that time out, from
`ConstantsAssumption` (there is a resource, the ones with priority are resources,
the partition of a locker is a partition, the cleaner is no locker and "no thread"
is neither, the bound on recursion is at least one):

- `Invariant`: `Spec => []IndInv`;
- `TypeCorrect`: `Spec => []TypeOK`;
- `MutualExclusion`: `Spec => []GrantedCompatible`, no two lockers are on the
  granted lists of a resource in conflicting modes;
- `FastPathSound`: `Spec => []PartitionedMeansIntent`, a partition may take intent
  requests without looking at the lock.

`GrantedCompatible` is not inductive: a grant consults the masks of modes, not the
requests. `IndInv` adds, for each resource, that a request is on at most one list
and where its fields say (`ListsOK`, `HeldOK`, `WaitingOK`, `InPartitionOK`), that
the counts include every granted mode and the mode of every pending conversion
(`CountedOK`, `ConvertingOK`), that a partitioned lock has only intent modes and
nobody waiting (`PartitionedOK`), and, for each thread in the middle of a call,
what it found before it took the mutex and still relies on (`ThreadOK`). It says
of the counts only that they include what is held; that they are equal to it is
`CountsMatchQueues`, which fails after the race of `lock_cancel_race` and is
model-checked up to that race. `LockRequestListProofs` has the
facts on lists, `LockManagerInvariant` the steps that leave the queues alone, the
partitions and their migration, `LockManagerSteps` the steps on one queue,
`LockManagerProofs` the releases and scans, and the theorems.

### The migration

`MigrationProofs`, from `MigrationAssumption` (the donor and its rival are two of
the processes, the foreign document is none of the chunk, there is a version) and
`LockAssumption` ("no session" is no session), for any set of documents and any
number of processes, sessions, writes, faults and versions:

- `MigrationTypes`, `NoLostWriteHolds`, `OneOwnerHolds` and `ClonedWhenSteadyHolds`;
  the last three as long as no event of the list above has happened, which is part of
  the properties;
- `VersionRisesHolds` and `LostInTurnHolds`, whatever has happened.

`NoLostWrite` is not inductive: what the recipient lacks is spread over the donor's
lists. `MigrationInv` has the types of the lock with a session left for whoever
forces it (`LockOK`), what the donor holds while it moves (`Books`) and which
thread runs at the recipient by its state (`Tasks`), whatever has happened.
`Promised`, as long as none of the events has, follows an attempt: at first every
document is to be cloned or reloaded (`AllPending`); once the range is emptied,
every difference between donor and recipient is on one of the donor's lists, and
none is to be cloned after the cloning (`DifferencePending`); a document that was
deleted and exists again is to be reloaded, so a batch of deletes takes nothing
away (`Noted`); a transfer after the commit message that brings nothing shows that
nothing is missing (`Commit`); and from the recipient's answer on it has
everything, on a majority, while the donor takes no writes (`Landed`,
`Ownership`). The steps of the lock come first, then writes, donor and recipient.
`VersionRises` follows from the types and the condition that the applyOps checks,
`LostInTurn` from the four steps that change the lock's document (`LockMoves`).

### Only model-checked

The remaining invariants of the lock manager, the detector, and everything on
replication; the refinements of `Leadership`; that a process waiting for the
distributed lock gets it. Nothing is claimed of who holds that lock: one that is
forced has two processes that believe in it, and the version that the applyOps
expects is what keeps their commits apart. All liveness is out of the prover's reach.

## Where code and comments disagree

- `lock_cancel_race`: `lock_manager.cpp:599` says the fast path ensured
  `recursiveCount == 0`. A conversion granted between the test of its status and
  the mutex, while its owner gives it up, is released with a reference left: the
  locker goes on under a lock whose lists it is no longer on, and which others are
  granted. `GrantedCompatible` and `NoLostWakeup` speak of the lists and do not see
  it; `LockersHoldWhatTheyBelieve` would, and is claimed up to the race.
- `election_restart`: votes are stored by command threads, unordered, granted
  dry-run votes included (`replication_coordinator_impl.cpp:2882`). A restart
  brings back the older one and the voter votes twice in a term.
- `replication_rolled_back`: `replication_coordinator.h:622` says committed
  operations are never rolled back. `_updateLastCommittedOpTime_inlock` counts the
  optime of a member on another branch.
- `oplog_drain_crash`: `minvalid.h:60` says a missing `begin` means a consistent
  state. A batch marked from the timestamp of an election that is interrupted by
  a crash leaves an operation in the oplog that is never applied.

## Not modelled

- In the modelled parts: `LockerImpl`'s delayed unlocks of a unit of work and the
  yield of the MMAPv1 flush lock; ElectionWinnerDeclarer, priority takeover,
  reconfiguration, arbiters and tags; write concern waiters; what rollback does to
  documents; initial sync, slave delay and maintenance mode; indexes and pending
  ranges at the recipient of a migration, `ShardingStateRecovery`, a failover of
  the donor's shard, and a rollback of the config servers (the commit's applyOps
  asks for no write concern).
- Starvation of a waiting `MODE_X` by compatible requests behind it, which
  `lock_manager.cpp:738` accepts: it needs more lockers than TLC can take under
  fairness.
- Cycles of conversions that wait for the modes others convert to: `lock_manager.h`
  says that a stable cycle will be discovered, and with conversions TLC finds
  `StableCycleDiscovered` violated (IS to S, before IS to X on the granted list, and
  IS to X wait for each other, and neither check finds it). `HeldCycleDiscovered`
  claims what does hold.
- That a committed snapshot holds only committed operations: a member on an
  abandoned branch compares optimes with the commit point it hears of
  (`replication_coordinator_impl.cpp:2816`).
- Smaller points, met while reading: `lock_state.cpp:627` marks a granted request
  compatibleFirst without counting it, which no caller in the tree can reach;
  `oplog.cpp:154` reads the term before it takes the mutex that orders operations,
  where the model logs in one step; `migration_impl.cpp:289` leaves the recovery
  document behind on every way out but success; `move_chunk_command.cpp:399`
  compares megabytes with bytes, so the donor never gives up for memory.
- Whole parts, with the reason for each in `PROJECT.json`: the executors and the
  network (they appear as the atomicity of callbacks and as calls that may be
  lost), protocol version 0, master-slave replication and the legacy config
  servers (older protocols), the router, balancer, splits and merges, the range
  deleter, the storage engines (taken as atomic, ordered commits), queries,
  indexes and catalog (data, sequential), authentication, BSON, shell and tools.
