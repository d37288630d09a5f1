----------------------------- MODULE LockManager -----------------------------
(***************************************************************************)
(* The lock manager (lock_manager.cpp) under the blocking calls of its     *)
(* clients, the lockers (lock_state.cpp: lockBegin, lockComplete, unlock,  *)
(* downgrade).  Every locker is one thread.                                *)
(*                                                                         *)
(* A step is what runs without a scheduling point: the section under a     *)
(* partition mutex, one iteration of a loop under the bucket mutex, or an  *)
(* access to the locker's own request outside every mutex.  bucket[r] is   *)
(* the owner of the bucket mutex of r between two such steps.              *)
(*                                                                         *)
(* A counter array of the code (grantedCounts, conflictCounts) is the set  *)
(* of <<locker, mode>> pairs that were counted: incrementing adds the      *)
(* pair, decrementing removes it, a mode's count is zero when no pair has  *)
(* that mode, and the mask of modes is the set of second components.       *)
(***************************************************************************)
EXTENDS LockModes, LockRequestList

CONSTANTS
    Lockers,            \* the lockers (LockerImpl objects), one thread each
    Resources,          \* the lockable resources (ResourceId)
    PriorityResources,  \* RESOURCE_GLOBAL and the MMAPV1 flush lock
    Partitions,         \* the partitions of intent locks
    PartitionOf,        \* _getPartition: the partition of each locker
    Cleaner,            \* the UnusedLockCleaner thread
    NoThread,           \* no owner of a bucket mutex
    MaxRecursion,       \* bound on recursiveCount
    UpgradeMayTimeout   \* may a pending conversion be given up?

ASSUME ConstantsAssumption ==
    /\ Resources # {}
    /\ PriorityResources \subseteq Resources
    /\ PartitionOf \in [Lockers -> Partitions]
    /\ Cleaner \notin Lockers
    /\ NoThread \notin Lockers \cup {Cleaner}
    /\ MaxRecursion \in Nat \ {0}
    /\ UpgradeMayTimeout \in BOOLEAN

VARIABLES
    req,              \* req[l][r]: the LockRequest of l for r
    granted,          \* LockHead.grantedList
    grantedCounts,    \* LockHead.grantedCounts and grantedModes
    conflict,         \* LockHead.conflictList
    conflictCounts,   \* LockHead.conflictCounts and conflictModes
    conversions,      \* LockHead.conversionsCount, as the set counted
    compatibleFirst,  \* LockHead.compatibleFirstCount, as the set counted
    partitions,       \* LockHead.partitions
    partHeads,        \* the partitions that have a PartitionedLockHead for r
    partList,         \* PartitionedLockHead.grantedList
    bucket,           \* owner of the bucket mutex
    pc,               \* where the thread of a locker is
    op,               \* the arguments of the call a thread is in
    cursor,           \* loop position of _onLockModeChanged
    notify            \* has CondVarLockGrantNotification been notified?

headVars == <<granted, grantedCounts, conflict, conflictCounts, conversions, compatibleFirst>>
partVars == <<partitions, partHeads, partList>>
vars == <<req, headVars, partVars, bucket, pc, op, cursor, notify>>

-----------------------------------------------------------------------------

Request ==
    [status : {"NEW", "GRANTED", "WAITING", "CONVERTING"},
     mode : LockMode, convertMode : LockMode,
     recursiveCount : 0..MaxRecursion,
     partitioned : BOOLEAN, lock : {"none", "partition", "head"},
     compatibleFirst : BOOLEAN]

\* Where a thread is in a call of the lock manager, and the call's arguments.
Location ==
    {"idle", "lock", "convert", "wait", "cancel", "unlock",
     "scanConversions", "scanConflicts"}
Operation == [res : Resources, mode : LockMode, check : BOOLEAN]

\* LockRequest::initNew, and a resource that is not in the locker's map.
initNew ==
    [status |-> "NEW", mode |-> "NONE", convertMode |-> "NONE",
     recursiveCount |-> 0, partitioned |-> FALSE, lock |-> "none",
     compatibleFirst |-> FALSE]

Threads == Lockers \cup {Cleaner}

GrantedModes(r) == {c[2] : c \in grantedCounts[r]}
ConflictModes(r) == {c[2] : c \in conflictCounts[r]}

\* grantedModesWithoutCurrentRequest of convert() and _onLockModeChanged().
GrantedModesWithout(r, l) == {c[2] : c \in {d \in grantedCounts[r] : d[1] # l}}

\* lockBegin: full modes of the global and flush locks jump the queue and
\* switch the lock to the compatible-first policy.
IsPriority(r, m) == r \in PriorityResources /\ m \in {"S", "X"}

\* A request as newRequest leaves it: its first reference, on a LockHead or on
\* a PartitionedLockHead.
Submitted(q, m, status, lock) ==
    [q EXCEPT !.status = status, !.mode = m, !.recursiveCount = 1,
              !.partitioned = (lock = "partition"), !.lock = lock]

Referenced(q) == [q EXCEPT !.recursiveCount = @ + 1]

\* Mutant of Unreferenced: the reference is dropped twice.
DecrementedTwice(q) == [q EXCEPT !.recursiveCount = @ - 2]

Unreferenced(q) == [q EXCEPT !.recursiveCount = @ - 1]

SetRequest(l, r, q) == req' = [req EXCEPT ![l][r] = q]

\* The arguments of no call.
NoOp == [res |-> CHOOSE r \in Resources : TRUE, mode |-> "NONE", check |-> FALSE]

\* Mutant of Return: lockBegin does not clear the notification.
ReturnUncleared(l) ==
    /\ pc' = [pc EXCEPT ![l] = "idle"]
    /\ op' = [op EXCEPT ![l] = NoOp]
    /\ UNCHANGED notify

\* The thread of l leaves the call it is in.  The arguments, the notification
\* and the loop position mean nothing outside a call.
Return(l) ==
    /\ pc' = [pc EXCEPT ![l] = "idle"]
    /\ op' = [op EXCEPT ![l] = NoOp]
    /\ notify' = [notify EXCEPT ![l] = FALSE]

BucketFree(r) == bucket[r] = NoThread

\* Thread t may run a section under the bucket mutex: it is free, or t has it.
BucketAvailable(r, t) == bucket[r] \in {NoThread, t}

Init ==
    /\ req = [l \in Lockers |-> [r \in Resources |-> initNew]]
    /\ granted = [r \in Resources |-> <<>>]
    /\ grantedCounts = [r \in Resources |-> {}]
    /\ conflict = [r \in Resources |-> <<>>]
    /\ conflictCounts = [r \in Resources |-> {}]
    /\ conversions = [r \in Resources |-> {}]
    /\ compatibleFirst = [r \in Resources |-> {}]
    /\ partitions = [r \in Resources |-> {}]
    /\ partHeads = [r \in Resources |-> {}]
    /\ partList = [r \in Resources |-> [p \in Partitions |-> <<>>]]
    /\ bucket = [r \in Resources |-> NoThread]
    /\ pc = [l \in Lockers |-> "idle"]
    /\ op = [l \in Lockers |-> NoOp]
    /\ cursor = [l \in Lockers |-> 1]
    /\ notify = [l \in Lockers |-> FALSE]

-----------------------------------------------------------------------------
(* LockManager::lock *)

\* PartitionedLockHead::newRequest.
PartitionNewRequest(l, r, m) ==
    /\ SetRequest(l, r, Submitted(req[l][r], m, "GRANTED", "partition"))
    /\ partList' = [partList EXCEPT ![r][PartitionOf[l]] = push_back(@, l)]

\* lockBegin for a resource the locker does not have, and lock() as far as
\* the fast path: the partition of the locker already has the resource.
LockFast(l, r, m) ==
    /\ pc[l] = "idle"
    /\ req[l][r].status = "NEW"
    /\ m \in intentModes
    /\ PartitionOf[l] \in partHeads[r]
    /\ PartitionNewRequest(l, r, m)
    /\ UNCHANGED <<headVars, partitions, partHeads, bucket, pc, op, cursor, notify>>

\* The fast path fails or does not apply: go on to the regular LockHead,
\* holding no mutex in between.
LockBegin(l, r, m) ==
    /\ pc[l] = "idle"
    /\ req[l][r].status = "NEW"
    /\ ~ (m \in intentModes /\ PartitionOf[l] \in partHeads[r])
    /\ SetRequest(l, r, [req[l][r] EXCEPT !.partitioned = m \in intentModes,
                                          !.compatibleFirst = IsPriority(r, m)])
    /\ pc' = [pc EXCEPT ![l] = "lock"]
    /\ op' = [op EXCEPT ![l] = [@ EXCEPT !.res = r, !.mode = m]]
    /\ UNCHANGED <<headVars, partVars, bucket, cursor, notify>>

\* Mutant of CanPartition: the conflict queue is not looked at.
OnlyIntentGranted(r) == GrantedModes(r) \subseteq intentModes

CanPartition(r) == GrantedModes(r) \subseteq intentModes /\ ConflictModes(r) = {}

\* Start a partitioned lock.
LockStartPartition(l) ==
    LET r == op[l].res IN
    /\ pc[l] = "lock"
    /\ BucketFree(r)
    /\ req[l][r].partitioned
    /\ CanPartition(r)
    /\ partHeads' = [partHeads EXCEPT ![r] = @ \cup {PartitionOf[l]}]
    /\ partitions' = [partitions EXCEPT ![r] = @ \cup {PartitionOf[l]}]
    /\ PartitionNewRequest(l, r, op[l].mode)
    /\ Return(l)
    /\ UNCHANGED <<headVars, bucket, cursor>>

\* One iteration of migratePartitionedLockHeads, for thread t that owns the
\* bucket mutex: the requests of partition p move to the LockHead.
\* newRequest() keeps their recursiveCount.
MigratePartition(t, r, p) ==
    LET moved == partList[r][p] IN
    /\ p \in partitions[r]
    /\ granted' = [granted EXCEPT ![r] = @ \o moved]
    /\ grantedCounts' = [grantedCounts EXCEPT ![r] =
                            @ \cup {<<l, req[l][r].mode>> : l \in Members(moved)}]
    /\ req' = [l \in Lockers |->
                  [req[l] EXCEPT ![r].lock =
                       IF l \in Members(moved) THEN "head" ELSE @]]
    /\ partHeads' = [partHeads EXCEPT ![r] = @ \ {p}]
    /\ partList' = [partList EXCEPT ![r][p] = <<>>]
    /\ partitions' = [partitions EXCEPT ![r] = @ \ {p}]
    /\ bucket' = [bucket EXCEPT ![r] = t]
    /\ UNCHANGED <<conflict, conflictCounts, conversions, compatibleFirst>>

\* lock() and convert() migrate every partition before they go on.
Migrate(l) ==
    LET r == op[l].res IN
    /\ \/ pc[l] = "lock" /\ ~ (req[l][r].partitioned /\ CanPartition(r))
       \/ pc[l] = "convert"
    /\ BucketAvailable(r, l)
    /\ \E p \in Partitions : MigratePartition(l, r, p)
    /\ UNCHANGED <<pc, op, cursor, notify>>

\* Mutant of MustWait: compatible-first grants without looking.
MustWaitUnlessCompatibleFirst(r, m) ==
    /\ compatibleFirst[r] = {}
    /\ conflicts(m, GrantedModes(r) \cup ConflictModes(r))

\* LockHead::newRequest has to wait for the granted modes, and for the modes
\* that wait unless the policy is compatible-first.
MustWait(r, m) ==
    \/ conflicts(m, GrantedModes(r))
    \/ compatibleFirst[r] = {} /\ conflicts(m, ConflictModes(r))

\* LockHead::newRequest, for a lock that is not (or no longer) partitioned.
NewRequest(l) ==
    LET r == op[l].res
        m == op[l].mode
    IN
    /\ pc[l] = "lock"
    /\ BucketAvailable(r, l)
    /\ ~ (req[l][r].partitioned /\ CanPartition(r))
    /\ partitions[r] = {}
    /\ IF MustWait(r, m)
       THEN /\ SetRequest(l, r, Submitted(req[l][r], m, "WAITING", "head"))
            /\ conflict' = [conflict EXCEPT ![r] =
                                IF IsPriority(r, m) THEN push_front(@, l)
                                                    ELSE push_back(@, l)]
            /\ conflictCounts' = [conflictCounts EXCEPT ![r] = @ \cup {<<l, m>>}]
            /\ pc' = [pc EXCEPT ![l] = "wait"]
            /\ UNCHANGED <<granted, grantedCounts, compatibleFirst, op, notify>>
       ELSE /\ SetRequest(l, r, Submitted(req[l][r], m, "GRANTED", "head"))
            /\ granted' = [granted EXCEPT ![r] = push_back(@, l)]
            /\ grantedCounts' = [grantedCounts EXCEPT ![r] = @ \cup {<<l, m>>}]
            /\ compatibleFirst' = [compatibleFirst EXCEPT ![r] =
                                      IF req[l][r].compatibleFirst THEN @ \cup {l} ELSE @]
            /\ Return(l)
            /\ UNCHANGED <<conflict, conflictCounts>>
    /\ bucket' = [bucket EXCEPT ![r] = NoThread]
    /\ UNCHANGED <<conversions, partVars, cursor>>

-----------------------------------------------------------------------------
(* LockManager::convert *)

\* lockBegin for a resource the locker already has.  A mode that the current
\* one covers only counts a reference.
Reacquire(l, r, m) ==
    /\ pc[l] = "idle"
    /\ req[l][r].status = "GRANTED"
    /\ req[l][r].recursiveCount < MaxRecursion
    /\ isModeCovered(m, req[l][r].mode)
    /\ SetRequest(l, r, Referenced(req[l][r]))
    /\ UNCHANGED <<headVars, partVars, bucket, pc, op, cursor, notify>>

\* A real upgrade.  Conversions between unrelated modes are a program error
\* (the invariant in convert), and so is raising an intent lock on a priority
\* resource to a full mode: lockBegin would set compatibleFirst on a request
\* that was not counted as such.
ConvertBegin(l, r, m) ==
    /\ pc[l] = "idle"
    /\ req[l][r].status = "GRANTED"
    /\ req[l][r].recursiveCount < MaxRecursion
    /\ ~ isModeCovered(m, req[l][r].mode)
    /\ isModeCovered(req[l][r].mode, m)
    /\ IsPriority(r, m) => req[l][r].compatibleFirst
    /\ SetRequest(l, r, Referenced(req[l][r]))
    /\ pc' = [pc EXCEPT ![l] = "convert"]
    /\ op' = [op EXCEPT ![l] = [@ EXCEPT !.res = r, !.mode = m]]
    /\ UNCHANGED <<headVars, partVars, bucket, cursor, notify>>

\* The rest of convert(), under the bucket mutex: only the granted and the
\* converting modes of the other requests count, not the conflict queue.
\* decGrantedModeCount requires the old mode to be counted.
Convert(l) ==
    LET r == op[l].res
        m == op[l].mode
        old == req[l][r].mode
    IN
    /\ pc[l] = "convert"
    /\ BucketAvailable(r, l)
    /\ partitions[r] = {}
    /\ IF conflicts(m, GrantedModesWithout(r, l))
       THEN /\ SetRequest(l, r, [req[l][r] EXCEPT !.status = "CONVERTING",
                                                  !.convertMode = m])
            /\ conversions' = [conversions EXCEPT ![r] = @ \cup {l}]
            /\ grantedCounts' = [grantedCounts EXCEPT ![r] = @ \cup {<<l, m>>}]
            /\ pc' = [pc EXCEPT ![l] = "wait"]
            /\ UNCHANGED <<op, notify>>
       ELSE /\ <<l, old>> \in grantedCounts[r]
            /\ SetRequest(l, r, [req[l][r] EXCEPT !.mode = m])
            /\ grantedCounts' = [grantedCounts EXCEPT ![r] =
                                    (@ \cup {<<l, m>>}) \ {<<l, old>>}]
            /\ Return(l)
            /\ UNCHANGED conversions
    /\ bucket' = [bucket EXCEPT ![r] = NoThread]
    /\ UNCHANGED <<granted, conflict, conflictCounts, compatibleFirst, partVars, cursor>>

-----------------------------------------------------------------------------
(* LockerImpl::lockComplete *)

\* The thread sees that its request was granted.
WakeUp(l) ==
    /\ pc[l] = "wait"
    /\ notify[l]
    /\ Return(l)
    /\ UNCHANGED <<req, headVars, partVars, bucket, cursor>>

\* The wait times out, or the deadlock detector reports a cycle: the thread
\* decides to give the request up.  It may be granted by then, also when the
\* wait times out, because wait() does not look at _result again.
GiveUp(l) ==
    /\ pc[l] = "wait"
    /\ UpgradeMayTimeout \/ req[l][op[l].res].recursiveCount = 1
    /\ pc' = [pc EXCEPT ![l] = "cancel"]
    /\ UNCHANGED <<req, headVars, partVars, bucket, op, cursor, notify>>

-----------------------------------------------------------------------------
(* LockManager::unlock *)

\* Drop one of several references, outside every mutex.  This is also how a
\* cancel ends whose conversion was granted in the meantime.
UnlockReference(l, r) ==
    /\ \/ pc[l] = "idle"
       \/ pc[l] = "cancel" /\ r = op[l].res
    /\ req[l][r].status = "GRANTED"
    /\ req[l][r].recursiveCount > 1
    /\ SetRequest(l, r, Unreferenced(req[l][r]))
    /\ Return(l)
    /\ UNCHANGED <<headVars, partVars, bucket, cursor>>

\* Release a request that is still on its PartitionedLockHead, under the
\* partition mutex only.
UnlockPartitioned(l, r) ==
    /\ pc[l] = "idle"
    /\ req[l][r].status = "GRANTED"
    /\ req[l][r].recursiveCount = 1
    /\ req[l][r].partitioned
    /\ req[l][r].lock = "partition"
    /\ \E i \in DOMAIN partList[r][PartitionOf[l]] :
          /\ partList[r][PartitionOf[l]][i] = l
          /\ partList' = [partList EXCEPT ![r][PartitionOf[l]] = remove(@, i)]
    /\ SetRequest(l, r, initNew)
    /\ UNCHANGED <<headVars, partitions, partHeads, bucket, pc, op, cursor, notify>>

\* The part of unlock() before the bucket mutex, for a request on the
\* LockHead: the reference is dropped and the status is read outside it.
UnlockBegin(l, r) ==
    /\ \/ /\ pc[l] = "idle"
          /\ req[l][r].status = "GRANTED"
          /\ req[l][r].lock = "head"
       \/ pc[l] = "cancel" /\ r = op[l].res
    /\ req[l][r].status = "GRANTED" => req[l][r].recursiveCount = 1
    /\ SetRequest(l, r, Unreferenced(req[l][r]))
    /\ pc' = [pc EXCEPT ![l] = "unlock"]
    /\ op' = [op EXCEPT ![l].res = r]
    /\ UNCHANGED <<headVars, partVars, bucket, cursor, notify>>

\* A thread that changed a lock runs _onLockModeChanged next, still under the
\* bucket mutex; check is its checkConflictQueue argument.
StartScan(l, r, check) ==
    /\ bucket' = [bucket EXCEPT ![r] = l]
    /\ pc' = [pc EXCEPT ![l] = "scanConversions"]
    /\ op' = [op EXCEPT ![l] = [@ EXCEPT !.res = r, !.check = check]]
    /\ cursor' = [cursor EXCEPT ![l] = 1]

\* Mutant of DropIfUnreferenced: the locker keeps a released request.
KeepsRequest(request) == request

\* The request leaves the locker's map when its last reference is dropped.
DropIfUnreferenced(request) ==
    IF request.recursiveCount = 0 THEN initNew ELSE request

\* unlock() of a granted request: off the granted list.  The conflict queue
\* is looked at when no request is left in that mode.
UnlockGranted(l) ==
    LET r == op[l].res
        m == req[l][r].mode
    IN
    /\ pc[l] = "unlock"
    /\ BucketFree(r)
    /\ req[l][r].status = "GRANTED"
    /\ \E i \in DOMAIN granted[r] :
          /\ granted[r][i] = l
          /\ granted' = [granted EXCEPT ![r] = remove(@, i)]
    /\ <<l, m>> \in grantedCounts[r]
    /\ grantedCounts' = [grantedCounts EXCEPT ![r] = @ \ {<<l, m>>}]
    /\ compatibleFirst' = [compatibleFirst EXCEPT ![r] =
                              IF req[l][r].compatibleFirst THEN @ \ {l} ELSE @]
    /\ SetRequest(l, r, DropIfUnreferenced(req[l][r]))
    /\ StartScan(l, r, \A c \in grantedCounts[r] \ {<<l, m>>} : c[2] # m)
    /\ UNCHANGED <<conflict, conflictCounts, conversions, partVars, notify>>

\* unlock() of a waiting request: cancel it.
UnlockWaiting(l) ==
    LET r == op[l].res IN
    /\ pc[l] = "unlock"
    /\ BucketFree(r)
    /\ req[l][r].status = "WAITING"
    /\ \E i \in DOMAIN conflict[r] :
          /\ conflict[r][i] = l
          /\ conflict' = [conflict EXCEPT ![r] = remove(@, i)]
    /\ conflictCounts' = [conflictCounts EXCEPT ![r] = @ \ {<<l, req[l][r].mode>>}]
    /\ SetRequest(l, r, DropIfUnreferenced(req[l][r]))
    /\ StartScan(l, r, TRUE)
    /\ UNCHANGED <<granted, grantedCounts, conversions, compatibleFirst, partVars, notify>>

\* unlock() of a converting request: back to the mode it is granted in.  The
\* count that is tested afterwards is that of MODE_NONE, which is always zero.
UnlockConverting(l) ==
    LET r == op[l].res IN
    /\ pc[l] = "unlock"
    /\ BucketFree(r)
    /\ req[l][r].status = "CONVERTING"
    /\ SetRequest(l, r, [req[l][r] EXCEPT !.status = "GRANTED", !.convertMode = "NONE"])
    /\ conversions' = [conversions EXCEPT ![r] = @ \ {l}]
    /\ grantedCounts' = [grantedCounts EXCEPT ![r] =
                            @ \ {<<l, req[l][r].convertMode>>}]
    /\ StartScan(l, r, TRUE)
    /\ UNCHANGED <<granted, conflict, conflictCounts, compatibleFirst, partVars, notify>>

\* LockManager::downgrade: only a request on a LockHead, to a covered mode.
Downgrade(l, r, m) ==
    LET old == req[l][r].mode IN
    /\ pc[l] = "idle"
    /\ req[l][r].status = "GRANTED"
    /\ req[l][r].lock = "head"
    /\ isModeCovered(m, old)
    /\ BucketFree(r)
    /\ <<l, old>> \in grantedCounts[r]
    /\ grantedCounts' = [grantedCounts EXCEPT ![r] = (@ \ {<<l, old>>}) \cup {<<l, m>>}]
    /\ SetRequest(l, r, [req[l][r] EXCEPT !.mode = m])
    /\ StartScan(l, r, TRUE)
    /\ UNCHANGED <<granted, conflict, conflictCounts, conversions, compatibleFirst,
                   partVars, notify>>

-----------------------------------------------------------------------------
(* LockManager::_onLockModeChanged, one loop iteration per step *)

\* The first loop has work left: some conversion is pending and the granted
\* list has not been walked to its end.
MoreConversions(l) ==
    LET r == op[l].res IN
    conversions[r] # {} /\ cursor[l] <= Len(granted[r])

\* A pending conversion that no other request stands against any more.
ConversionGrantable(r, c) ==
    /\ req[c][r].status = "CONVERTING"
    /\ ~ conflicts(req[c][r].convertMode, GrantedModesWithout(r, c))

ScanConversion(l) ==
    LET r == op[l].res
        c == granted[r][cursor[l]]
    IN
    /\ pc[l] = "scanConversions"
    /\ MoreConversions(l)
    /\ IF ConversionGrantable(r, c)
       THEN /\ conversions' = [conversions EXCEPT ![r] = @ \ {c}]
            /\ grantedCounts' = [grantedCounts EXCEPT ![r] = @ \ {<<c, req[c][r].mode>>}]
            /\ SetRequest(c, r, [req[c][r] EXCEPT !.status = "GRANTED",
                                                  !.mode = req[c][r].convertMode,
                                                  !.convertMode = "NONE"])
            /\ notify' = [notify EXCEPT ![c] = TRUE]
       ELSE UNCHANGED <<conversions, grantedCounts, req, notify>>
    /\ cursor' = [cursor EXCEPT ![l] = @ + 1]
    /\ UNCHANGED <<granted, conflict, conflictCounts, compatibleFirst, partVars,
                   bucket, pc, op>>

ScanConversionsDone(l) ==
    /\ pc[l] = "scanConversions"
    /\ ~ MoreConversions(l)
    /\ pc' = [pc EXCEPT ![l] = "scanConflicts"]
    /\ cursor' = [cursor EXCEPT ![l] = 1]
    /\ UNCHANGED <<req, headVars, partVars, bucket, op, notify>>

\* Mutant of MoreConflicts: the last waiting request is not reached.
MissesLastConflict(l) ==
    op[l].check /\ cursor[l] < Len(conflict[op[l].res])

MoreConflicts(l) ==
    op[l].check /\ cursor[l] <= Len(conflict[op[l].res])

\* A waiting request at the cursor is granted when it conflicts with no
\* granted mode, whatever waits before it.  Nothing is compatible with a
\* MODE_X request that was granted, so the loop breaks after one.
ScanConflict(l) ==
    LET r == op[l].res
        w == conflict[r][cursor[l]]
        m == req[w][r].mode
    IN
    /\ pc[l] = "scanConflicts"
    /\ MoreConflicts(l)
    /\ IF conflicts(m, GrantedModes(r))
       THEN /\ cursor' = [cursor EXCEPT ![l] = @ + 1]
            /\ UNCHANGED <<req, headVars, notify>>
       ELSE /\ SetRequest(w, r, [req[w][r] EXCEPT !.status = "GRANTED"])
            /\ conflict' = [conflict EXCEPT ![r] = remove(@, cursor[l])]
            /\ conflictCounts' = [conflictCounts EXCEPT ![r] = @ \ {<<w, m>>}]
            /\ granted' = [granted EXCEPT ![r] = push_back(@, w)]
            /\ grantedCounts' = [grantedCounts EXCEPT ![r] = @ \cup {<<w, m>>}]
            /\ compatibleFirst' = [compatibleFirst EXCEPT ![r] =
                                      IF req[w][r].compatibleFirst THEN @ \cup {w} ELSE @]
            /\ notify' = [notify EXCEPT ![w] = TRUE]
            /\ cursor' = [cursor EXCEPT ![l] = IF m = "X" THEN Len(conflict[r]) ELSE @]
            /\ UNCHANGED conversions
    /\ UNCHANGED <<partVars, bucket, pc, op>>

\* Leave _onLockModeChanged and the bucket mutex.
ScanDone(l) ==
    /\ pc[l] = "scanConflicts"
    /\ ~ MoreConflicts(l)
    /\ bucket' = [bucket EXCEPT ![op[l].res] = NoThread]
    /\ Return(l)
    /\ cursor' = [cursor EXCEPT ![l] = 1]
    /\ UNCHANGED <<req, headVars, partVars>>

-----------------------------------------------------------------------------
(* LockManager::cleanupUnusedLocks, run by the UnusedLockCleaner *)

CleanupMigrate(r) ==
    /\ BucketAvailable(r, Cleaner)
    /\ \E p \in Partitions : MigratePartition(Cleaner, r, p)
    /\ UNCHANGED <<pc, op, cursor, notify>>

\* With every partition migrated the LockHead goes when it has no granted
\* mode; an absent LockHead and an empty one are the same state here.
CleanupDone(r) ==
    /\ bucket[r] = Cleaner
    /\ partitions[r] = {}
    /\ bucket' = [bucket EXCEPT ![r] = NoThread]
    /\ UNCHANGED <<req, headVars, partVars, pc, op, cursor, notify>>

-----------------------------------------------------------------------------

\* What a locker decides to do while it is in no call.
Call(l) ==
    \E r \in Resources :
        \/ \E m \in RequestMode :
              \/ LockFast(l, r, m)
              \/ LockBegin(l, r, m)
              \/ Reacquire(l, r, m)
              \/ ConvertBegin(l, r, m)
              \/ Downgrade(l, r, m)
        \/ UnlockReference(l, r)
        \/ UnlockPartitioned(l, r)
        \/ UnlockBegin(l, r)

\* A call in progress goes on.
Continue(l) ==
    \/ LockStartPartition(l)
    \/ Migrate(l)
    \/ NewRequest(l)
    \/ Convert(l)
    \/ UnlockGranted(l)
    \/ UnlockWaiting(l)
    \/ UnlockConverting(l)
    \/ ScanConversion(l)
    \/ ScanConversionsDone(l)
    \/ ScanConflict(l)
    \/ ScanDone(l)

Cleanup == \E r \in Resources : CleanupMigrate(r) \/ CleanupDone(r)

Next ==
    \/ \E l \in Lockers : Call(l) \/ Continue(l) \/ WakeUp(l) \/ GiveUp(l)
    \/ Cleanup

Spec == Init /\ [][Next]_vars

-----------------------------------------------------------------------------
(* Properties *)

\* The values of the variables.
TypeOK ==
    /\ req \in [Lockers -> [Resources -> Request]]
    /\ granted \in [Resources -> Seq(Lockers)]
    /\ grantedCounts \in [Resources -> SUBSET (Lockers \X LockMode)]
    /\ conflict \in [Resources -> Seq(Lockers)]
    /\ conflictCounts \in [Resources -> SUBSET (Lockers \X LockMode)]
    /\ conversions \in [Resources -> SUBSET Lockers]
    /\ compatibleFirst \in [Resources -> SUBSET Lockers]
    /\ partitions \in [Resources -> SUBSET Partitions]
    /\ partHeads \in [Resources -> SUBSET Partitions]
    /\ partList \in [Resources -> [Partitions -> Seq(Lockers)]]
    /\ bucket \in [Resources -> Threads \cup {NoThread}]
    /\ pc \in [Lockers -> Location]
    /\ op \in [Lockers -> Operation]
    /\ cursor \in [Lockers -> Nat \ {0}]
    /\ notify \in [Lockers -> BOOLEAN]

\* The lockers that have r, on the LockHead or on a PartitionedLockHead.
Holders(r) ==
    Members(granted[r]) \cup UNION {Members(partList[r][p]) : p \in Partitions}

\* Mutual exclusion, what the lock manager is for: two lockers are never on the
\* granted lists of the same resource in conflicting modes, wherever newRequest,
\* the migration of partitions, convert or _onLockModeChanged put them there.
\* That a locker which believes to hold a lock is on a list is
\* LockersHoldWhatTheyBelieve.
GrantedCompatible ==
    \A r \in Resources : \A l1, l2 \in Holders(r) :
        l1 # l2 => ~ conflicts(req[l1][r].mode, {req[l2][r].mode})

\* "These counts should exactly match the aggregated modes on the granted
\* list" (lock_manager.cpp): the granted and the conflict counts, and the
\* counts of conversions and of compatible-first requests, agree with the
\* queues after every step of lock, convert, unlock, downgrade and migration.
CountsMatchQueues ==
    \A r \in Resources :
        /\ grantedCounts[r] =
              {<<l, req[l][r].mode>> : l \in Members(granted[r])}
              \cup {<<l, req[l][r].convertMode>> : l \in conversions[r]}
        /\ conflictCounts[r] = {<<l, req[l][r].mode>> : l \in Members(conflict[r])}
        /\ conversions[r] =
              {l \in Members(granted[r]) : req[l][r].status = "CONVERTING"}
        /\ compatibleFirst[r] =
              {l \in Members(granted[r]) : req[l][r].compatibleFirst}

\* A PartitionedLockHead exists only for a lock that is marked partitioned,
\* and such a lock has no waiting request and only intent modes granted, so
\* the fast path of lock() may skip the conflict check.
PartitionedMeansIntent ==
    \A r \in Resources :
        /\ partHeads[r] \subseteq partitions[r]
        /\ partitions[r] # {} =>
              GrantedModes(r) \subseteq intentModes /\ ConflictModes(r) = {}

\* No lost wakeup: while nobody is inside the bucket, a request waits only
\* for a granted or converting mode it conflicts with, or behind a waiting
\* request that does.  A missed call of _onLockModeChanged, or one with a
\* wrong checkConflictQueue, would leave a request waiting for nothing.
NoLostWakeup ==
    \A r \in Resources : BucketFree(r) =>
        /\ \A w \in Members(conflict[r]) :
              \/ conflicts(req[w][r].mode, GrantedModes(r))
              \/ \E v \in Members(conflict[r]) :
                    /\ conflicts(req[w][r].mode, {req[v][r].mode})
                    /\ conflicts(req[v][r].mode, GrantedModes(r))
        /\ \A c \in Members(granted[r]) :
              req[c][r].status = "CONVERTING" =>
                  conflicts(req[c][r].convertMode, GrantedModesWithout(r, c))

\* What a locker takes for granted the lock manager has on a granted list: a
\* locker never works under a lock that unlock() has taken away from it.
LockersHoldWhatTheyBelieve ==
    \A l \in Lockers, r \in Resources :
        req[l][r].status = "GRANTED" => l \in Holders(r)

\* The comment in unlock(): once under the bucket mutex with a granted
\* request, "The fast path for decrementing multiple references did already
\* ensure request->recursiveCount == 0".
FastPathEnsuresLastReference ==
    \A l \in Lockers :
        (pc[l] = "unlock" /\ req[l][op[l].res].status = "GRANTED")
            => req[l][op[l].res].recursiveCount = 0

\* A grant notification is delivered at most once per wait, and only to a
\* thread that waits or is about to cancel: the invariant in
\* CondVarLockGrantNotification::notify.
NotifiedAtMostOnce ==
    [][\A l \in Lockers : \A r \in Resources :
          (/\ req[l][r].status \in {"WAITING", "CONVERTING"}
           /\ req'[l][r].status = "GRANTED"
           /\ req'[l][r].convertMode = "NONE"
           /\ notify'[l])
          => ~ notify[l] /\ pc[l] \in {"wait", "cancel", "unlock"}]_vars

=============================================================================
