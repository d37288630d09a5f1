------------------------- MODULE LockManagerInvariant -------------------------
(***************************************************************************)
(* The inductive invariant of the lock manager, and that it is preserved   *)
(* by the steps that change no queue, by the partitioned grants and by the *)
(* migration of partitions.  LockManagerSteps and LockManagerProofs have   *)
(* the remaining steps.                                                    *)
(***************************************************************************)
EXTENDS LockManager, LockRequestListProofs

USE ZenonT(60)

-----------------------------------------------------------------------------
(* The lock modes *)

\* The conflict table of the lock manager is symmetric.
LEMMA ConflictSymmetric ==
    ASSUME NEW a \in LockMode, NEW b \in LockMode
    PROVE  conflicts(a, {b}) <=> conflicts(b, {a})
BY DEF conflicts, LockConflictsTable, LockMode

\* A mode conflicts with a mask of modes when it conflicts with one of them.
LEMMA ConflictMember ==
    ASSUME NEW a, NEW M, NEW b \in M, ~ conflicts(a, M)
    PROVE  ~ conflicts(a, {b})
BY DEF conflicts

\* Intent modes are compatible with each other, which is what partitioning
\* relies on.
LEMMA IntentCompatible ==
    ASSUME NEW a \in intentModes, NEW b \in intentModes
    PROVE  ~ conflicts(a, {b})
BY DEF conflicts, LockConflictsTable, LockMode, intentModes

\* A covered mode conflicts with nothing its covering mode does not.
LEMMA CoveredConflict ==
    ASSUME NEW a, NEW m, NEW b, isModeCovered(m, a), ~ conflicts(a, {b})
    PROVE  ~ conflicts(m, {b})
BY DEF conflicts, isModeCovered

\* Every mode that an intent mode covers is an intent mode.
LEMMA CoveredByIntent ==
    ASSUME NEW a \in intentModes, NEW m \in RequestMode, isModeCovered(m, a)
    PROVE  m \in intentModes
BY DEF isModeCovered, LockConflictsTable, LockMode, RequestMode, intentModes

\* A mode covers itself, so a conversion asks for a different mode.
LEMMA CoveredRefl == ASSUME NEW m PROVE isModeCovered(m, m)
BY DEF isModeCovered

-----------------------------------------------------------------------------
(* The inductive invariant *)

\* No request is twice on a list.
ListsOK(r) ==
    /\ Distinct(granted[r])
    /\ Distinct(conflict[r])
    /\ \A p \in Partitions : Distinct(partList[r][p])

\* A request on the granted list of the LockHead is counted in its mode.
HeldOK(r) ==
    \A l \in Members(granted[r]) :
        /\ req[l][r].lock = "head"
        /\ req[l][r].status \in {"GRANTED", "CONVERTING"}
        /\ <<l, req[l][r].mode>> \in grantedCounts[r]

\* Whatever is counted is granted or converting in that mode.
CountedOK(r) ==
    \A c \in grantedCounts[r] :
        \/ c[1] \in Members(granted[r]) /\ c[2] = req[c[1]][r].mode
        \/ req[c[1]][r].status = "CONVERTING" /\ c[2] = req[c[1]][r].convertMode

\* A pending conversion is counted in the mode it is to have, which is not
\* the mode it has; a request that was not submitted is on no lock.
ConvertingOK(r) ==
    \A l \in Lockers :
        /\ req[l][r].status = "CONVERTING" =>
              /\ <<l, req[l][r].convertMode>> \in grantedCounts[r]
              /\ req[l][r].convertMode # req[l][r].mode
        /\ req[l][r].status = "NEW" => req[l][r].lock = "none"

WaitingOK(r) ==
    \A l \in Members(conflict[r]) :
        /\ req[l][r].lock = "head"
        /\ req[l][r].status = "WAITING"
        /\ <<l, req[l][r].mode>> \in conflictCounts[r]

\* The requests of a PartitionedLockHead are granted intent locks.
InPartitionOK(r) ==
    \A p \in Partitions : \A l \in Members(partList[r][p]) :
        /\ PartitionOf[l] = p
        /\ req[l][r].lock = "partition"
        /\ req[l][r].status = "GRANTED"
        /\ req[l][r].mode \in intentModes
        /\ p \in partHeads[r]

PartitionedOK(r) ==
    /\ partHeads[r] \subseteq partitions[r]
    /\ partitions[r] # {} => CanPartition(r)

CompatibleOK(r) ==
    \A l1, l2 \in Members(granted[r]) :
        l1 # l2 => ~ conflicts(req[l1][r].mode, {req[l2][r].mode})

ResourceOK(r) ==
    /\ ListsOK(r) /\ HeldOK(r) /\ CountedOK(r) /\ ConvertingOK(r)
    /\ WaitingOK(r) /\ InPartitionOK(r) /\ PartitionedOK(r) /\ CompatibleOK(r)

\* What a thread in the middle of a call relies on.
ThreadOK(l) ==
    LET q == req[l][op[l].res] IN
    /\ pc[l] = "lock" =>
          /\ q.status = "NEW"
          /\ q.partitioned => op[l].mode \in intentModes
    /\ pc[l] = "convert" =>
          /\ q.status = "GRANTED"
          /\ op[l].mode # q.mode
    /\ pc[l] \in {"convert", "wait", "cancel"} => q.recursiveCount > 0

IndInv ==
    /\ TypeOK
    /\ \A r \in Resources : ResourceOK(r)
    /\ \A l \in Lockers : ThreadOK(l)

\* The arguments of no call are arguments.
LEMMA NoOpType == NoOp \in Operation
BY ConstantsAssumption DEF NoOp, LockMode, Operation

\* The arguments of a call are a resource and a mode.
LEMMA OperationTypes ==
    ASSUME TypeOK, NEW l \in Lockers
    PROVE  op[l].res \in Resources /\ op[l].mode \in LockMode
BY DEF TypeOK, Operation

\* A first reference is within the bound on recursiveCount.
LEMMA OneReference == 1 \in 0..MaxRecursion
BY ConstantsAssumption, SMT

\* LockRequest::initNew makes a request.
LEMMA InitNewType == initNew \in Request
BY ConstantsAssumption, SMT DEF initNew, Request, LockMode

\* A step that changes one request leaves the others alone.
LEMMA ReqUpdate ==
    ASSUME TypeOK, NEW l \in Lockers, NEW r \in Resources,
           NEW q \in Request, SetRequest(l, r, q)
    PROVE  /\ req' \in [Lockers -> [Resources -> Request]]
           /\ req'[l][r] = q
           /\ \A l2 \in Lockers, r2 \in Resources :
                 l2 # l \/ r2 # r => req'[l2][r2] = req[l2][r2]
BY DEF TypeOK, SetRequest

\* The lists and counts of r.
HeadState(r) ==
    <<granted[r], grantedCounts[r], conflict[r], conflictCounts[r],
      partitions[r], partHeads[r], partList[r]>>

\* A step that leaves the queues of a resource, and the status, the modes and
\* the lock of its requests alone, preserves the invariant of the resource.
LEMMA FrameResource ==
    ASSUME TypeOK, NEW r \in Resources, ResourceOK(r), HeadState(r)' = HeadState(r),
           \A l \in Lockers :
              /\ req'[l][r].status = req[l][r].status
              /\ req'[l][r].mode = req[l][r].mode
              /\ req'[l][r].convertMode = req[l][r].convertMode
              /\ req'[l][r].lock = req[l][r].lock
    PROVE  ResourceOK(r)'
<1>1. /\ granted'[r] = granted[r] /\ grantedCounts'[r] = grantedCounts[r]
      /\ conflict'[r] = conflict[r] /\ conflictCounts'[r] = conflictCounts[r]
      /\ partitions'[r] = partitions[r] /\ partHeads'[r] = partHeads[r]
      /\ partList'[r] = partList[r]
  BY DEF HeadState
<1>2. /\ Members(granted[r]) \subseteq Lockers
      /\ Members(conflict[r]) \subseteq Lockers
      /\ \A p \in Partitions : Members(partList[r][p]) \subseteq Lockers
      /\ grantedCounts[r] \subseteq Lockers \X LockMode
  BY ListMembers, SMT DEF TypeOK
<1>3. ListsOK(r)'
  BY <1>1 DEF ResourceOK, ListsOK
<1>4. HeldOK(r)'
  BY <1>1, <1>2 DEF ResourceOK, HeldOK
<1>5. CountedOK(r)'
  BY <1>1, <1>2, SMT DEF ResourceOK, CountedOK
<1>6. ConvertingOK(r)'
  BY <1>1 DEF ResourceOK, ConvertingOK
<1>7. WaitingOK(r)'
  BY <1>1, <1>2 DEF ResourceOK, WaitingOK
<1>8. InPartitionOK(r)'
  BY <1>1, <1>2, SMT DEF ResourceOK, InPartitionOK
<1>9. PartitionedOK(r)'
  BY <1>1 DEF ResourceOK, PartitionedOK, CanPartition, GrantedModes, ConflictModes
<1>10. CompatibleOK(r)'
  BY <1>1, <1>2 DEF ResourceOK, CompatibleOK
<1> QED BY <1>3, <1>4, <1>5, <1>6, <1>7, <1>8, <1>9, <1>10 DEF ResourceOK

\* A step of another thread that leaves to a thread what it relies on.
LEMMA FrameThread ==
    ASSUME NEW l \in Lockers, ThreadOK(l), pc'[l] = pc[l], op'[l] = op[l],
           LET q == req[l][op[l].res] IN
           /\ pc[l] = "lock" => req'[l][op[l].res] = q
           /\ pc[l] = "convert" =>
                 /\ req'[l][op[l].res].status = q.status
                 /\ req'[l][op[l].res].mode = q.mode
           /\ req'[l][op[l].res].recursiveCount = q.recursiveCount
    PROVE  ThreadOK(l)'
BY DEF ThreadOK

\* A thread that is in none of these calls relies on nothing.
LEMMA IdleThread ==
    ASSUME NEW l \in Lockers, pc'[l] \notin {"lock", "convert", "wait", "cancel"}
    PROVE  ThreadOK(l)'
BY DEF ThreadOK

\* The threads other than l, in a step that leaves their calls and requests.
LEMMA OtherThreads ==
    ASSUME IndInv, NEW l \in Lockers,
           \A l2 \in Lockers \ {l} :
              /\ pc'[l2] = pc[l2] /\ op'[l2] = op[l2]
              /\ \A r2 \in Resources : req'[l2][r2] = req[l2][r2],
           ThreadOK(l)'
    PROVE  \A l2 \in Lockers : ThreadOK(l2)'
<1> SUFFICES ASSUME NEW l2 \in Lockers, l2 # l PROVE ThreadOK(l2)'
  OBVIOUS
<1>1. op[l2].res \in Resources
  BY DEF IndInv, TypeOK, Operation
<1>2. ThreadOK(l2)
  BY DEF IndInv
<1> QED BY <1>1, <1>2, FrameThread

\* Leaving a call.
LEMMA ReturnStep ==
    ASSUME TypeOK, NEW l \in Lockers, Return(l)
    PROVE  /\ pc' \in [Lockers -> Location]
           /\ op' \in [Lockers -> Operation]
           /\ notify' \in [Lockers -> BOOLEAN]
           /\ pc'[l] = "idle"
           /\ \A l2 \in Lockers \ {l} : pc'[l2] = pc[l2] /\ op'[l2] = op[l2]
<1> DEFINE n == NoOp
<1>1. n \in Operation
  BY NoOpType
<1>2. op' = [op EXCEPT ![l] = n]
  BY DEF Return
<1> HIDE DEF n
<1>3. /\ op' \in [Lockers -> Operation]
      /\ \A l2 \in Lockers \ {l} : op'[l2] = op[l2]
  BY <1>1, <1>2 DEF TypeOK
<1> QED BY <1>3 DEF TypeOK, Return, Location

-----------------------------------------------------------------------------
(* Steps that change no queue *)

\* A step that changes no queue and no submitted request preserves the invariant.
LEMMA LightStep ==
    ASSUME IndInv, TypeOK', UNCHANGED <<headVars, partVars>>,
           \A l \in Lockers, r \in Resources :
              /\ req'[l][r].status = req[l][r].status
              /\ req'[l][r].mode = req[l][r].mode
              /\ req'[l][r].convertMode = req[l][r].convertMode
              /\ req'[l][r].lock = req[l][r].lock,
           \A l \in Lockers : ThreadOK(l)'
    PROVE  IndInv'
<1> SUFFICES ASSUME NEW r \in Resources PROVE ResourceOK(r)'
  BY DEF IndInv
<1>1. HeadState(r)' = HeadState(r)
  BY DEF HeadState, headVars, partVars
<1> QED BY <1>1, FrameResource DEF IndInv

\* lock() outside the mutex preserves the invariant.
LEMMA StepLockBegin ==
    ASSUME IndInv, NEW l \in Lockers, NEW r \in Resources, NEW m \in RequestMode,
           LockBegin(l, r, m)
    PROVE  IndInv'
<1> DEFINE q == [req[l][r] EXCEPT !.partitioned = m \in intentModes,
                                  !.compatibleFirst = IsPriority(r, m)]
<1>1. TypeOK /\ req[l][r] \in Request
  BY DEF IndInv, TypeOK
<1>2. IsPriority(r, m) \in BOOLEAN /\ (m \in intentModes) \in BOOLEAN
  BY SMT DEF IsPriority
<1>3. /\ q \in Request
      /\ q.status = req[l][r].status /\ q.mode = req[l][r].mode
      /\ q.convertMode = req[l][r].convertMode /\ q.lock = req[l][r].lock
      /\ q.partitioned = (m \in intentModes)
  BY <1>1, <1>2 DEF Request
<1>4. SetRequest(l, r, q)
  BY DEF LockBegin
<1> HIDE DEF q
<1>5. /\ req' \in [Lockers -> [Resources -> Request]]
      /\ req'[l][r] = q
      /\ \A l2 \in Lockers, r2 \in Resources :
            l2 # l \/ r2 # r => req'[l2][r2] = req[l2][r2]
  BY <1>1, <1>3, <1>4, ReqUpdate
<1>6. /\ op' \in [Lockers -> Operation]
      /\ op'[l].res = r /\ op'[l].mode = m
      /\ \A l2 \in Lockers \ {l} : op'[l2] = op[l2]
  <2> DEFINE n == [op[l] EXCEPT !.res = r, !.mode = m]
  <2>1. op \in [Lockers -> Operation] /\ op[l] \in Operation
    BY <1>1 DEF TypeOK
  <2>2. n \in Operation /\ n.res = r /\ n.mode = m
    BY <2>1 DEF Operation, RequestMode
  <2>3. op' = [op EXCEPT ![l] = n]
    BY DEF LockBegin
  <2> HIDE DEF n
  <2> QED BY <2>1, <2>2, <2>3
<1>7. /\ pc' \in [Lockers -> Location]
      /\ pc'[l] = "lock"
      /\ \A l2 \in Lockers \ {l} : pc'[l2] = pc[l2]
  BY <1>1 DEF LockBegin, TypeOK, Location
<1>8. TypeOK'
  BY <1>1, <1>5, <1>6, <1>7 DEF LockBegin, TypeOK, headVars, partVars
<1>9. ThreadOK(l)'
  BY <1>3, <1>5, <1>6, <1>7 DEF LockBegin, ThreadOK
<1>10. \A l2 \in Lockers : ThreadOK(l2)'
  BY <1>5, <1>6, <1>7, <1>9, OtherThreads
<1> QED BY <1>3, <1>5, <1>8, <1>10, LightStep DEF LockBegin

\* convert() to a mode that is covered preserves the invariant.
LEMMA StepReacquire ==
    ASSUME IndInv, NEW l \in Lockers, NEW r \in Resources, NEW m \in RequestMode,
           Reacquire(l, r, m)
    PROVE  IndInv'
<1> DEFINE q == Referenced(req[l][r])
<1>1. TypeOK /\ req[l][r] \in Request
  BY DEF IndInv, TypeOK
<1>2. req[l][r].recursiveCount + 1 \in 0..MaxRecursion
  BY <1>1, ConstantsAssumption, SMT DEF Reacquire, Request
<1>3. /\ q \in Request
      /\ q.status = req[l][r].status /\ q.mode = req[l][r].mode
      /\ q.convertMode = req[l][r].convertMode /\ q.lock = req[l][r].lock
  BY <1>1, <1>2 DEF Request, Referenced
<1>4. SetRequest(l, r, q)
  BY DEF Reacquire
<1> HIDE DEF q
<1>5. /\ req' \in [Lockers -> [Resources -> Request]]
      /\ req'[l][r] = q
      /\ \A l2 \in Lockers, r2 \in Resources :
            l2 # l \/ r2 # r => req'[l2][r2] = req[l2][r2]
  BY <1>1, <1>3, <1>4, ReqUpdate
<1>6. TypeOK'
  BY <1>1, <1>5 DEF Reacquire, TypeOK, headVars, partVars
<1>7. ThreadOK(l)'
  BY IdleThread DEF Reacquire
<1>8. \A l2 \in Lockers : ThreadOK(l2)'
  BY <1>5, <1>7, OtherThreads DEF Reacquire
<1> QED BY <1>3, <1>5, <1>6, <1>8, LightStep DEF Reacquire

\* convert() before the bucket mutex preserves the invariant.
LEMMA StepConvertBegin ==
    ASSUME IndInv, NEW l \in Lockers, NEW r \in Resources, NEW m \in RequestMode,
           ConvertBegin(l, r, m)
    PROVE  IndInv'
<1> DEFINE q == Referenced(req[l][r])
<1>1. TypeOK /\ req[l][r] \in Request
  BY DEF IndInv, TypeOK
<1>2. /\ req[l][r].recursiveCount + 1 \in 0..MaxRecursion
      /\ req[l][r].recursiveCount + 1 > 0
  BY <1>1, ConstantsAssumption, SMT DEF ConvertBegin, Request
<1>3. /\ q \in Request
      /\ q.status = req[l][r].status /\ q.mode = req[l][r].mode
      /\ q.convertMode = req[l][r].convertMode /\ q.lock = req[l][r].lock
      /\ q.recursiveCount > 0
  BY <1>1, <1>2 DEF Request, Referenced
<1>4. SetRequest(l, r, q)
  BY DEF ConvertBegin
<1> HIDE DEF q
<1>5. /\ req' \in [Lockers -> [Resources -> Request]]
      /\ req'[l][r] = q
      /\ \A l2 \in Lockers, r2 \in Resources :
            l2 # l \/ r2 # r => req'[l2][r2] = req[l2][r2]
  BY <1>1, <1>3, <1>4, ReqUpdate
<1>6. /\ op' \in [Lockers -> Operation]
      /\ op'[l].res = r /\ op'[l].mode = m
      /\ \A l2 \in Lockers \ {l} : op'[l2] = op[l2]
  <2> DEFINE n == [op[l] EXCEPT !.res = r, !.mode = m]
  <2>1. op \in [Lockers -> Operation] /\ op[l] \in Operation
    BY <1>1 DEF TypeOK
  <2>2. n \in Operation /\ n.res = r /\ n.mode = m
    BY <2>1 DEF Operation, RequestMode
  <2>3. op' = [op EXCEPT ![l] = n]
    BY DEF ConvertBegin
  <2> HIDE DEF n
  <2> QED BY <2>1, <2>2, <2>3
<1>7. /\ pc' \in [Lockers -> Location]
      /\ pc'[l] = "convert"
      /\ \A l2 \in Lockers \ {l} : pc'[l2] = pc[l2]
  BY <1>1 DEF ConvertBegin, TypeOK, Location
<1>8. TypeOK'
  BY <1>1, <1>5, <1>6, <1>7 DEF ConvertBegin, TypeOK, headVars, partVars
<1>9. m # req[l][r].mode
  BY CoveredRefl DEF ConvertBegin
<1>10. ThreadOK(l)'
  BY <1>3, <1>5, <1>6, <1>7, <1>9 DEF ConvertBegin, ThreadOK
<1>11. \A l2 \in Lockers : ThreadOK(l2)'
  BY <1>5, <1>6, <1>7, <1>10, OtherThreads
<1> QED BY <1>3, <1>5, <1>8, <1>11, LightStep DEF ConvertBegin

\* A wait that ends with a grant preserves the invariant.
LEMMA StepWakeUp ==
    ASSUME IndInv, NEW l \in Lockers, WakeUp(l)
    PROVE  IndInv'
<1>1. TypeOK
  BY DEF IndInv
<1>2. Return(l) /\ req' = req
  BY DEF WakeUp
<1>3. TypeOK'
  BY <1>1, <1>2, ReturnStep DEF WakeUp, TypeOK, headVars, partVars
<1>4. ThreadOK(l)'
  BY <1>1, <1>2, ReturnStep, IdleThread
<1>5. \A l2 \in Lockers : ThreadOK(l2)'
  BY <1>1, <1>2, <1>4, ReturnStep, OtherThreads
<1> QED BY <1>2, <1>3, <1>5, LightStep DEF WakeUp

\* A wait that times out preserves the invariant.
LEMMA StepGiveUp ==
    ASSUME IndInv, NEW l \in Lockers, GiveUp(l)
    PROVE  IndInv'
<1>1. TypeOK /\ ThreadOK(l)
  BY DEF IndInv
<1>2. /\ pc' \in [Lockers -> Location]
      /\ pc'[l] = "cancel"
      /\ \A l2 \in Lockers \ {l} : pc'[l2] = pc[l2]
  BY <1>1 DEF GiveUp, TypeOK, Location
<1>3. TypeOK'
  BY <1>1, <1>2 DEF GiveUp, TypeOK, headVars, partVars
<1>4. ThreadOK(l)'
  BY <1>1, <1>2 DEF GiveUp, ThreadOK
<1>5. \A l2 \in Lockers : ThreadOK(l2)'
  BY <1>2, <1>4, OtherThreads DEF GiveUp
<1> QED BY <1>3, <1>5, LightStep DEF GiveUp

\* unlock() of one reference among several preserves the invariant.
LEMMA StepUnlockReference ==
    ASSUME IndInv, NEW l \in Lockers, NEW r \in Resources, UnlockReference(l, r)
    PROVE  IndInv'
<1> DEFINE q == Unreferenced(req[l][r])
<1>1. TypeOK /\ req[l][r] \in Request
  BY DEF IndInv, TypeOK
<1>2. req[l][r].recursiveCount - 1 \in 0..MaxRecursion
  BY <1>1, ConstantsAssumption, SMT DEF UnlockReference, Request
<1>3. /\ q \in Request
      /\ q.status = req[l][r].status /\ q.mode = req[l][r].mode
      /\ q.convertMode = req[l][r].convertMode /\ q.lock = req[l][r].lock
  BY <1>1, <1>2 DEF Request, Unreferenced
<1>4. SetRequest(l, r, q) /\ Return(l)
  BY DEF UnlockReference
<1> HIDE DEF q
<1>5. /\ req' \in [Lockers -> [Resources -> Request]]
      /\ req'[l][r] = q
      /\ \A l2 \in Lockers, r2 \in Resources :
            l2 # l \/ r2 # r => req'[l2][r2] = req[l2][r2]
  BY <1>1, <1>3, <1>4, ReqUpdate
<1>6. TypeOK'
  BY <1>1, <1>4, <1>5, ReturnStep DEF UnlockReference, TypeOK, headVars, partVars
<1>7. ThreadOK(l)'
  BY <1>1, <1>4, ReturnStep, IdleThread
<1>8. \A l2 \in Lockers : ThreadOK(l2)'
  BY <1>1, <1>4, <1>5, <1>7, ReturnStep, OtherThreads
<1> QED BY <1>3, <1>5, <1>6, <1>8, LightStep DEF UnlockReference

\* unlock() before the bucket mutex preserves the invariant.
LEMMA StepUnlockBegin ==
    ASSUME IndInv, NEW l \in Lockers, NEW r \in Resources, UnlockBegin(l, r)
    PROVE  IndInv'
<1> DEFINE q == Unreferenced(req[l][r])
<1>1. TypeOK /\ req[l][r] \in Request /\ ThreadOK(l)
  BY DEF IndInv, TypeOK
<1>2. req[l][r].recursiveCount > 0
  BY <1>1, SMT DEF UnlockBegin, ThreadOK
<1>3. req[l][r].recursiveCount - 1 \in 0..MaxRecursion
  BY <1>1, <1>2, ConstantsAssumption, SMT DEF Request
<1>4. /\ q \in Request
      /\ q.status = req[l][r].status /\ q.mode = req[l][r].mode
      /\ q.convertMode = req[l][r].convertMode /\ q.lock = req[l][r].lock
  BY <1>1, <1>3 DEF Request, Unreferenced
<1>5. SetRequest(l, r, q)
  BY DEF UnlockBegin
<1> HIDE DEF q
<1>6. /\ req' \in [Lockers -> [Resources -> Request]]
      /\ req'[l][r] = q
      /\ \A l2 \in Lockers, r2 \in Resources :
            l2 # l \/ r2 # r => req'[l2][r2] = req[l2][r2]
  BY <1>1, <1>4, <1>5, ReqUpdate
<1>7. /\ op' \in [Lockers -> Operation]
      /\ \A l2 \in Lockers \ {l} : op'[l2] = op[l2]
  <2> DEFINE n == [op[l] EXCEPT !.res = r]
  <2>1. op \in [Lockers -> Operation] /\ op[l] \in Operation
    BY <1>1 DEF TypeOK
  <2>2. n \in Operation
    BY <2>1 DEF Operation
  <2>3. op' = [op EXCEPT ![l] = n]
    BY DEF UnlockBegin
  <2> HIDE DEF n
  <2> QED BY <2>1, <2>2, <2>3
<1>8. /\ pc' \in [Lockers -> Location]
      /\ pc'[l] = "unlock"
      /\ \A l2 \in Lockers \ {l} : pc'[l2] = pc[l2]
  BY <1>1 DEF UnlockBegin, TypeOK, Location
<1>9. TypeOK'
  BY <1>1, <1>6, <1>7, <1>8 DEF UnlockBegin, TypeOK, headVars, partVars
<1>10. ThreadOK(l)'
  BY <1>8, IdleThread
<1>11. \A l2 \in Lockers : ThreadOK(l2)'
  BY <1>6, <1>7, <1>8, <1>10, OtherThreads
<1> QED BY <1>4, <1>6, <1>9, <1>11, LightStep DEF UnlockBegin

\* The end of _onLockModeChanged's first loop preserves the invariant.
LEMMA StepScanConversionsDone ==
    ASSUME IndInv, NEW l \in Lockers, ScanConversionsDone(l)
    PROVE  IndInv'
<1>1. TypeOK
  BY DEF IndInv
<1>2. /\ pc' \in [Lockers -> Location]
      /\ pc'[l] = "scanConflicts"
      /\ \A l2 \in Lockers \ {l} : pc'[l2] = pc[l2]
  BY <1>1 DEF ScanConversionsDone, TypeOK, Location
<1>3. TypeOK'
  BY <1>1, <1>2, SMT DEF ScanConversionsDone, TypeOK, headVars, partVars
<1>4. ThreadOK(l)'
  BY <1>2, IdleThread
<1>5. \A l2 \in Lockers : ThreadOK(l2)'
  BY <1>2, <1>4, OtherThreads DEF ScanConversionsDone
<1> QED BY <1>3, <1>5, LightStep DEF ScanConversionsDone

\* The end of _onLockModeChanged preserves the invariant.
LEMMA StepScanDone ==
    ASSUME IndInv, NEW l \in Lockers, ScanDone(l)
    PROVE  IndInv'
<1>1. TypeOK
  BY DEF IndInv
<1>2. Return(l) /\ req' = req
  BY DEF ScanDone
<1>3. TypeOK'
  <2>1. bucket' \in [Resources -> Threads \cup {NoThread}]
    BY <1>1 DEF ScanDone, TypeOK
  <2>2. cursor' \in [Lockers -> Nat \ {0}]
    BY <1>1, SMT DEF ScanDone, TypeOK
  <2>3. UNCHANGED <<req, headVars, partVars>>
    BY DEF ScanDone
  <2> QED BY <1>1, <1>2, <2>1, <2>2, <2>3, ReturnStep DEF TypeOK, headVars, partVars
<1>4. ThreadOK(l)'
  BY <1>1, <1>2, ReturnStep, IdleThread
<1>5. \A l2 \in Lockers : ThreadOK(l2)'
  BY <1>1, <1>2, <1>4, ReturnStep, OtherThreads
<1> QED BY <1>2, <1>3, <1>5, LightStep DEF ScanDone

\* The cleaner's removal of unused locks preserves the invariant.
LEMMA StepCleanupDone ==
    ASSUME IndInv, NEW r \in Resources, CleanupDone(r)
    PROVE  IndInv'
<1>1. TypeOK'
  BY DEF IndInv, CleanupDone, TypeOK, headVars, partVars
<1>2. \A l \in Lockers : ThreadOK(l)'
  BY DEF IndInv, CleanupDone, ThreadOK
<1> QED BY <1>1, <1>2, LightStep DEF CleanupDone

-----------------------------------------------------------------------------
(* Steps that change the queues of one resource *)

\* The lists of r hold lockers, and the counts pair lockers with modes.
LEMMA ResourceTypes ==
    ASSUME TypeOK, NEW r \in Resources
    PROVE  /\ granted[r] \in Seq(Lockers) /\ Members(granted[r]) \subseteq Lockers
           /\ conflict[r] \in Seq(Lockers) /\ Members(conflict[r]) \subseteq Lockers
           /\ \A p \in Partitions : /\ partList[r][p] \in Seq(Lockers)
                                    /\ Members(partList[r][p]) \subseteq Lockers
           /\ grantedCounts[r] \subseteq Lockers \X LockMode
           /\ conflictCounts[r] \subseteq Lockers \X LockMode
           /\ \A l \in Lockers : req[l][r] \in Request
BY ListMembers, SMT DEF TypeOK

\* What a step on one resource leaves alone on the others.
LEMMA OtherResources ==
    ASSUME IndInv, NEW r \in Resources, ResourceOK(r)',
           \A r2 \in Resources \ {r} :
              /\ HeadState(r2)' = HeadState(r2)
              /\ \A l \in Lockers : req'[l][r2] = req[l][r2]
    PROVE  \A r2 \in Resources : ResourceOK(r2)'
<1> SUFFICES ASSUME NEW r2 \in Resources \ {r} PROVE ResourceOK(r2)'
  OBVIOUS
<1> QED BY FrameResource DEF IndInv

\* A request that was not submitted, or that waits, is on no granted list.
LEMMA OnNoGrantedList ==
    ASSUME NEW r \in Resources, ResourceOK(r), NEW l \in Lockers,
           req[l][r].status \in {"NEW", "WAITING"}
    PROVE  /\ l \notin Members(granted[r])
           /\ \A p \in Partitions : l \notin Members(partList[r][p])
           /\ \A c \in grantedCounts[r] : c[1] # l
           /\ req[l][r].status = "NEW" => l \notin Members(conflict[r])
BY DEF ResourceOK, HeldOK, InPartitionOK, CountedOK, WaitingOK

\* Nothing on the granted side changes when a request that is not there does.
LEMMA FrameGranted ==
    ASSUME TypeOK, NEW r \in Resources, ResourceOK(r), NEW l \in Lockers,
           l \notin Members(granted[r]),
           \A p \in Partitions : l \notin Members(partList[r][p]),
           \A c \in grantedCounts[r] : c[1] # l,
           \A l2 \in Lockers \ {l} : req'[l2][r] = req[l2][r],
           granted'[r] = granted[r], grantedCounts'[r] = grantedCounts[r],
           partHeads'[r] = partHeads[r], partList'[r] = partList[r]
    PROVE  HeldOK(r)' /\ CountedOK(r)' /\ InPartitionOK(r)' /\ CompatibleOK(r)'
<1>1. /\ Members(granted[r]) \subseteq Lockers \ {l}
      /\ \A p \in Partitions : Members(partList[r][p]) \subseteq Lockers \ {l}
      /\ \A c \in grantedCounts[r] : c[1] \in Lockers \ {l}
  BY ResourceTypes
<1>2. HeldOK(r)'
  BY <1>1 DEF ResourceOK, HeldOK
<1>3. CountedOK(r)'
  BY <1>1 DEF ResourceOK, CountedOK
<1>4. InPartitionOK(r)'
  BY <1>1 DEF ResourceOK, InPartitionOK
<1>5. CompatibleOK(r)'
  BY <1>1 DEF ResourceOK, CompatibleOK
<1> QED BY <1>2, <1>3, <1>4, <1>5

\* Granting an intent lock on a PartitionedLockHead.
LEMMA PartitionGrant ==
    ASSUME IndInv, NEW l \in Lockers, NEW r \in Resources, NEW m \in intentModes,
           req[l][r].status = "NEW", PartitionNewRequest(l, r, m),
           UNCHANGED headVars,
           PartitionOf[l] \in partHeads'[r], partHeads[r] \subseteq partHeads'[r],
           partHeads'[r] \subseteq partitions'[r], CanPartition(r)
    PROVE  /\ req' \in [Lockers -> [Resources -> Request]]
           /\ partList' \in [Resources -> [Partitions -> Seq(Lockers)]]
           /\ \A l2 \in Lockers, r2 \in Resources :
                 l2 # l \/ r2 # r => req'[l2][r2] = req[l2][r2]
           /\ \A r2 \in Resources \ {r} : partList'[r2] = partList[r2]
           /\ ResourceOK(r)'
<1> DEFINE q == Submitted(req[l][r], m, "GRANTED", "partition")
           p == PartitionOf[l]
<1>0. p \in Partitions
  BY ConstantsAssumption
<1>1. TypeOK /\ req[l][r] \in Request /\ ResourceOK(r) /\ p \in Partitions
  BY <1>0 DEF IndInv, TypeOK
<1>2. m \in LockMode
  BY DEF intentModes, LockMode
<1>3. /\ q \in Request
      /\ q.status = "GRANTED" /\ q.mode = m /\ q.lock = "partition"
  BY <1>1, <1>2, OneReference DEF Request, Submitted
<1>4. SetRequest(l, r, q)
  BY DEF PartitionNewRequest
<1> HIDE DEF q
<1>5. /\ req' \in [Lockers -> [Resources -> Request]]
      /\ req'[l][r] = q
      /\ \A l2 \in Lockers, r2 \in Resources :
            l2 # l \/ r2 # r => req'[l2][r2] = req[l2][r2]
  BY <1>1, <1>3, <1>4, ReqUpdate
<1>6. /\ partList' \in [Resources -> [Partitions -> Seq(Lockers)]]
      /\ \A r2 \in Resources \ {r} : partList'[r2] = partList[r2]
      /\ partList'[r][p] = push_back(partList[r][p], l)
      /\ \A p2 \in Partitions \ {p} : partList'[r][p2] = partList[r][p2]
  <2>1. partList[r][p] \in Seq(Lockers)
    BY <1>1 DEF TypeOK
  <2>2. push_back(partList[r][p], l) \in Seq(Lockers)
    BY <2>1, PushBackList
  <2> QED BY <1>1, <2>2 DEF PartitionNewRequest, TypeOK
<1>7. /\ Members(partList'[r][p]) = Members(partList[r][p]) \cup {l}
      /\ Distinct(partList[r][p]) /\ l \notin Members(partList[r][p])
            => Distinct(partList'[r][p])
  <2>1. partList[r][p] \in Seq(Lockers)
    BY <1>1 DEF TypeOK
  <2> QED BY <2>1, <1>6, PushBackList, SMT
<1>8. /\ l \notin Members(granted[r])
      /\ \A p2 \in Partitions : l \notin Members(partList[r][p2])
      /\ \A c \in grantedCounts[r] : c[1] # l
      /\ l \notin Members(conflict[r])
  BY <1>1, OnNoGrantedList
<1>9. /\ granted'[r] = granted[r] /\ grantedCounts'[r] = grantedCounts[r]
      /\ conflict'[r] = conflict[r] /\ conflictCounts'[r] = conflictCounts[r]
  BY DEF headVars
<1>10. /\ Members(granted[r]) \subseteq Lockers
       /\ Members(conflict[r]) \subseteq Lockers
       /\ \A p2 \in Partitions : Members(partList[r][p2]) \subseteq Lockers
       /\ grantedCounts[r] \subseteq Lockers \X LockMode
  BY <1>1, ResourceTypes
<1> HIDE DEF p
<1>11. ListsOK(r)'
  BY <1>1, <1>6, <1>7, <1>8, <1>9 DEF ResourceOK, ListsOK
<1>12. HeldOK(r)'
  BY <1>1, <1>5, <1>8, <1>9, <1>10 DEF ResourceOK, HeldOK
<1>13. CountedOK(r)'
  BY <1>1, <1>5, <1>8, <1>9, <1>10, SMT DEF ResourceOK, CountedOK
<1>14. ConvertingOK(r)'
  BY <1>1, <1>3, <1>5, <1>9 DEF ResourceOK, ConvertingOK
<1>15. WaitingOK(r)'
  BY <1>1, <1>5, <1>8, <1>9, <1>10 DEF ResourceOK, WaitingOK
<1>16. InPartitionOK(r)'
  <2>1. p \in partHeads'[r] /\ PartitionOf[l] = p
    BY DEF p
  <2> SUFFICES ASSUME NEW p2 \in Partitions, NEW l2 \in Members(partList'[r][p2])
               PROVE  /\ PartitionOf[l2] = p2
                      /\ req'[l2][r].lock = "partition"
                      /\ req'[l2][r].status = "GRANTED"
                      /\ req'[l2][r].mode \in intentModes
                      /\ p2 \in partHeads'[r]
    BY DEF InPartitionOK
  <2>2. CASE l2 = l
    BY <1>3, <1>5, <1>6, <1>8, <2>1, <2>2
  <2>3. CASE l2 # l
    <3>1. l2 \in Members(partList[r][p2])
      BY <1>6, <1>7, <2>3
    <3>2. l2 \in Lockers /\ req'[l2][r] = req[l2][r]
      BY <1>5, <1>10, <2>3, <3>1
    <3>3. InPartitionOK(r)
      BY <1>1 DEF ResourceOK
    <3> QED BY <3>1, <3>2, <3>3 DEF InPartitionOK
  <2> QED BY <2>2, <2>3
<1>17. PartitionedOK(r)'
  BY <1>9 DEF PartitionedOK, CanPartition, GrantedModes, ConflictModes
<1>18. CompatibleOK(r)'
  BY <1>1, <1>5, <1>8, <1>9, <1>10 DEF ResourceOK, CompatibleOK
<1>19. ResourceOK(r)'
  BY <1>11, <1>12, <1>13, <1>14, <1>15, <1>16, <1>17, <1>18 DEF ResourceOK
<1> QED BY <1>5, <1>6, <1>19

\* lock() in an existing partition preserves the invariant.
LEMMA StepLockFast ==
    ASSUME IndInv, NEW l \in Lockers, NEW r \in Resources, NEW m \in RequestMode,
           LockFast(l, r, m)
    PROVE  IndInv'
<1>1. TypeOK /\ PartitionedOK(r)
  BY DEF IndInv, ResourceOK
<1>2. /\ UNCHANGED headVars /\ UNCHANGED <<partitions, partHeads>>
      /\ UNCHANGED <<bucket, pc, op, cursor, notify>>
      /\ m \in intentModes /\ req[l][r].status = "NEW" /\ pc[l] = "idle"
      /\ PartitionNewRequest(l, r, m) /\ PartitionOf[l] \in partHeads[r]
  BY DEF LockFast
<1>3. CanPartition(r) /\ partHeads[r] \subseteq partitions[r]
  BY <1>1, <1>2 DEF PartitionedOK
<1>4. /\ req' \in [Lockers -> [Resources -> Request]]
      /\ partList' \in [Resources -> [Partitions -> Seq(Lockers)]]
      /\ \A l2 \in Lockers, r2 \in Resources :
            l2 # l \/ r2 # r => req'[l2][r2] = req[l2][r2]
      /\ \A r2 \in Resources \ {r} : partList'[r2] = partList[r2]
      /\ ResourceOK(r)'
  BY <1>2, <1>3, PartitionGrant
<1>5. TypeOK'
  BY <1>1, <1>2, <1>4 DEF TypeOK, headVars
<1>6. \A r2 \in Resources \ {r} : HeadState(r2)' = HeadState(r2)
  BY <1>2, <1>4 DEF HeadState, headVars
<1>7. \A r2 \in Resources : ResourceOK(r2)'
  BY <1>4, <1>6, OtherResources
<1>8. ThreadOK(l)'
  BY <1>2, IdleThread
<1>9. \A l2 \in Lockers : ThreadOK(l2)'
  BY <1>2, <1>4, <1>8, OtherThreads
<1> QED BY <1>5, <1>7, <1>9 DEF IndInv

\* lock() that starts a partition preserves the invariant.
LEMMA StepLockStartPartition ==
    ASSUME IndInv, NEW l \in Lockers, NEW r \in Resources, r = op[l].res,
           LockStartPartition(l)
    PROVE  IndInv'
<1> DEFINE m == op[l].mode
<1>1. TypeOK /\ ThreadOK(l)
  BY DEF IndInv, TypeOK
<1>2. PartitionedOK(r) /\ PartitionOf[l] \in Partitions
  BY <1>1, ConstantsAssumption DEF IndInv, ResourceOK
<1>3. /\ UNCHANGED headVars
      /\ UNCHANGED <<bucket, cursor>>
      /\ PartitionNewRequest(l, r, m) /\ Return(l) /\ CanPartition(r)
      /\ partHeads' = [partHeads EXCEPT ![r] = @ \cup {PartitionOf[l]}]
      /\ partitions' = [partitions EXCEPT ![r] = @ \cup {PartitionOf[l]}]
  BY DEF LockStartPartition
<1>4. m \in intentModes /\ req[l][r].status = "NEW"
  BY <1>1 DEF LockStartPartition, ThreadOK
<1> HIDE DEF m
<1>5. /\ partHeads' \in [Resources -> SUBSET Partitions]
      /\ partHeads'[r] = partHeads[r] \cup {PartitionOf[l]}
      /\ \A r2 \in Resources \ {r} : partHeads'[r2] = partHeads[r2]
  BY <1>1, <1>2, <1>3 DEF TypeOK
<1>6. /\ partitions' \in [Resources -> SUBSET Partitions]
      /\ partitions'[r] = partitions[r] \cup {PartitionOf[l]}
      /\ \A r2 \in Resources \ {r} : partitions'[r2] = partitions[r2]
  BY <1>1, <1>2, <1>3 DEF TypeOK
<1>7. partHeads'[r] \subseteq partitions'[r]
  BY <1>2, <1>5, <1>6 DEF PartitionedOK
<1>8. /\ req' \in [Lockers -> [Resources -> Request]]
      /\ partList' \in [Resources -> [Partitions -> Seq(Lockers)]]
      /\ \A l2 \in Lockers, r2 \in Resources :
            l2 # l \/ r2 # r => req'[l2][r2] = req[l2][r2]
      /\ \A r2 \in Resources \ {r} : partList'[r2] = partList[r2]
      /\ ResourceOK(r)'
  BY <1>1, <1>3, <1>4, <1>5, <1>7, PartitionGrant, SMT
<1>9. TypeOK'
  BY <1>1, <1>3, <1>5, <1>6, <1>8, ReturnStep DEF TypeOK, headVars
<1>10. \A r2 \in Resources \ {r} : HeadState(r2)' = HeadState(r2)
  BY <1>3, <1>5, <1>6, <1>8 DEF HeadState, headVars
<1>11. \A r2 \in Resources : ResourceOK(r2)'
  BY <1>1, <1>8, <1>10, OtherResources
<1>12. ThreadOK(l)'
  BY <1>1, <1>3, ReturnStep, IdleThread
<1>13. \A l2 \in Lockers : ThreadOK(l2)'
  BY <1>1, <1>3, <1>8, <1>12, ReturnStep, OtherThreads
<1> QED BY <1>9, <1>11, <1>13 DEF IndInv

\* Moving the intent locks of a partition to the LockHead: their modes are
\* compatible with what is granted there, which are intent modes too.
LEMMA StepMigratePartition ==
    ASSUME IndInv, NEW t \in Threads, NEW r \in Resources, NEW p \in Partitions,
           MigratePartition(t, r, p), UNCHANGED <<pc, op, cursor, notify>>
    PROVE  IndInv'
<1> DEFINE moved == partList[r][p]
<1>1. TypeOK /\ ResourceOK(r)
  BY DEF IndInv
<1>2. /\ Members(granted[r]) \subseteq Lockers
      /\ Members(conflict[r]) \subseteq Lockers
      /\ \A p2 \in Partitions : Members(partList[r][p2]) \subseteq Lockers
      /\ grantedCounts[r] \subseteq Lockers \X LockMode
      /\ granted[r] \in Seq(Lockers) /\ moved \in Seq(Lockers)
      /\ \A l \in Lockers : req[l][r] \in Request
  BY <1>1, ResourceTypes
<1>3. \A l \in Members(moved) :
         /\ PartitionOf[l] = p
         /\ req[l][r].lock = "partition" /\ req[l][r].status = "GRANTED"
         /\ req[l][r].mode \in intentModes
         /\ l \notin Members(granted[r]) /\ l \notin Members(conflict[r])
         /\ \A p2 \in Partitions : l \in Members(partList[r][p2]) => p2 = p
  <2>1. InPartitionOK(r) /\ HeldOK(r) /\ WaitingOK(r)
    BY <1>1 DEF ResourceOK
  <2>2. \A l \in Members(moved) :
         /\ PartitionOf[l] = p
         /\ req[l][r].lock = "partition" /\ req[l][r].status = "GRANTED"
         /\ req[l][r].mode \in intentModes
    BY <2>1 DEF InPartitionOK
  <2>3. \A l \in Members(granted[r]) : req[l][r].lock = "head"
    BY <2>1 DEF HeldOK
  <2>4. \A l \in Members(conflict[r]) : req[l][r].status = "WAITING"
    BY <2>1 DEF WaitingOK
  <2>5. \A p2 \in Partitions : \A l \in Members(partList[r][p2]) : PartitionOf[l] = p2
    BY <2>1 DEF InPartitionOK
  <2> QED BY <2>2, <2>3, <2>4, <2>5
<1>4. CanPartition(r) /\ partHeads[r] \subseteq partitions[r]
  BY <1>1 DEF MigratePartition, ResourceOK, PartitionedOK
<1>5. /\ granted' = [granted EXCEPT ![r] = @ \o moved]
      /\ grantedCounts' = [grantedCounts EXCEPT ![r] =
                            @ \cup {<<l, req[l][r].mode>> : l \in Members(moved)}]
      /\ partHeads' = [partHeads EXCEPT ![r] = @ \ {p}]
      /\ partList' = [partList EXCEPT ![r][p] = <<>>]
      /\ partitions' = [partitions EXCEPT ![r] = @ \ {p}]
      /\ bucket' = [bucket EXCEPT ![r] = t]
      /\ UNCHANGED <<conflict, conflictCounts, conversions, compatibleFirst>>
  BY DEF MigratePartition
<1>6. /\ req' \in [Lockers -> [Resources -> Request]]
      /\ \A l \in Lockers, r2 \in Resources : r2 # r => req'[l][r2] = req[l][r2]
      /\ \A l \in Lockers : l \notin Members(moved) => req'[l][r] = req[l][r]
      /\ \A l \in Lockers : l \in Members(moved) =>
            req'[l][r] = [req[l][r] EXCEPT !.lock = "head"]
  <2>1. \A l \in Lockers : req[l] \in [Resources -> Request]
    BY <1>1 DEF TypeOK
  <2>2. \A q \in Request : [q EXCEPT !.lock = "head"] \in Request
    BY DEF Request
  <2>3. ASSUME NEW l \in Lockers
        PROVE  /\ req'[l] \in [Resources -> Request]
               /\ \A r2 \in Resources \ {r} : req'[l][r2] = req[l][r2]
               /\ l \notin Members(moved) => req'[l][r] = req[l][r]
               /\ l \in Members(moved) => req'[l][r] = [req[l][r] EXCEPT !.lock = "head"]
    <3> DEFINE q == [req[l][r] EXCEPT !.lock = IF l \in Members(moved) THEN "head" ELSE @]
    <3>1. req'[l] = [req[l] EXCEPT ![r] = q]
      BY <2>1 DEF MigratePartition
    <3>2. l \notin Members(moved) => q = req[l][r]
      BY <1>2 DEF Request
    <3>3. l \in Members(moved) => q = [req[l][r] EXCEPT !.lock = "head"]
      OBVIOUS
    <3>4. q \in Request
      BY <1>2, <2>2, <3>2, <3>3
    <3> HIDE DEF q
    <3> QED BY <2>1, <3>1, <3>2, <3>3, <3>4
  <2>4. DOMAIN req' = Lockers /\ req' = [l \in Lockers |-> req'[l]]
    BY DEF MigratePartition
  <2> QED BY <2>3, <2>4
<1>7. \A l \in Members(moved) :
         /\ l \in Lockers
         /\ req'[l][r].lock = "head" /\ req'[l][r].status = "GRANTED"
         /\ req'[l][r].mode = req[l][r].mode
         /\ req'[l][r].recursiveCount = req[l][r].recursiveCount
  <2> SUFFICES ASSUME NEW l \in Members(moved)
               PROVE  /\ l \in Lockers
                      /\ req'[l][r].lock = "head" /\ req'[l][r].status = "GRANTED"
                      /\ req'[l][r].mode = req[l][r].mode
                      /\ req'[l][r].recursiveCount = req[l][r].recursiveCount
    OBVIOUS
  <2>1. l \in Lockers /\ req[l][r] \in Request /\ req[l][r].status = "GRANTED"
    BY <1>2, <1>3
  <2>2. req'[l][r] = [req[l][r] EXCEPT !.lock = "head"]
    BY <1>6, <2>1
  <2> QED BY <2>1, <2>2 DEF Request
<1>8. /\ granted' \in [Resources -> Seq(Lockers)]
      /\ granted'[r] = granted[r] \o moved
      /\ \A r2 \in Resources \ {r} : granted'[r2] = granted[r2]
  <2>1. granted[r] \o moved \in Seq(Lockers)
    BY <1>2, ConcatList
  <2> QED BY <1>1, <1>5, <2>1 DEF TypeOK
<1>9. /\ Members(granted'[r]) = Members(granted[r]) \cup Members(moved)
      /\ Distinct(granted'[r])
  <2>1. Distinct(granted[r]) /\ Distinct(moved)
    BY <1>1 DEF ResourceOK, ListsOK
  <2>2. Members(granted[r]) \cap Members(moved) = {}
    BY <1>3
  <2> QED BY <1>2, <1>8, <2>1, <2>2, ConcatList, SMT
<1>10. /\ grantedCounts' \in [Resources -> SUBSET (Lockers \X LockMode)]
       /\ grantedCounts'[r] = grantedCounts[r]
                                \cup {<<l, req[l][r].mode>> : l \in Members(moved)}
       /\ \A r2 \in Resources \ {r} : grantedCounts'[r2] = grantedCounts[r2]
  <2>1. {<<l, req[l][r].mode>> : l \in Members(moved)} \subseteq Lockers \X LockMode
    BY <1>2, <1>7, SMT DEF Request
  <2> QED BY <1>1, <1>5, <2>1 DEF TypeOK
<1>11. /\ partList' \in [Resources -> [Partitions -> Seq(Lockers)]]
       /\ partList'[r][p] = <<>>
       /\ \A p2 \in Partitions \ {p} : partList'[r][p2] = partList[r][p2]
       /\ \A r2 \in Resources \ {r} : partList'[r2] = partList[r2]
  BY <1>1, <1>5, SMT DEF TypeOK
<1>12. /\ partHeads' \in [Resources -> SUBSET Partitions]
       /\ partHeads'[r] = partHeads[r] \ {p}
       /\ partitions' \in [Resources -> SUBSET Partitions]
       /\ partitions'[r] = partitions[r] \ {p}
       /\ \A r2 \in Resources \ {r} : /\ partHeads'[r2] = partHeads[r2]
                                      /\ partitions'[r2] = partitions[r2]
  BY <1>1, <1>5 DEF TypeOK
<1>13. TypeOK'
  <2>1. bucket' \in [Resources -> Threads \cup {NoThread}]
    BY <1>1, <1>5 DEF TypeOK
  <2> QED BY <1>1, <1>5, <1>6, <1>8, <1>10, <1>11, <1>12, <2>1 DEF TypeOK
<1> HIDE DEF moved
<1>14. ListsOK(r)'
  BY <1>1, <1>5, <1>9, <1>11, EmptyList DEF ResourceOK, ListsOK
<1>15. HeldOK(r)'
  <2>1. HeldOK(r)
    BY <1>1 DEF ResourceOK
  <2>2. \A l \in Members(granted[r]) : l \in Lockers /\ req'[l][r] = req[l][r]
    BY <1>2, <1>3, <1>6
  <2>3. \A l \in Members(moved) : <<l, req[l][r].mode>> \in grantedCounts'[r]
    BY <1>10
  <2>4. grantedCounts[r] \subseteq grantedCounts'[r]
    BY <1>10
  <2> QED BY <1>7, <1>9, <2>1, <2>2, <2>3, <2>4 DEF HeldOK
<1>16. CountedOK(r)'
  <2> SUFFICES ASSUME NEW c \in grantedCounts'[r]
               PROVE  \/ c[1] \in Members(granted'[r]) /\ c[2] = req'[c[1]][r].mode
                      \/ /\ req'[c[1]][r].status = "CONVERTING"
                         /\ c[2] = req'[c[1]][r].convertMode
    BY DEF CountedOK
  <2>1. CASE c \in grantedCounts[r]
    <3>1. c[1] \in Lockers
      BY <1>2, <2>1
    <3>2. \/ c[1] \in Members(granted[r]) /\ c[2] = req[c[1]][r].mode
          \/ req[c[1]][r].status = "CONVERTING" /\ c[2] = req[c[1]][r].convertMode
      BY <1>1, <2>1 DEF ResourceOK, CountedOK
    <3>3. c[1] \notin Members(moved)
      BY <1>3, <3>2
    <3> QED BY <1>6, <1>9, <3>1, <3>2, <3>3
  <2>2. CASE \E l \in Members(moved) : c = <<l, req[l][r].mode>>
    BY <1>7, <1>9, <2>2, SMT
  <2> QED BY <1>10, <2>1, <2>2
<1>17. ConvertingOK(r)'
  <2>1. ConvertingOK(r)
    BY <1>1 DEF ResourceOK
  <2>2. grantedCounts[r] \subseteq grantedCounts'[r]
    BY <1>10
  <2> QED BY <1>6, <1>7, <2>1, <2>2 DEF ConvertingOK
<1>18. WaitingOK(r)'
  BY <1>1, <1>2, <1>3, <1>5, <1>6 DEF ResourceOK, WaitingOK
<1>19. InPartitionOK(r)'
  <2> SUFFICES ASSUME NEW p2 \in Partitions, NEW l \in Members(partList'[r][p2])
               PROVE  /\ PartitionOf[l] = p2
                      /\ req'[l][r].lock = "partition"
                      /\ req'[l][r].status = "GRANTED"
                      /\ req'[l][r].mode \in intentModes
                      /\ p2 \in partHeads'[r]
    BY DEF InPartitionOK
  <2>1. p2 # p /\ l \in Members(partList[r][p2])
    BY <1>11, EmptyList
  <2>2. l \in Lockers /\ l \notin Members(moved)
    BY <1>2, <1>3, <2>1
  <2>3. InPartitionOK(r)
    BY <1>1 DEF ResourceOK
  <2>4. req'[l][r] = req[l][r]
    BY <1>6, <2>2
  <2>5. p2 \in partHeads'[r]
    BY <1>12, <2>1, <2>3 DEF InPartitionOK
  <2> QED BY <2>1, <2>3, <2>4, <2>5 DEF InPartitionOK
<1>20. PartitionedOK(r)'
  <2>1. \A c \in grantedCounts'[r] : c[2] \in intentModes
    BY <1>3, <1>4, <1>10, SMT DEF CanPartition, GrantedModes
  <2>2. ConflictModes(r)' = {}
    BY <1>4, <1>5 DEF CanPartition, ConflictModes
  <2>3. GrantedModes(r)' \subseteq intentModes
    BY <2>1 DEF GrantedModes
  <2> QED BY <1>4, <1>12, <2>2, <2>3 DEF PartitionedOK, CanPartition
<1>21. CompatibleOK(r)'
  <2>1. \A l \in Members(granted'[r]) : req'[l][r].mode \in intentModes
    <3>1. \A l \in Members(granted[r]) : req[l][r].mode \in intentModes
      <4>1. HeldOK(r) /\ GrantedModes(r) \subseteq intentModes
        BY <1>1, <1>4 DEF ResourceOK, CanPartition
      <4>2. \A c \in grantedCounts[r] : c[2] \in intentModes
        BY <4>1 DEF GrantedModes
      <4>3. \A l \in Members(granted[r]) : <<l, req[l][r].mode>> \in grantedCounts[r]
        BY <4>1 DEF HeldOK
      <4>4. \A l \in Members(granted[r]) : <<l, req[l][r].mode>>[2] \in intentModes
        BY <4>2, <4>3
      <4> QED BY <4>4
    <3> QED BY <1>2, <1>3, <1>6, <1>7, <1>9, <3>1
  <2> QED BY <2>1, IntentCompatible DEF CompatibleOK
<1>22. ResourceOK(r)'
  BY <1>14, <1>15, <1>16, <1>17, <1>18, <1>19, <1>20, <1>21 DEF ResourceOK
<1>23. \A r2 \in Resources \ {r} : HeadState(r2)' = HeadState(r2)
  BY <1>5, <1>8, <1>10, <1>11, <1>12 DEF HeadState
<1>24. \A r2 \in Resources : ResourceOK(r2)'
  BY <1>6, <1>22, <1>23, OtherResources
<1>25. ASSUME NEW l \in Lockers PROVE ThreadOK(l)'
  <2>1. op[l].res \in Resources /\ ThreadOK(l)
    BY DEF IndInv, TypeOK, Operation
  <2>2. CASE op[l].res = r /\ l \in Members(moved)
    <3>1. req[l][r].status = "GRANTED"
      BY <1>3, <2>2
    <3>2. /\ req'[l][r].status = req[l][r].status /\ req'[l][r].mode = req[l][r].mode
          /\ req'[l][r].recursiveCount = req[l][r].recursiveCount
      BY <1>7, <2>2, <3>1
    <3>3. pc[l] # "lock"
      BY <2>1, <2>2, <3>1 DEF ThreadOK
    <3> QED BY <2>1, <2>2, <3>2, <3>3, FrameThread
  <2>3. CASE ~ (op[l].res = r /\ l \in Members(moved))
    <3>1. req'[l][op[l].res] = req[l][op[l].res]
      BY <1>6, <2>1, <2>3, SMT
    <3> QED BY <2>1, <3>1, FrameThread
  <2> QED BY <2>2, <2>3
<1> QED BY <1>13, <1>24, <1>25 DEF IndInv

=============================================================================
