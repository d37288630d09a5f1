-------------------------- MODULE LockManagerSteps ---------------------------
(***************************************************************************)
(* That the steps which change the queues of one LockHead preserve the     *)
(* inductive invariant: lock, convert, downgrade, and the release of a     *)
(* granted request.                                                        *)
(***************************************************************************)
EXTENDS LockManagerInvariant

USE ZenonT(60)

\* A thread that changed a lock starts _onLockModeChanged.
LEMMA StartScanStep ==
    ASSUME TypeOK, NEW l \in Lockers, NEW r \in Resources, NEW b \in BOOLEAN,
           StartScan(l, r, b)
    PROVE  /\ pc' \in [Lockers -> Location]
           /\ op' \in [Lockers -> Operation]
           /\ cursor' \in [Lockers -> Nat \ {0}]
           /\ bucket' \in [Resources -> Threads \cup {NoThread}]
           /\ pc'[l] = "scanConversions"
           /\ \A l2 \in Lockers \ {l} : pc'[l2] = pc[l2] /\ op'[l2] = op[l2]
<1>1. /\ op' \in [Lockers -> Operation]
      /\ \A l2 \in Lockers \ {l} : op'[l2] = op[l2]
  <2> DEFINE n == [op[l] EXCEPT !.res = r, !.check = b]
  <2>1. op \in [Lockers -> Operation] /\ op[l] \in Operation
    BY DEF TypeOK
  <2>2. n \in Operation
    BY <2>1 DEF Operation
  <2>3. op' = [op EXCEPT ![l] = n]
    BY DEF StartScan
  <2> HIDE DEF n
  <2> QED BY <2>1, <2>2, <2>3
<1>2. cursor' \in [Lockers -> Nat \ {0}]
  BY SMT DEF StartScan, TypeOK
<1>3. bucket' \in [Resources -> Threads \cup {NoThread}]
  BY DEF StartScan, TypeOK, Threads
<1> QED BY <1>1, <1>2, <1>3 DEF StartScan, TypeOK, Location

\* Putting a request on the granted list in a mode that conflicts with no
\* granted mode.
LEMMA HeadGrant ==
    ASSUME IndInv, NEW l \in Lockers, NEW r \in Resources, NEW m \in LockMode,
           req[l][r].status \in {"NEW", "WAITING"}, ~ conflicts(m, GrantedModes(r)),
           \A l2 \in Lockers \ {l} : req'[l2][r] = req[l2][r],
           req'[l][r].status = "GRANTED", req'[l][r].mode = m, req'[l][r].lock = "head",
           granted'[r] = push_back(granted[r], l),
           grantedCounts'[r] = grantedCounts[r] \cup {<<l, m>>},
           Distinct(conflict'[r]), Members(conflict'[r]) = Members(conflict[r]) \ {l},
           \A c \in conflictCounts[r] : c[1] # l => c \in conflictCounts'[r],
           partitions[r] = {}, partitions'[r] = {},
           partHeads'[r] = partHeads[r], partList'[r] = partList[r]
    PROVE  ResourceOK(r)'
<1>1. TypeOK /\ ResourceOK(r)
  BY DEF IndInv
<1>2. /\ Members(granted[r]) \subseteq Lockers
      /\ Members(conflict[r]) \subseteq Lockers
      /\ \A p2 \in Partitions : Members(partList[r][p2]) \subseteq Lockers
      /\ grantedCounts[r] \subseteq Lockers \X LockMode
      /\ granted[r] \in Seq(Lockers)
  BY <1>1, ResourceTypes
<1>3. /\ l \notin Members(granted[r])
      /\ \A p2 \in Partitions : l \notin Members(partList[r][p2])
      /\ \A c \in grantedCounts[r] : c[1] # l
  BY <1>1, OnNoGrantedList
<1>4. /\ Members(granted'[r]) = Members(granted[r]) \cup {l}
      /\ Distinct(granted[r]) => Distinct(granted'[r])
  BY <1>2, <1>3, PushBackList, SMT
<1>5. ListsOK(r)'
  BY <1>1, <1>4 DEF ResourceOK, ListsOK
<1>6. HeldOK(r)'
  BY <1>1, <1>2, <1>3, <1>4 DEF ResourceOK, HeldOK
<1>7. CountedOK(r)'
  <2> SUFFICES ASSUME NEW c \in grantedCounts'[r]
               PROVE  \/ c[1] \in Members(granted'[r]) /\ c[2] = req'[c[1]][r].mode
                      \/ /\ req'[c[1]][r].status = "CONVERTING"
                         /\ c[2] = req'[c[1]][r].convertMode
    BY DEF CountedOK
  <2>1. CASE c \in grantedCounts[r]
    <3>1. c[1] \in Lockers \ {l}
      BY <1>2, <1>3, <2>1
    <3>2. CountedOK(r)
      BY <1>1 DEF ResourceOK
    <3> QED BY <1>4, <2>1, <3>1, <3>2 DEF CountedOK
  <2>2. CASE c = <<l, m>>
    BY <1>4, <2>2
  <2> QED BY <2>1, <2>2
<1>8. ConvertingOK(r)'
  <2>1. ConvertingOK(r)
    BY <1>1 DEF ResourceOK
  <2> QED BY <2>1 DEF ConvertingOK
<1>9. WaitingOK(r)'
  <2> SUFFICES ASSUME NEW w \in Members(conflict'[r])
               PROVE  /\ req'[w][r].lock = "head" /\ req'[w][r].status = "WAITING"
                      /\ <<w, req'[w][r].mode>> \in conflictCounts'[r]
    BY DEF WaitingOK
  <2>1. w \in Lockers \ {l} /\ w \in Members(conflict[r]) /\ req'[w][r] = req[w][r]
    BY <1>2
  <2>2. WaitingOK(r)
    BY <1>1 DEF ResourceOK
  <2>3. <<w, req[w][r].mode>> \in conflictCounts[r] /\ <<w, req[w][r].mode>>[1] # l
    BY <2>1, <2>2 DEF WaitingOK
  <2>4. <<w, req[w][r].mode>> \in conflictCounts'[r]
    BY <2>3
  <2> QED BY <2>1, <2>2, <2>4 DEF WaitingOK
<1>10. InPartitionOK(r)'
  BY <1>1, <1>2, <1>3, SMT DEF ResourceOK, InPartitionOK
<1>11. PartitionedOK(r)'
  BY <1>1 DEF ResourceOK, PartitionedOK
<1>12. CompatibleOK(r)'
  <2>1. ASSUME NEW l2 \in Members(granted[r])
        PROVE  ~ conflicts(m, {req[l2][r].mode}) /\ ~ conflicts(req[l2][r].mode, {m})
    <3>1. <<l2, req[l2][r].mode>> \in grantedCounts[r]
      BY <1>1 DEF ResourceOK, HeldOK
    <3>2. req[l2][r].mode \in GrantedModes(r)
      BY <3>1, SMT DEF GrantedModes
    <3>3. req[l2][r].mode \in LockMode
      BY <1>2, <3>1
    <3>4. ~ conflicts(m, {req[l2][r].mode})
      BY <3>2, ConflictMember
    <3> QED BY <3>3, <3>4, ConflictSymmetric
  <2>2. CompatibleOK(r)
    BY <1>1 DEF ResourceOK
  <2> QED BY <1>2, <1>3, <1>4, <2>1, <2>2 DEF CompatibleOK
<1> QED BY <1>5, <1>6, <1>7, <1>8, <1>9, <1>10, <1>11, <1>12 DEF ResourceOK

\* Changing the mode of a granted request to one that conflicts with no other
\* granted request; it is then counted in that mode only.
LEMMA HeadChangeMode ==
    ASSUME IndInv, NEW l \in Lockers, NEW r \in Resources, NEW m \in LockMode,
           l \in Members(granted[r]),
           \A l2 \in Members(granted[r]) : l2 # l => ~ conflicts(m, {req[l2][r].mode}),
           \A l2 \in Lockers \ {l} : req'[l2][r] = req[l2][r],
           req'[l][r].status = "GRANTED", req'[l][r].mode = m,
           req'[l][r].lock = req[l][r].lock,
           <<l, m>> \in grantedCounts'[r],
           \A c \in grantedCounts[r] : c[1] # l => c \in grantedCounts'[r],
           \A c \in grantedCounts'[r] : c[1] # l => c \in grantedCounts[r],
           \A c \in grantedCounts'[r] : c[1] = l => c[2] = m,
           grantedCounts'[r] \subseteq Lockers \X LockMode,
           partitions[r] # {} => m \in intentModes,
           granted'[r] = granted[r], conflict'[r] = conflict[r],
           conflictCounts'[r] = conflictCounts[r], partitions'[r] = partitions[r],
           partHeads'[r] = partHeads[r], partList'[r] = partList[r]
    PROVE  ResourceOK(r)'
<1>1. TypeOK /\ ResourceOK(r)
  BY DEF IndInv
<1>2. /\ Members(granted[r]) \subseteq Lockers
      /\ Members(conflict[r]) \subseteq Lockers
      /\ \A p2 \in Partitions : Members(partList[r][p2]) \subseteq Lockers
      /\ grantedCounts[r] \subseteq Lockers \X LockMode
  BY <1>1, ResourceTypes
<1>3. /\ HeldOK(r) /\ CountedOK(r) /\ ConvertingOK(r) /\ WaitingOK(r)
      /\ InPartitionOK(r) /\ PartitionedOK(r) /\ CompatibleOK(r)
  BY <1>1 DEF ResourceOK
<1>4. /\ req[l][r].lock = "head" /\ req[l][r].status \in {"GRANTED", "CONVERTING"}
      /\ <<l, req[l][r].mode>> \in grantedCounts[r]
  BY <1>3 DEF HeldOK
<1>5. /\ l \notin Members(conflict[r])
      /\ \A p2 \in Partitions : l \notin Members(partList[r][p2])
  BY <1>3, <1>4 DEF WaitingOK, InPartitionOK
<1>6. ListsOK(r)'
  BY <1>1 DEF ResourceOK, ListsOK
<1>7. HeldOK(r)'
  <2> SUFFICES ASSUME NEW x \in Members(granted[r])
               PROVE  /\ req'[x][r].lock = "head"
                      /\ req'[x][r].status \in {"GRANTED", "CONVERTING"}
                      /\ <<x, req'[x][r].mode>> \in grantedCounts'[r]
    BY DEF HeldOK
  <2>1. CASE x = l
    BY <1>4, <2>1
  <2>2. CASE x # l
    <3>1. req'[x][r] = req[x][r] /\ <<x, req[x][r].mode>>[1] # l
      BY <1>2, <2>2
    <3>2. <<x, req[x][r].mode>> \in grantedCounts[r]
      BY <1>3 DEF HeldOK
    <3>3. <<x, req[x][r].mode>> \in grantedCounts'[r]
      BY <3>1, <3>2
    <3> QED BY <1>3, <3>1, <3>3 DEF HeldOK
  <2> QED BY <2>1, <2>2
<1>8. CountedOK(r)'
  <2> SUFFICES ASSUME NEW c \in grantedCounts'[r]
               PROVE  \/ c[1] \in Members(granted[r]) /\ c[2] = req'[c[1]][r].mode
                      \/ /\ req'[c[1]][r].status = "CONVERTING"
                         /\ c[2] = req'[c[1]][r].convertMode
    BY DEF CountedOK
  <2>1. CASE c[1] = l
    BY <2>1
  <2>2. CASE c[1] # l
    <3>1. c \in grantedCounts[r] /\ c[1] \in Lockers \ {l}
      BY <2>2
    <3> QED BY <1>3, <3>1 DEF CountedOK
  <2> QED BY <2>1, <2>2
<1>9. ConvertingOK(r)'
  <2> SUFFICES ASSUME NEW x \in Lockers
               PROVE  /\ req'[x][r].status = "CONVERTING" =>
                           /\ <<x, req'[x][r].convertMode>> \in grantedCounts'[r]
                           /\ req'[x][r].convertMode # req'[x][r].mode
                      /\ req'[x][r].status = "NEW" => req'[x][r].lock = "none"
    BY DEF ConvertingOK
  <2>1. CASE x = l
    BY <2>1
  <2>2. CASE x # l
    <3>1. req'[x][r] = req[x][r] /\ <<x, req[x][r].convertMode>>[1] # l
      BY <2>2
    <3>2. req[x][r].status = "CONVERTING" =>
            <<x, req[x][r].convertMode>> \in grantedCounts'[r]
      BY <1>3, <3>1 DEF ConvertingOK
    <3> QED BY <1>3, <3>1, <3>2 DEF ConvertingOK
  <2> QED BY <2>1, <2>2
<1>10. WaitingOK(r)'
  BY <1>2, <1>3, <1>5 DEF WaitingOK
<1>11. InPartitionOK(r)'
  BY <1>2, <1>3, <1>5, SMT DEF InPartitionOK
<1>12. PartitionedOK(r)'
  <2> SUFFICES ASSUME partitions[r] # {} PROVE CanPartition(r)'
    BY <1>3 DEF PartitionedOK
  <2>1. CanPartition(r)
    BY <1>3 DEF PartitionedOK
  <2>2. \A c \in grantedCounts[r] : c[2] \in intentModes
    BY <2>1 DEF CanPartition, GrantedModes
  <2>3. \A c \in grantedCounts'[r] : c[2] \in intentModes
    BY <2>2
  <2>4. GrantedModes(r)' \subseteq intentModes
    BY <2>3 DEF GrantedModes
  <2>5. ConflictModes(r)' = {}
    BY <2>1 DEF CanPartition, ConflictModes
  <2> QED BY <2>4, <2>5 DEF CanPartition
<1>13. CompatibleOK(r)'
  <2>1. \A x \in Members(granted[r]) : req[x][r].mode \in LockMode
    BY <1>1, <1>2 DEF TypeOK, Request
  <2>2. \A x \in Members(granted[r]) : x # l => ~ conflicts(req[x][r].mode, {m})
    BY <2>1, ConflictSymmetric
  <2> SUFFICES ASSUME NEW x \in Members(granted[r]), NEW y \in Members(granted[r]), x # y
               PROVE  ~ conflicts(req'[x][r].mode, {req'[y][r].mode})
    BY DEF CompatibleOK
  <2>3. CASE x = l
    BY <1>2, <2>3
  <2>4. CASE y = l
    BY <1>2, <2>2, <2>4
  <2>5. CASE x # l /\ y # l
    BY <1>2, <1>3, <2>5 DEF CompatibleOK
  <2> QED BY <2>3, <2>4, <2>5
<1> QED BY <1>6, <1>7, <1>8, <1>9, <1>10, <1>11, <1>12, <1>13 DEF ResourceOK

\* A request that was submitted to a LockHead is in its mode and status there.
LEMMA SubmittedOnHead ==
    ASSUME NEW q \in Request, NEW m \in LockMode, NEW st \in {"GRANTED", "WAITING"}
    PROVE  LET q2 == Submitted(q, m, st, "head") IN
           /\ q2 \in Request
           /\ q2.status = st /\ q2.mode = m /\ q2.lock = "head"
           /\ q2.recursiveCount = 1
BY OneReference DEF Request, Submitted

\* newRequest on a LockHead, for a request that is granted at once.
LEMMA StepNewRequestGranted ==
    ASSUME IndInv, NEW l \in Lockers, NEW r \in Resources, r = op[l].res,
           NewRequest(l), ~ MustWait(r, op[l].mode)
    PROVE  IndInv'
<1>0. PICK m \in LockMode : m = op[l].mode
  BY OperationTypes DEF IndInv
<1> DEFINE q == Submitted(req[l][r], m, "GRANTED", "head")
<1>1. TypeOK /\ ThreadOK(l) /\ req[l][r] \in Request /\ ResourceOK(r)
  BY DEF IndInv, TypeOK
<1>2. /\ SetRequest(l, r, q)
      /\ granted' = [granted EXCEPT ![r] = push_back(@, l)]
      /\ grantedCounts' = [grantedCounts EXCEPT ![r] = @ \cup {<<l, m>>}]
      /\ compatibleFirst' = [compatibleFirst EXCEPT ![r] =
                                IF req[l][r].compatibleFirst THEN @ \cup {l} ELSE @]
      /\ Return(l)
      /\ UNCHANGED <<conflict, conflictCounts, conversions, partVars, cursor>>
      /\ bucket' = [bucket EXCEPT ![r] = NoThread]
      /\ partitions[r] = {}
  BY <1>0 DEF NewRequest
<1>3. req[l][r].status = "NEW" /\ ~ conflicts(m, GrantedModes(r))
  BY <1>0, <1>1 DEF NewRequest, ThreadOK, MustWait
<1>4. /\ q \in Request
      /\ q.status = "GRANTED" /\ q.mode = m /\ q.lock = "head"
  BY <1>1, SubmittedOnHead
<1> HIDE DEF q
<1>5. /\ req' \in [Lockers -> [Resources -> Request]]
      /\ req'[l][r] = q
      /\ \A l2 \in Lockers, r2 \in Resources :
            l2 # l \/ r2 # r => req'[l2][r2] = req[l2][r2]
  BY <1>1, <1>2, <1>4, ReqUpdate
<1>6. /\ granted' \in [Resources -> Seq(Lockers)]
      /\ granted'[r] = push_back(granted[r], l)
      /\ \A r2 \in Resources \ {r} : granted'[r2] = granted[r2]
  <2>1. push_back(granted[r], l) \in Seq(Lockers)
    BY <1>1, PushBackList DEF TypeOK
  <2> QED BY <1>1, <1>2, <2>1 DEF TypeOK
<1>7. /\ grantedCounts' \in [Resources -> SUBSET (Lockers \X LockMode)]
      /\ grantedCounts'[r] = grantedCounts[r] \cup {<<l, m>>}
      /\ \A r2 \in Resources \ {r} : grantedCounts'[r2] = grantedCounts[r2]
  <2>1. grantedCounts \in [Resources -> SUBSET (Lockers \X LockMode)]
    BY <1>1 DEF TypeOK
  <2>2. grantedCounts[r] \cup {<<l, m>>} \in SUBSET (Lockers \X LockMode)
    BY <2>1, SMT
  <2> QED BY <1>2, <2>1, <2>2
<1>8. TypeOK'
  <2>1. compatibleFirst' \in [Resources -> SUBSET Lockers]
    BY <1>1, <1>2 DEF TypeOK
  <2>2. bucket' \in [Resources -> Threads \cup {NoThread}]
    BY <1>1, <1>2 DEF TypeOK
  <2> QED BY <1>1, <1>2, <1>5, <1>6, <1>7, <2>1, <2>2, ReturnStep DEF TypeOK, partVars
<1>9. ResourceOK(r)'
  <2>1. Distinct(conflict'[r]) /\ Members(conflict'[r]) = Members(conflict[r]) \ {l}
    BY <1>1, <1>2, <1>3, OnNoGrantedList DEF ResourceOK, ListsOK
  <2>2. /\ partitions[r] = {} /\ partitions'[r] = {}
        /\ partHeads'[r] = partHeads[r] /\ partList'[r] = partList[r]
        /\ conflictCounts'[r] = conflictCounts[r]
    BY <1>2 DEF partVars
  <2>3. \A l2 \in Lockers \ {l} : req'[l2][r] = req[l2][r]
    BY <1>5
  <2>4. /\ req'[l][r].status = "GRANTED" /\ req'[l][r].mode = m
        /\ req'[l][r].lock = "head"
    BY <1>4, <1>5
  <2>5. req[l][r].status \in {"NEW", "WAITING"} /\ ~ conflicts(m, GrantedModes(r))
    BY <1>3
  <2>6. \A c \in conflictCounts[r] : c[1] # l => c \in conflictCounts'[r]
    BY <2>2
  <2>7. /\ granted'[r] = push_back(granted[r], l)
        /\ grantedCounts'[r] = grantedCounts[r] \cup {<<l, m>>}
    BY <1>6, <1>7
  <2> QED BY <2>1, <2>2, <2>3, <2>4, <2>5, <2>6, <2>7, HeadGrant, SMT
<1>10. \A r2 \in Resources \ {r} : HeadState(r2)' = HeadState(r2)
  BY <1>2, <1>6, <1>7 DEF HeadState, partVars
<1>11. \A r2 \in Resources : ResourceOK(r2)'
  BY <1>5, <1>9, <1>10, OtherResources
<1>12. ThreadOK(l)'
  BY <1>1, <1>2, ReturnStep, IdleThread
<1>13. \A l2 \in Lockers : ThreadOK(l2)'
  BY <1>1, <1>2, <1>5, <1>12, ReturnStep, OtherThreads
<1> QED BY <1>8, <1>11, <1>13 DEF IndInv

\* newRequest on a LockHead, for a request that has to wait.
LEMMA StepNewRequestWaits ==
    ASSUME IndInv, NEW l \in Lockers, NEW r \in Resources, r = op[l].res,
           NewRequest(l), MustWait(r, op[l].mode)
    PROVE  IndInv'
<1>0. PICK m \in LockMode : m = op[l].mode
  BY OperationTypes DEF IndInv
<1> DEFINE q == Submitted(req[l][r], m, "WAITING", "head")
           queue == IF IsPriority(r, m) THEN push_front(conflict[r], l)
                                        ELSE push_back(conflict[r], l)
<1>1. TypeOK /\ ThreadOK(l) /\ req[l][r] \in Request /\ ResourceOK(r)
  BY DEF IndInv, TypeOK
<1>2. /\ SetRequest(l, r, q)
      /\ conflict' = [conflict EXCEPT ![r] = queue]
      /\ conflictCounts' = [conflictCounts EXCEPT ![r] = @ \cup {<<l, m>>}]
      /\ pc' = [pc EXCEPT ![l] = "wait"]
      /\ UNCHANGED <<granted, grantedCounts, compatibleFirst, op, notify>>
      /\ UNCHANGED <<conversions, partVars, cursor>>
      /\ bucket' = [bucket EXCEPT ![r] = NoThread]
      /\ partitions[r] = {}
  BY <1>0 DEF NewRequest
<1>3. req[l][r].status = "NEW"
  BY <1>1 DEF NewRequest, ThreadOK
<1>4. /\ q \in Request
      /\ q.status = "WAITING" /\ q.mode = m /\ q.lock = "head"
      /\ q.recursiveCount = 1
  BY <1>1, SubmittedOnHead
<1>5. /\ l \notin Members(granted[r])
      /\ \A p \in Partitions : l \notin Members(partList[r][p])
      /\ \A c \in grantedCounts[r] : c[1] # l
      /\ l \notin Members(conflict[r])
  BY <1>1, <1>3, OnNoGrantedList
<1>6. /\ queue \in Seq(Lockers) /\ Distinct(queue)
      /\ Members(queue) = Members(conflict[r]) \cup {l}
  <2>1. conflict[r] \in Seq(Lockers) /\ Distinct(conflict[r])
    BY <1>1 DEF TypeOK, ResourceOK, ListsOK
  <2>2. CASE IsPriority(r, m)
    BY <1>5, <2>1, <2>2, PushFrontList, SMT
  <2>3. CASE ~ IsPriority(r, m)
    BY <1>5, <2>1, <2>3, PushBackList, SMT
  <2> QED BY <2>2, <2>3
<1> HIDE DEF q, queue
<1>7. /\ req' \in [Lockers -> [Resources -> Request]]
      /\ req'[l][r] = q
      /\ \A l2 \in Lockers, r2 \in Resources :
            l2 # l \/ r2 # r => req'[l2][r2] = req[l2][r2]
  BY <1>1, <1>2, <1>4, ReqUpdate
<1>8. /\ conflict' \in [Resources -> Seq(Lockers)]
      /\ conflict'[r] = queue
      /\ \A r2 \in Resources \ {r} : conflict'[r2] = conflict[r2]
  BY <1>1, <1>2, <1>6 DEF TypeOK
<1>9. /\ conflictCounts' \in [Resources -> SUBSET (Lockers \X LockMode)]
      /\ conflictCounts'[r] = conflictCounts[r] \cup {<<l, m>>}
      /\ \A r2 \in Resources \ {r} : conflictCounts'[r2] = conflictCounts[r2]
  BY <1>1, <1>2, SMT DEF TypeOK
<1>10. /\ pc' \in [Lockers -> Location]
       /\ pc'[l] = "wait"
       /\ \A l2 \in Lockers \ {l} : pc'[l2] = pc[l2]
  BY <1>1, <1>2 DEF TypeOK, Location
<1>11. TypeOK'
  <2>1. bucket' \in [Resources -> Threads \cup {NoThread}]
    BY <1>1, <1>2 DEF TypeOK
  <2> QED BY <1>1, <1>2, <1>7, <1>8, <1>9, <1>10, <2>1 DEF TypeOK, partVars
<1>12. ResourceOK(r)'
  <2>1. /\ ListsOK(r) /\ HeldOK(r) /\ CountedOK(r) /\ ConvertingOK(r) /\ WaitingOK(r)
        /\ InPartitionOK(r) /\ PartitionedOK(r) /\ CompatibleOK(r)
    BY <1>1 DEF ResourceOK
  <2>2. /\ Members(granted[r]) \subseteq Lockers
        /\ Members(conflict[r]) \subseteq Lockers
        /\ \A p2 \in Partitions : Members(partList[r][p2]) \subseteq Lockers
        /\ grantedCounts[r] \subseteq Lockers \X LockMode
    BY <1>1, ResourceTypes
  <2>3. /\ granted'[r] = granted[r] /\ grantedCounts'[r] = grantedCounts[r]
        /\ partitions'[r] = {} /\ partHeads'[r] = partHeads[r]
        /\ partitions[r] = {} /\ partList'[r] = partList[r]
    BY <1>2 DEF partVars
  <2>4. \A l2 \in Lockers : l2 # l => req'[l2][r] = req[l2][r]
    BY <1>7
  <2>5. ListsOK(r)'
    BY <1>6, <1>8, <2>1, <2>3 DEF ListsOK
  <2>6. HeldOK(r)' /\ CountedOK(r)' /\ InPartitionOK(r)' /\ CompatibleOK(r)'
    BY <1>1, <1>5, <2>3, <2>4, FrameGranted
  <2>7. ConvertingOK(r)'
    <3>1. ConvertingOK(r) /\ req'[l][r].status = "WAITING"
      BY <1>4, <1>7, <2>1
    <3> QED BY <2>3, <2>4, <3>1 DEF ConvertingOK
  <2>8. WaitingOK(r)'
    <3> SUFFICES ASSUME NEW w \in Members(queue)
                 PROVE  /\ req'[w][r].lock = "head" /\ req'[w][r].status = "WAITING"
                        /\ <<w, req'[w][r].mode>> \in conflictCounts'[r]
      BY <1>8 DEF WaitingOK
    <3>1. CASE w = l
      BY <1>4, <1>7, <1>9, <3>1
    <3>2. CASE w # l
      <4>1. w \in Members(conflict[r]) /\ req'[w][r] = req[w][r]
        BY <1>6, <2>2, <2>4, <3>2
      <4> QED BY <1>9, <2>1, <4>1 DEF WaitingOK
    <3> QED BY <3>1, <3>2
  <2>9. PartitionedOK(r)'
    BY <2>1, <2>3 DEF PartitionedOK
  <2> QED BY <2>5, <2>6, <2>7, <2>8, <2>9 DEF ResourceOK
<1>13. \A r2 \in Resources \ {r} : HeadState(r2)' = HeadState(r2)
  BY <1>2, <1>8, <1>9 DEF HeadState, partVars
<1>14. \A r2 \in Resources : ResourceOK(r2)'
  BY <1>7, <1>12, <1>13, OtherResources
<1>15. ThreadOK(l)'
  BY <1>2, <1>4, <1>7, <1>10, SMT DEF ThreadOK
<1>16. \A l2 \in Lockers : ThreadOK(l2)'
  BY <1>2, <1>7, <1>10, <1>15, OtherThreads
<1> QED BY <1>11, <1>14, <1>16 DEF IndInv

\* The modes of the other requests: every granted request but that of l is
\* counted among them.
LEMMA ModesWithout ==
    ASSUME IndInv, NEW l \in Lockers, NEW r \in Resources, NEW m \in LockMode,
           ~ conflicts(m, GrantedModesWithout(r, l))
    PROVE  \A l2 \in Members(granted[r]) : l2 # l => ~ conflicts(m, {req[l2][r].mode})
<1> SUFFICES ASSUME NEW l2 \in Members(granted[r]), l2 # l
             PROVE  ~ conflicts(m, {req[l2][r].mode})
  OBVIOUS
<1>1. <<l2, req[l2][r].mode>> \in grantedCounts[r]
  BY DEF IndInv, ResourceOK, HeldOK
<1>2. req[l2][r].mode \in GrantedModesWithout(r, l)
  BY <1>1, SMT DEF GrantedModesWithout
<1> QED BY <1>2, ConflictMember

\* convert, for a conversion that is granted at once.
LEMMA StepConvertGranted ==
    ASSUME IndInv, NEW l \in Lockers, NEW r \in Resources, r = op[l].res,
           Convert(l), ~ conflicts(op[l].mode, GrantedModesWithout(r, l))
    PROVE  IndInv'
<1>0. PICK m \in LockMode : m = op[l].mode
  BY OperationTypes DEF IndInv
<1> DEFINE q == [req[l][r] EXCEPT !.mode = m]
           old == req[l][r].mode
<1>1. TypeOK /\ ThreadOK(l) /\ req[l][r] \in Request /\ ResourceOK(r)
  BY DEF IndInv, TypeOK
<1>2. /\ SetRequest(l, r, q)
      /\ <<l, old>> \in grantedCounts[r]
      /\ grantedCounts' = [grantedCounts EXCEPT ![r] =
                              (@ \cup {<<l, m>>}) \ {<<l, old>>}]
      /\ Return(l)
      /\ UNCHANGED <<granted, conflict, conflictCounts, conversions, compatibleFirst>>
      /\ UNCHANGED <<partVars, cursor>>
      /\ bucket' = [bucket EXCEPT ![r] = NoThread]
      /\ partitions[r] = {}
  BY <1>0 DEF Convert
<1>3. req[l][r].status = "GRANTED" /\ m # old
  BY <1>0, <1>1 DEF Convert, ThreadOK
<1>4. /\ q \in Request
      /\ q.status = "GRANTED" /\ q.mode = m /\ q.lock = req[l][r].lock
  BY <1>1, <1>3 DEF Request
<1> HIDE DEF q
<1>5. /\ req' \in [Lockers -> [Resources -> Request]]
      /\ req'[l][r] = q
      /\ \A l2 \in Lockers, r2 \in Resources :
            l2 # l \/ r2 # r => req'[l2][r2] = req[l2][r2]
  BY <1>1, <1>2, <1>4, ReqUpdate
<1>6. /\ grantedCounts' \in [Resources -> SUBSET (Lockers \X LockMode)]
      /\ grantedCounts'[r] = (grantedCounts[r] \cup {<<l, m>>}) \ {<<l, old>>}
      /\ \A r2 \in Resources \ {r} : grantedCounts'[r2] = grantedCounts[r2]
  BY <1>1, <1>2, SMT DEF TypeOK
<1>7. TypeOK'
  <2>1. bucket' \in [Resources -> Threads \cup {NoThread}]
    BY <1>1, <1>2 DEF TypeOK
  <2> QED BY <1>1, <1>2, <1>5, <1>6, <2>1, ReturnStep DEF TypeOK, partVars
<1>8. ResourceOK(r)'
  <2>1. CountedOK(r)
    BY <1>1 DEF ResourceOK
  <2>2. l \in Members(granted[r]) /\ \A c \in grantedCounts[r] : c[1] = l => c[2] = old
    BY <1>2, <1>3, <2>1 DEF CountedOK
  <2>3. grantedCounts[r] \subseteq Lockers \X LockMode
    BY <1>1, ResourceTypes
  <2> HIDE DEF old
  <2>4. /\ <<l, m>> \in grantedCounts'[r]
        /\ \A c \in grantedCounts[r] : c[1] # l => c \in grantedCounts'[r]
        /\ \A c \in grantedCounts'[r] : c[1] # l => c \in grantedCounts[r]
        /\ grantedCounts'[r] \subseteq Lockers \X LockMode
    BY <1>3, <1>6, <2>3, SMT
  <2>5. \A c \in grantedCounts'[r] : c[1] = l => c[2] = m
    BY <1>6, <2>2, <2>3, SMT
  <2>6. \A l2 \in Members(granted[r]) : l2 # l => ~ conflicts(m, {req[l2][r].mode})
    BY <1>0, ModesWithout
  <2>7. /\ granted'[r] = granted[r] /\ conflict'[r] = conflict[r]
        /\ conflictCounts'[r] = conflictCounts[r] /\ partitions'[r] = partitions[r]
        /\ partHeads'[r] = partHeads[r] /\ partList'[r] = partList[r]
        /\ partitions[r] = {}
    BY <1>2 DEF partVars
  <2>8. \A l2 \in Lockers \ {l} : req'[l2][r] = req[l2][r]
    BY <1>5
  <2>9. /\ req'[l][r].status = "GRANTED" /\ req'[l][r].mode = m
        /\ req'[l][r].lock = req[l][r].lock
    BY <1>4, <1>5
  <2> QED BY <2>2, <2>4, <2>5, <2>6, <2>7, <2>8, <2>9, HeadChangeMode
<1>9. \A r2 \in Resources \ {r} : HeadState(r2)' = HeadState(r2)
  BY <1>2, <1>6 DEF HeadState, partVars
<1>10. \A r2 \in Resources : ResourceOK(r2)'
  BY <1>5, <1>8, <1>9, OtherResources
<1>11. ThreadOK(l)'
  BY <1>1, <1>2, ReturnStep, IdleThread
<1>12. \A l2 \in Lockers : ThreadOK(l2)'
  BY <1>1, <1>2, <1>5, <1>11, ReturnStep, OtherThreads
<1> QED BY <1>7, <1>10, <1>12 DEF IndInv

\* convert, for a conversion that has to wait.
LEMMA StepConvertWaits ==
    ASSUME IndInv, NEW l \in Lockers, NEW r \in Resources, r = op[l].res,
           Convert(l), conflicts(op[l].mode, GrantedModesWithout(r, l))
    PROVE  IndInv'
<1>0. PICK m \in LockMode : m = op[l].mode
  BY OperationTypes DEF IndInv
<1> DEFINE q == [req[l][r] EXCEPT !.status = "CONVERTING", !.convertMode = m]
<1>1. TypeOK /\ ThreadOK(l) /\ req[l][r] \in Request /\ ResourceOK(r)
  BY DEF IndInv, TypeOK
<1>2. /\ SetRequest(l, r, q)
      /\ conversions' = [conversions EXCEPT ![r] = @ \cup {l}]
      /\ grantedCounts' = [grantedCounts EXCEPT ![r] = @ \cup {<<l, m>>}]
      /\ pc' = [pc EXCEPT ![l] = "wait"]
      /\ UNCHANGED <<op, notify>>
      /\ UNCHANGED <<granted, conflict, conflictCounts, compatibleFirst>>
      /\ UNCHANGED <<partVars, cursor>>
      /\ bucket' = [bucket EXCEPT ![r] = NoThread]
      /\ partitions[r] = {}
  BY <1>0 DEF Convert
<1>3. /\ req[l][r].status = "GRANTED" /\ m # req[l][r].mode
      /\ req[l][r].recursiveCount > 0
  BY <1>0, <1>1 DEF Convert, ThreadOK
<1>4. /\ q \in Request
      /\ q.status = "CONVERTING" /\ q.mode = req[l][r].mode /\ q.convertMode = m
      /\ q.lock = req[l][r].lock /\ q.recursiveCount > 0
  BY <1>1, <1>3 DEF Request
<1> HIDE DEF q
<1>5. /\ req' \in [Lockers -> [Resources -> Request]]
      /\ req'[l][r] = q
      /\ \A l2 \in Lockers, r2 \in Resources :
            l2 # l \/ r2 # r => req'[l2][r2] = req[l2][r2]
  BY <1>1, <1>2, <1>4, ReqUpdate
<1>6. /\ grantedCounts' \in [Resources -> SUBSET (Lockers \X LockMode)]
      /\ grantedCounts'[r] = grantedCounts[r] \cup {<<l, m>>}
      /\ \A r2 \in Resources \ {r} : grantedCounts'[r2] = grantedCounts[r2]
  BY <1>1, <1>2, SMT DEF TypeOK
<1>7. /\ pc' \in [Lockers -> Location]
      /\ pc'[l] = "wait"
      /\ \A l2 \in Lockers \ {l} : pc'[l2] = pc[l2]
  BY <1>1, <1>2 DEF TypeOK, Location
<1>8. TypeOK'
  <2>1. bucket' \in [Resources -> Threads \cup {NoThread}]
    BY <1>1, <1>2 DEF TypeOK
  <2>2. conversions' \in [Resources -> SUBSET Lockers]
    BY <1>1, <1>2 DEF TypeOK
  <2> QED BY <1>1, <1>2, <1>5, <1>6, <1>7, <2>1, <2>2 DEF TypeOK, partVars
<1>9. ResourceOK(r)'
  <2>1. /\ ListsOK(r) /\ HeldOK(r) /\ CountedOK(r) /\ ConvertingOK(r) /\ WaitingOK(r)
        /\ InPartitionOK(r) /\ PartitionedOK(r) /\ CompatibleOK(r)
    BY <1>1 DEF ResourceOK
  <2>2. /\ Members(granted[r]) \subseteq Lockers
        /\ Members(conflict[r]) \subseteq Lockers
        /\ \A p2 \in Partitions : Members(partList[r][p2]) \subseteq Lockers
        /\ \A c \in grantedCounts[r] : c[1] \in Lockers
    BY <1>1, ResourceTypes
  <2>3. /\ granted'[r] = granted[r] /\ conflict'[r] = conflict[r]
        /\ conflictCounts'[r] = conflictCounts[r] /\ partitions'[r] = {}
        /\ partHeads'[r] = partHeads[r] /\ partList'[r] = partList[r]
        /\ partitions[r] = {}
    BY <1>2 DEF partVars
  <2>4. \A l2 \in Lockers : l2 # l => req'[l2][r] = req[l2][r]
    BY <1>5
  <2>5. \A l2 \in Lockers : /\ req'[l2][r].mode = req[l2][r].mode
                            /\ req'[l2][r].lock = req[l2][r].lock
    BY <1>4, <1>5, <2>4
  <2>6. ListsOK(r)'
    BY <2>1, <2>3 DEF ListsOK
  <2>7. HeldOK(r)'
    <3> SUFFICES ASSUME NEW x \in Members(granted[r])
                 PROVE  /\ req'[x][r].lock = "head"
                        /\ req'[x][r].status \in {"GRANTED", "CONVERTING"}
                        /\ <<x, req'[x][r].mode>> \in grantedCounts'[r]
      BY <2>3 DEF HeldOK
    <3>1. x \in Lockers /\ req'[x][r].mode = req[x][r].mode
      BY <2>2, <2>5
    <3>2. req'[x][r].status \in {"GRANTED", "CONVERTING"}
      BY <1>4, <1>5, <2>1, <2>4, <3>1 DEF HeldOK
    <3> QED BY <1>6, <2>1, <2>5, <3>1, <3>2 DEF HeldOK
  <2>8. CountedOK(r)'
    <3> SUFFICES ASSUME NEW c \in grantedCounts'[r]
                 PROVE  \/ c[1] \in Members(granted[r]) /\ c[2] = req'[c[1]][r].mode
                        \/ /\ req'[c[1]][r].status = "CONVERTING"
                           /\ c[2] = req'[c[1]][r].convertMode
      BY <2>3 DEF CountedOK
    <3>1. CASE c = <<l, m>>
      BY <1>4, <1>5, <3>1
    <3>2. CASE c \in grantedCounts[r]
      <4>1. c[1] \in Lockers
        BY <2>2, <3>2
      <4>2. \/ c[1] \in Members(granted[r]) /\ c[2] = req[c[1]][r].mode
            \/ req[c[1]][r].status = "CONVERTING" /\ c[2] = req[c[1]][r].convertMode
        BY <2>1, <3>2 DEF CountedOK
      <4>3. CASE c[1] = l
        BY <1>3, <2>5, <4>1, <4>2, <4>3
      <4>4. CASE c[1] # l
        BY <2>4, <4>1, <4>2, <4>4
      <4> QED BY <4>3, <4>4
    <3> QED BY <1>6, <3>1, <3>2
  <2>9. ConvertingOK(r)'
    <3> SUFFICES ASSUME NEW x \in Lockers
                 PROVE  /\ req'[x][r].status = "CONVERTING" =>
                             /\ <<x, req'[x][r].convertMode>> \in grantedCounts'[r]
                             /\ req'[x][r].convertMode # req'[x][r].mode
                        /\ req'[x][r].status = "NEW" => req'[x][r].lock = "none"
      BY DEF ConvertingOK
    <3>1. CASE x = l
      BY <1>3, <1>4, <1>5, <1>6, <3>1
    <3>2. CASE x # l
      BY <1>6, <2>1, <2>4, <3>2 DEF ConvertingOK
    <3> QED BY <3>1, <3>2
  <2>10. WaitingOK(r)'
    <3>1. \A w \in Members(conflict[r]) : w # l /\ req'[w][r] = req[w][r]
      BY <1>3, <2>1, <2>2, <2>4 DEF WaitingOK
    <3>2. WaitingOK(r)
      BY <2>1
    <3> QED BY <2>3, <3>1, <3>2 DEF WaitingOK
  <2>11. InPartitionOK(r)'
    <3>1. \A p \in Partitions : Members(partList[r][p]) = {}
      BY <2>1, <2>3 DEF InPartitionOK, PartitionedOK
    <3> QED BY <2>3, <3>1 DEF InPartitionOK
  <2>12. PartitionedOK(r)'
    BY <2>1, <2>3 DEF PartitionedOK
  <2>13. CompatibleOK(r)'
    <3> SUFFICES ASSUME NEW x \in Members(granted[r]), NEW y \in Members(granted[r]),
                        x # y
                 PROVE  ~ conflicts(req'[x][r].mode, {req'[y][r].mode})
      BY <2>3 DEF CompatibleOK
    <3>1. req'[x][r].mode = req[x][r].mode /\ req'[y][r].mode = req[y][r].mode
      BY <2>2, <2>5
    <3> QED BY <2>1, <3>1 DEF CompatibleOK
  <2> QED BY <2>6, <2>7, <2>8, <2>9, <2>10, <2>11, <2>12, <2>13 DEF ResourceOK
<1>10. \A r2 \in Resources \ {r} : HeadState(r2)' = HeadState(r2)
  BY <1>2, <1>6 DEF HeadState, partVars
<1>11. \A r2 \in Resources : ResourceOK(r2)'
  BY <1>5, <1>9, <1>10, OtherResources
<1>12. ThreadOK(l)'
  BY <1>2, <1>4, <1>5, <1>7 DEF ThreadOK
<1>13. \A l2 \in Lockers : ThreadOK(l2)'
  BY <1>2, <1>5, <1>7, <1>12, OtherThreads
<1> QED BY <1>8, <1>11, <1>13 DEF IndInv

\* downgrade() preserves the invariant.
LEMMA StepDowngrade ==
    ASSUME IndInv, NEW l \in Lockers, NEW r \in Resources, NEW m \in RequestMode,
           Downgrade(l, r, m)
    PROVE  IndInv'
<1> DEFINE q == [req[l][r] EXCEPT !.mode = m]
           old == req[l][r].mode
<1>0. m \in LockMode
  BY DEF RequestMode
<1>1. TypeOK /\ req[l][r] \in Request /\ ResourceOK(r) /\ m \in LockMode
  BY <1>0 DEF IndInv, TypeOK
<1>2. /\ SetRequest(l, r, q)
      /\ <<l, old>> \in grantedCounts[r]
      /\ grantedCounts' = [grantedCounts EXCEPT ![r] =
                              (@ \ {<<l, old>>}) \cup {<<l, m>>}]
      /\ StartScan(l, r, TRUE)
      /\ UNCHANGED <<granted, conflict, conflictCounts, conversions, compatibleFirst>>
      /\ UNCHANGED <<partVars, notify>>
      /\ req[l][r].status = "GRANTED" /\ isModeCovered(m, old)
  BY DEF Downgrade
<1>3. /\ q \in Request
      /\ q.status = "GRANTED" /\ q.mode = m /\ q.lock = req[l][r].lock
  BY <1>1, <1>2 DEF Request
<1> HIDE DEF q
<1>4. /\ req' \in [Lockers -> [Resources -> Request]]
      /\ req'[l][r] = q
      /\ \A l2 \in Lockers, r2 \in Resources :
            l2 # l \/ r2 # r => req'[l2][r2] = req[l2][r2]
  BY <1>1, <1>2, <1>3, ReqUpdate
<1>5. /\ grantedCounts' \in [Resources -> SUBSET (Lockers \X LockMode)]
      /\ grantedCounts'[r] = (grantedCounts[r] \ {<<l, old>>}) \cup {<<l, m>>}
      /\ \A r2 \in Resources \ {r} : grantedCounts'[r2] = grantedCounts[r2]
  BY <1>1, <1>2, SMT DEF TypeOK
<1>6. TypeOK'
  BY <1>1, <1>2, <1>4, <1>5, StartScanStep DEF TypeOK, partVars
<1>7. ResourceOK(r)'
  <2>1. CountedOK(r) /\ CompatibleOK(r) /\ PartitionedOK(r)
    BY <1>1 DEF ResourceOK
  <2>2. l \in Members(granted[r]) /\ \A c \in grantedCounts[r] : c[1] = l => c[2] = old
    BY <1>2, <2>1 DEF CountedOK
  <2>3. grantedCounts[r] \subseteq Lockers \X LockMode
    BY <1>1, ResourceTypes
  <2>4. \A l2 \in Members(granted[r]) : l2 # l => ~ conflicts(m, {req[l2][r].mode})
    BY <1>2, <2>1, <2>2, CoveredConflict DEF CompatibleOK
  <2>5. partitions[r] # {} => m \in intentModes
    <3>1. partitions[r] # {} => old \in intentModes
      BY <1>2, <2>1, SMT DEF PartitionedOK, CanPartition, GrantedModes
    <3> QED BY <1>2, <3>1, CoveredByIntent
  <2> HIDE DEF old
  <2>6. /\ <<l, m>> \in grantedCounts'[r]
        /\ \A c \in grantedCounts[r] : c[1] # l => c \in grantedCounts'[r]
        /\ \A c \in grantedCounts'[r] : c[1] # l => c \in grantedCounts[r]
        /\ grantedCounts'[r] \subseteq Lockers \X LockMode
    BY <1>1, <1>5, <2>3, SMT
  <2>7. \A c \in grantedCounts'[r] : c[1] = l => c[2] = m
    BY <1>5, <2>2, <2>3, SMT
  <2>8. /\ granted'[r] = granted[r] /\ conflict'[r] = conflict[r]
        /\ conflictCounts'[r] = conflictCounts[r] /\ partitions'[r] = partitions[r]
        /\ partHeads'[r] = partHeads[r] /\ partList'[r] = partList[r]
    BY <1>2 DEF partVars
  <2>9. \A l2 \in Lockers \ {l} : req'[l2][r] = req[l2][r]
    BY <1>4
  <2>10. /\ req'[l][r].status = "GRANTED" /\ req'[l][r].mode = m
         /\ req'[l][r].lock = req[l][r].lock
    BY <1>3, <1>4
  <2> QED BY <1>1, <2>2, <2>4, <2>5, <2>6, <2>7, <2>8, <2>9, <2>10, HeadChangeMode
<1>8. \A r2 \in Resources \ {r} : HeadState(r2)' = HeadState(r2)
  BY <1>2, <1>5 DEF HeadState, partVars
<1>9. \A r2 \in Resources : ResourceOK(r2)'
  BY <1>4, <1>7, <1>8, OtherResources
<1>10. ThreadOK(l)'
  BY <1>1, <1>2, StartScanStep, IdleThread
<1>11. \A l2 \in Lockers : ThreadOK(l2)'
  BY <1>1, <1>2, <1>4, <1>10, StartScanStep, OtherThreads
<1> QED BY <1>6, <1>9, <1>11 DEF IndInv

\* Dropping the last reference makes the request a new one.
LEMMA DropType ==
    ASSUME NEW q \in Request
    PROVE  /\ DropIfUnreferenced(q) \in Request
           /\ \/ DropIfUnreferenced(q) = q
              \/ /\ DropIfUnreferenced(q).status = "NEW"
                 /\ DropIfUnreferenced(q).lock = "none"
BY InitNewType DEF DropIfUnreferenced, initNew

\* unlock of a granted request takes it off the granted list.
LEMMA StepUnlockGranted ==
    ASSUME IndInv, NEW l \in Lockers, NEW r \in Resources, r = op[l].res,
           UnlockGranted(l)
    PROVE  IndInv'
<1> DEFINE q == DropIfUnreferenced(req[l][r])
           m == req[l][r].mode
           none == \A c \in grantedCounts[r] \ {<<l, m>>} : c[2] # m
<1>1. TypeOK /\ req[l][r] \in Request /\ ResourceOK(r) /\ granted[r] \in Seq(Lockers)
  BY DEF IndInv, TypeOK
<1>2. /\ SetRequest(l, r, q)
      /\ <<l, m>> \in grantedCounts[r]
      /\ grantedCounts' = [grantedCounts EXCEPT ![r] = @ \ {<<l, m>>}]
      /\ compatibleFirst' = [compatibleFirst EXCEPT ![r] =
                                IF req[l][r].compatibleFirst THEN @ \ {l} ELSE @]
      /\ StartScan(l, r, none)
      /\ UNCHANGED <<conflict, conflictCounts, conversions, partVars, notify>>
      /\ req[l][r].status = "GRANTED"
  BY DEF UnlockGranted
<1>3. PICK i \in DOMAIN granted[r] :
         granted[r][i] = l /\ granted' = [granted EXCEPT ![r] = remove(@, i)]
  BY DEF UnlockGranted
<1>4. q \in Request /\ (q = req[l][r] \/ (q.status = "NEW" /\ q.lock = "none"))
  BY <1>1, DropType
<1>5. PICK b \in BOOLEAN : StartScan(l, r, b)
  <2>1. none \in BOOLEAN /\ StartScan(l, r, none)
    BY <1>2
  <2> HIDE DEF none
  <2> QED BY <2>1
<1>6. /\ pc' \in [Lockers -> Location]
       /\ op' \in [Lockers -> Operation]
       /\ cursor' \in [Lockers -> Nat \ {0}]
       /\ bucket' \in [Resources -> Threads \cup {NoThread}]
       /\ pc'[l] = "scanConversions"
       /\ \A l2 \in Lockers \ {l} : pc'[l2] = pc[l2] /\ op'[l2] = op[l2]
  BY <1>1, <1>5, StartScanStep
<1> HIDE DEF q, none
<1>7. /\ req' \in [Lockers -> [Resources -> Request]]
      /\ req'[l][r] = q
      /\ \A l2 \in Lockers, r2 \in Resources :
            l2 # l \/ r2 # r => req'[l2][r2] = req[l2][r2]
  BY <1>1, <1>2, <1>4, ReqUpdate
<1>8. /\ granted' \in [Resources -> Seq(Lockers)]
      /\ granted'[r] = remove(granted[r], i)
      /\ Distinct(granted'[r]) /\ Members(granted'[r]) = Members(granted[r]) \ {l}
      /\ \A r2 \in Resources \ {r} : granted'[r2] = granted[r2]
  <2>1. Distinct(granted[r])
    BY <1>1 DEF ResourceOK, ListsOK
  <2>2. /\ remove(granted[r], i) \in Seq(Lockers) /\ Distinct(remove(granted[r], i))
        /\ Members(remove(granted[r], i)) = Members(granted[r]) \ {l}
    BY <1>1, <1>3, <2>1, RemoveList, SMT
  <2> QED BY <1>1, <1>3, <2>2 DEF TypeOK
<1>9. /\ grantedCounts' \in [Resources -> SUBSET (Lockers \X LockMode)]
      /\ grantedCounts'[r] = grantedCounts[r] \ {<<l, m>>}
      /\ \A r2 \in Resources \ {r} : grantedCounts'[r2] = grantedCounts[r2]
  BY <1>1, <1>2 DEF TypeOK
<1>10. TypeOK'
  <2>1. compatibleFirst' \in [Resources -> SUBSET Lockers]
    BY <1>1, <1>2 DEF TypeOK
  <2> QED BY <1>1, <1>2, <1>6, <1>7, <1>8, <1>9, <2>1 DEF TypeOK, partVars
<1>11. ResourceOK(r)'
  <2>1. /\ ListsOK(r) /\ HeldOK(r) /\ CountedOK(r) /\ ConvertingOK(r) /\ WaitingOK(r)
        /\ InPartitionOK(r) /\ PartitionedOK(r) /\ CompatibleOK(r)
    BY <1>1 DEF ResourceOK
  <2>2. /\ Members(granted[r]) \subseteq Lockers
        /\ Members(conflict[r]) \subseteq Lockers
        /\ \A p2 \in Partitions : Members(partList[r][p2]) \subseteq Lockers
        /\ grantedCounts[r] \subseteq Lockers \X LockMode
    BY <1>1, ResourceTypes
  <2>3. /\ conflict'[r] = conflict[r]
        /\ conflictCounts'[r] = conflictCounts[r] /\ partitions'[r] = partitions[r]
        /\ partHeads'[r] = partHeads[r] /\ partList'[r] = partList[r]
    BY <1>2 DEF partVars
  <2>4. \A l2 \in Lockers : l2 # l => req'[l2][r] = req[l2][r]
    BY <1>7
  <2>5. l \in Members(granted[r]) /\ req[l][r].lock = "head"
    BY <1>2, <2>1 DEF CountedOK, HeldOK
  <2>6. /\ l \notin Members(conflict[r])
        /\ \A p2 \in Partitions : l \notin Members(partList[r][p2])
    BY <1>2, <2>1, <2>5 DEF WaitingOK, InPartitionOK
  <2>7. ListsOK(r)'
    BY <1>8, <2>1, <2>3 DEF ListsOK
  <2>8. HeldOK(r)'
    <3> SUFFICES ASSUME NEW x \in Members(granted[r]), x # l
                 PROVE  /\ req'[x][r].lock = "head"
                        /\ req'[x][r].status \in {"GRANTED", "CONVERTING"}
                        /\ <<x, req'[x][r].mode>> \in grantedCounts'[r]
      BY <1>8 DEF HeldOK
    <3>1. req'[x][r] = req[x][r]
      BY <2>2, <2>4
    <3>2. <<x, req[x][r].mode>> \in grantedCounts'[r]
      BY <1>9, <2>1 DEF HeldOK
    <3> QED BY <2>1, <3>1, <3>2 DEF HeldOK
  <2>9. \A c \in grantedCounts'[r] : c \in grantedCounts[r] /\ c[1] \in Lockers \ {l}
    <3> SUFFICES ASSUME NEW c \in grantedCounts'[r], c[1] = l PROVE FALSE
      BY <1>9, <2>2
    <3>1. c \in grantedCounts[r] /\ c # <<l, m>> /\ c \in Lockers \X LockMode
      BY <1>9, <2>2
    <3>2. c[2] = m
      BY <1>2, <2>1, <3>1 DEF CountedOK
    <3> QED BY <3>1, <3>2, SMT
  <2>10. CountedOK(r)'
    BY <1>8, <2>1, <2>4, <2>9 DEF CountedOK
  <2>11. ConvertingOK(r)'
    <3> SUFFICES ASSUME NEW x \in Lockers
                 PROVE  /\ req'[x][r].status = "CONVERTING" =>
                             /\ <<x, req'[x][r].convertMode>> \in grantedCounts'[r]
                             /\ req'[x][r].convertMode # req'[x][r].mode
                        /\ req'[x][r].status = "NEW" => req'[x][r].lock = "none"
      BY DEF ConvertingOK
    <3>1. CASE x = l
      BY <1>2, <1>4, <1>7, <2>1, <3>1 DEF ConvertingOK
    <3>2. CASE x # l
      BY <1>9, <2>1, <2>4, <3>2 DEF ConvertingOK
    <3> QED BY <3>1, <3>2
  <2>12. WaitingOK(r)'
    <3>1. WaitingOK(r) /\ \A w \in Members(conflict[r]) : req'[w][r] = req[w][r]
      BY <2>1, <2>2, <2>4, <2>6
    <3> QED BY <2>3, <3>1, SMT DEF WaitingOK
  <2>13. InPartitionOK(r)'
    <3>1. \A p \in Partitions : \A x \in Members(partList[r][p]) : req'[x][r] = req[x][r]
      BY <2>2, <2>4, <2>6
    <3>2. InPartitionOK(r)
      BY <2>1
    <3> QED BY <2>3, <3>1, <3>2, SMT DEF InPartitionOK
  <2>14. PartitionedOK(r)'
    BY <2>1, <2>3, <2>9 DEF PartitionedOK, CanPartition, GrantedModes, ConflictModes
  <2>15. CompatibleOK(r)'
    <3> SUFFICES ASSUME NEW x \in Members(granted[r]), NEW y \in Members(granted[r]),
                        x # y, x # l, y # l
                 PROVE  ~ conflicts(req'[x][r].mode, {req'[y][r].mode})
      BY <1>8 DEF CompatibleOK
    <3>1. req'[x][r] = req[x][r] /\ req'[y][r] = req[y][r]
      BY <2>2, <2>4
    <3> QED BY <2>1, <3>1 DEF CompatibleOK
  <2> QED BY <2>7, <2>8, <2>10, <2>11, <2>12, <2>13, <2>14, <2>15 DEF ResourceOK
<1>12. \A r2 \in Resources \ {r} : HeadState(r2)' = HeadState(r2)
  BY <1>2, <1>8, <1>9 DEF HeadState, partVars
<1>13. \A r2 \in Resources : ResourceOK(r2)'
  BY <1>7, <1>11, <1>12, OtherResources
<1>14. ThreadOK(l)'
  BY <1>6, IdleThread
<1>15. \A l2 \in Lockers : ThreadOK(l2)'
  BY <1>6, <1>7, <1>14, OtherThreads
<1> QED BY <1>10, <1>13, <1>15 DEF IndInv

=============================================================================
