-------------------------- MODULE LockManagerProofs --------------------------
(***************************************************************************)
(* GrantedCompatible, the mutual exclusion of the lock manager, for every  *)
(* number of lockers, resources and partitions, and whether or not pending *)
(* conversions may be given up.                                            *)
(***************************************************************************)
EXTENDS LockManagerSteps

USE ZenonT(60)

\* unlock of a waiting request takes it off the conflict list.
LEMMA StepUnlockWaiting ==
    ASSUME IndInv, NEW l \in Lockers, NEW r \in Resources, r = op[l].res,
           UnlockWaiting(l)
    PROVE  IndInv'
<1> DEFINE q == DropIfUnreferenced(req[l][r])
           m == req[l][r].mode
<1>1. TypeOK /\ req[l][r] \in Request /\ ResourceOK(r) /\ conflict[r] \in Seq(Lockers)
  BY DEF IndInv, TypeOK
<1>2. /\ SetRequest(l, r, q)
      /\ conflictCounts' = [conflictCounts EXCEPT ![r] = @ \ {<<l, m>>}]
      /\ StartScan(l, r, TRUE)
      /\ UNCHANGED <<granted, grantedCounts, conversions, compatibleFirst>>
      /\ UNCHANGED <<partVars, notify>>
      /\ req[l][r].status = "WAITING"
  BY DEF UnlockWaiting
<1>3. PICK i \in DOMAIN conflict[r] :
         conflict[r][i] = l /\ conflict' = [conflict EXCEPT ![r] = remove(@, i)]
  BY DEF UnlockWaiting
<1>4. q \in Request /\ (q = req[l][r] \/ (q.status = "NEW" /\ q.lock = "none"))
  BY <1>1, DropType
<1> HIDE DEF q
<1>5. /\ req' \in [Lockers -> [Resources -> Request]]
      /\ req'[l][r] = q
      /\ \A l2 \in Lockers, r2 \in Resources :
            l2 # l \/ r2 # r => req'[l2][r2] = req[l2][r2]
  BY <1>1, <1>2, <1>4, ReqUpdate
<1>6. /\ conflict' \in [Resources -> Seq(Lockers)]
      /\ conflict'[r] = remove(conflict[r], i)
      /\ Distinct(conflict'[r]) /\ Members(conflict'[r]) = Members(conflict[r]) \ {l}
      /\ \A r2 \in Resources \ {r} : conflict'[r2] = conflict[r2]
  <2>1. Distinct(conflict[r])
    BY <1>1 DEF ResourceOK, ListsOK
  <2>2. /\ remove(conflict[r], i) \in Seq(Lockers) /\ Distinct(remove(conflict[r], i))
        /\ Members(remove(conflict[r], i)) = Members(conflict[r]) \ {l}
    BY <1>1, <1>3, <2>1, RemoveList, SMT
  <2> QED BY <1>1, <1>3, <2>2 DEF TypeOK
<1>7. /\ conflictCounts' \in [Resources -> SUBSET (Lockers \X LockMode)]
      /\ conflictCounts'[r] = conflictCounts[r] \ {<<l, m>>}
      /\ \A r2 \in Resources \ {r} : conflictCounts'[r2] = conflictCounts[r2]
  BY <1>1, <1>2 DEF TypeOK
<1>8. TypeOK'
  BY <1>1, <1>2, <1>5, <1>6, <1>7, StartScanStep DEF TypeOK, partVars
<1>9. ResourceOK(r)'
  <2>1. /\ ListsOK(r) /\ ConvertingOK(r) /\ WaitingOK(r) /\ PartitionedOK(r)
    BY <1>1 DEF ResourceOK
  <2>2. Members(conflict[r]) \subseteq Lockers
    BY <1>1, ResourceTypes
  <2>3. /\ granted'[r] = granted[r] /\ grantedCounts'[r] = grantedCounts[r]
        /\ partitions'[r] = partitions[r]
        /\ partHeads'[r] = partHeads[r] /\ partList'[r] = partList[r]
    BY <1>2 DEF partVars
  <2>4. \A l2 \in Lockers \ {l} : req'[l2][r] = req[l2][r]
    BY <1>5
  <2>5. /\ l \notin Members(granted[r])
        /\ \A p \in Partitions : l \notin Members(partList[r][p])
        /\ \A c \in grantedCounts[r] : c[1] # l
    BY <1>1, <1>2, OnNoGrantedList
  <2>6. HeldOK(r)' /\ CountedOK(r)' /\ InPartitionOK(r)' /\ CompatibleOK(r)'
    BY <1>1, <2>3, <2>4, <2>5, FrameGranted
  <2>7. ListsOK(r)'
    BY <1>6, <2>1, <2>3 DEF ListsOK
  <2>8. ConvertingOK(r)'
    <3> SUFFICES ASSUME NEW x \in Lockers
                 PROVE  /\ req'[x][r].status = "CONVERTING" =>
                             /\ <<x, req'[x][r].convertMode>> \in grantedCounts[r]
                             /\ req'[x][r].convertMode # req'[x][r].mode
                        /\ req'[x][r].status = "NEW" => req'[x][r].lock = "none"
      BY <2>3 DEF ConvertingOK
    <3>1. CASE x = l
      BY <1>2, <1>4, <1>5, <3>1
    <3>2. CASE x # l
      BY <2>1, <2>4, <3>2 DEF ConvertingOK
    <3> QED BY <3>1, <3>2
  <2>9. WaitingOK(r)'
    <3> SUFFICES ASSUME NEW w \in Members(conflict[r]), w # l
                 PROVE  /\ req'[w][r].lock = "head" /\ req'[w][r].status = "WAITING"
                        /\ <<w, req'[w][r].mode>> \in conflictCounts'[r]
      BY <1>6 DEF WaitingOK
    <3>1. req'[w][r] = req[w][r]
      BY <2>2, <2>4
    <3> QED BY <1>7, <2>1, <3>1 DEF WaitingOK
  <2>10. PartitionedOK(r)'
    BY <1>7, <2>1, <2>3, SMT DEF PartitionedOK, CanPartition, GrantedModes, ConflictModes
  <2> QED BY <2>6, <2>7, <2>8, <2>9, <2>10 DEF ResourceOK
<1>10. \A r2 \in Resources \ {r} : HeadState(r2)' = HeadState(r2)
  BY <1>2, <1>6, <1>7 DEF HeadState, partVars
<1>11. \A r2 \in Resources : ResourceOK(r2)'
  BY <1>5, <1>9, <1>10, OtherResources
<1>12. ThreadOK(l)'
  BY <1>1, <1>2, StartScanStep, IdleThread
<1>13. \A l2 \in Lockers : ThreadOK(l2)'
  BY <1>1, <1>2, <1>5, <1>12, StartScanStep, OtherThreads
<1> QED BY <1>8, <1>11, <1>13 DEF IndInv

\* unlock of a converting request puts it back to the mode it is granted in.
LEMMA StepUnlockConverting ==
    ASSUME IndInv, NEW l \in Lockers, NEW r \in Resources, r = op[l].res,
           UnlockConverting(l)
    PROVE  IndInv'
<1> DEFINE q == [req[l][r] EXCEPT !.status = "GRANTED", !.convertMode = "NONE"]
           cm == req[l][r].convertMode
<1>1. TypeOK /\ req[l][r] \in Request /\ ResourceOK(r)
  BY DEF IndInv, TypeOK
<1>2. /\ SetRequest(l, r, q)
      /\ conversions' = [conversions EXCEPT ![r] = @ \ {l}]
      /\ grantedCounts' = [grantedCounts EXCEPT ![r] = @ \ {<<l, cm>>}]
      /\ StartScan(l, r, TRUE)
      /\ UNCHANGED <<granted, conflict, conflictCounts, compatibleFirst>>
      /\ UNCHANGED <<partVars, notify>>
      /\ req[l][r].status = "CONVERTING"
  BY DEF UnlockConverting
<1>3. "NONE" \in LockMode
  BY DEF LockMode
<1>4. /\ q \in Request /\ q.status = "GRANTED"
      /\ q.mode = req[l][r].mode /\ q.lock = req[l][r].lock
  BY <1>1, <1>3 DEF Request
<1> HIDE DEF q
<1>5. /\ req' \in [Lockers -> [Resources -> Request]]
      /\ req'[l][r] = q
      /\ \A l2 \in Lockers, r2 \in Resources :
            l2 # l \/ r2 # r => req'[l2][r2] = req[l2][r2]
  BY <1>1, <1>2, <1>4, ReqUpdate
<1>6. /\ grantedCounts' \in [Resources -> SUBSET (Lockers \X LockMode)]
      /\ grantedCounts'[r] = grantedCounts[r] \ {<<l, cm>>}
      /\ \A r2 \in Resources \ {r} : grantedCounts'[r2] = grantedCounts[r2]
  BY <1>1, <1>2 DEF TypeOK
<1>7. TypeOK'
  <2>1. conversions' \in [Resources -> SUBSET Lockers]
    BY <1>1, <1>2 DEF TypeOK
  <2> QED BY <1>1, <1>2, <1>5, <1>6, <2>1, StartScanStep DEF TypeOK, partVars
<1>8. ResourceOK(r)'
  <2>1. /\ ListsOK(r) /\ HeldOK(r) /\ CountedOK(r) /\ ConvertingOK(r) /\ WaitingOK(r)
        /\ InPartitionOK(r) /\ PartitionedOK(r) /\ CompatibleOK(r)
    BY <1>1 DEF ResourceOK
  <2>2. /\ Members(granted[r]) \subseteq Lockers
        /\ Members(conflict[r]) \subseteq Lockers
        /\ \A p2 \in Partitions : Members(partList[r][p2]) \subseteq Lockers
        /\ grantedCounts[r] \subseteq Lockers \X LockMode
    BY <1>1, ResourceTypes
  <2>3. /\ granted'[r] = granted[r] /\ conflict'[r] = conflict[r]
        /\ conflictCounts'[r] = conflictCounts[r] /\ partitions'[r] = partitions[r]
        /\ partHeads'[r] = partHeads[r] /\ partList'[r] = partList[r]
    BY <1>2 DEF partVars
  <2>4. \A l2 \in Lockers : l2 # l => req'[l2][r] = req[l2][r]
    BY <1>5
  <2>5. \A l2 \in Lockers : /\ req'[l2][r].mode = req[l2][r].mode
                            /\ req'[l2][r].lock = req[l2][r].lock
    BY <1>4, <1>5, <2>4
  <2>6. cm # req[l][r].mode
    BY <1>2, <2>1 DEF ConvertingOK
  <2>7. ListsOK(r)'
    BY <2>1, <2>3 DEF ListsOK
  <2>8. HeldOK(r)'
    <3> SUFFICES ASSUME NEW x \in Members(granted[r])
                 PROVE  /\ req'[x][r].lock = "head"
                        /\ req'[x][r].status \in {"GRANTED", "CONVERTING"}
                        /\ <<x, req'[x][r].mode>> \in grantedCounts'[r]
      BY <2>3 DEF HeldOK
    <3>1. /\ req[x][r].lock = "head" /\ req[x][r].status \in {"GRANTED", "CONVERTING"}
          /\ <<x, req[x][r].mode>> \in grantedCounts[r] /\ x \in Lockers
      BY <2>1, <2>2 DEF HeldOK
    <3>2. req'[x][r].status \in {"GRANTED", "CONVERTING"}
      BY <1>4, <1>5, <2>4, <3>1
    <3>3. <<x, req[x][r].mode>> # <<l, cm>>
      BY <2>6
    <3> QED BY <1>6, <2>5, <3>1, <3>2, <3>3
  <2>9. CountedOK(r)'
    <3> SUFFICES ASSUME NEW c \in grantedCounts'[r]
                 PROVE  \/ c[1] \in Members(granted[r]) /\ c[2] = req'[c[1]][r].mode
                        \/ /\ req'[c[1]][r].status = "CONVERTING"
                           /\ c[2] = req'[c[1]][r].convertMode
      BY <2>3 DEF CountedOK
    <3>1. c \in grantedCounts[r] /\ c # <<l, cm>> /\ c \in Lockers \X LockMode
      BY <1>6, <2>2
    <3>2. \/ c[1] \in Members(granted[r]) /\ c[2] = req[c[1]][r].mode
          \/ req[c[1]][r].status = "CONVERTING" /\ c[2] = req[c[1]][r].convertMode
      BY <2>1, <3>1 DEF CountedOK
    <3>3. CASE c[1] = l
      <4>1. c[2] # cm
        BY <3>1, <3>3, SMT
      <4> QED BY <2>5, <3>2, <3>3, <4>1
    <3>4. CASE c[1] # l
      BY <2>4, <3>1, <3>2, <3>4
    <3> QED BY <3>3, <3>4
  <2>10. ConvertingOK(r)'
    <3> SUFFICES ASSUME NEW x \in Lockers
                 PROVE  /\ req'[x][r].status = "CONVERTING" =>
                             /\ <<x, req'[x][r].convertMode>> \in grantedCounts'[r]
                             /\ req'[x][r].convertMode # req'[x][r].mode
                        /\ req'[x][r].status = "NEW" => req'[x][r].lock = "none"
      BY DEF ConvertingOK
    <3>1. CASE x = l
      BY <1>4, <1>5, <3>1
    <3>2. CASE x # l
      BY <1>6, <2>1, <2>4, <3>2 DEF ConvertingOK
    <3> QED BY <3>1, <3>2
  <2>11. WaitingOK(r)'
    <3>1. \A w \in Members(conflict[r]) : req'[w][r] = req[w][r]
      BY <1>2, <2>1, <2>2, <2>4 DEF WaitingOK
    <3>2. WaitingOK(r)
      BY <2>1
    <3> QED BY <2>3, <3>1, <3>2 DEF WaitingOK
  <2>12. InPartitionOK(r)'
    <3>1. \A p \in Partitions : \A x \in Members(partList[r][p]) :
             x \in Lockers /\ req[x][r].status = "GRANTED"
      BY <2>1, <2>2, SMT DEF InPartitionOK
    <3>2. \A p \in Partitions : \A x \in Members(partList[r][p]) : req'[x][r] = req[x][r]
      BY <1>2, <2>4, <3>1
    <3>3. InPartitionOK(r)
      BY <2>1
    <3> QED BY <2>3, <3>2, <3>3, SMT DEF InPartitionOK
  <2>13. PartitionedOK(r)'
    BY <1>6, <2>1, <2>3 DEF PartitionedOK, CanPartition, GrantedModes, ConflictModes
  <2>14. CompatibleOK(r)'
    <3> SUFFICES ASSUME NEW x \in Members(granted[r]), NEW y \in Members(granted[r]),
                        x # y
                 PROVE  ~ conflicts(req'[x][r].mode, {req'[y][r].mode})
      BY <2>3 DEF CompatibleOK
    <3>1. req'[x][r].mode = req[x][r].mode /\ req'[y][r].mode = req[y][r].mode
      BY <2>2, <2>5
    <3> QED BY <2>1, <3>1 DEF CompatibleOK
  <2> QED BY <2>7, <2>8, <2>9, <2>10, <2>11, <2>12, <2>13, <2>14 DEF ResourceOK
<1>9. \A r2 \in Resources \ {r} : HeadState(r2)' = HeadState(r2)
  BY <1>2, <1>6 DEF HeadState, partVars
<1>10. \A r2 \in Resources : ResourceOK(r2)'
  BY <1>5, <1>8, <1>9, OtherResources
<1>11. ThreadOK(l)'
  BY <1>1, <1>2, StartScanStep, IdleThread
<1>12. \A l2 \in Lockers : ThreadOK(l2)'
  BY <1>1, <1>2, <1>5, <1>11, StartScanStep, OtherThreads
<1> QED BY <1>7, <1>10, <1>12 DEF IndInv

\* Releasing an intent lock on a PartitionedLockHead.
LEMMA StepUnlockPartitioned ==
    ASSUME IndInv, NEW l \in Lockers, NEW r \in Resources, UnlockPartitioned(l, r)
    PROVE  IndInv'
<1> DEFINE p == PartitionOf[l]
<1>1. TypeOK /\ ResourceOK(r)
  BY DEF IndInv
<1>2. p \in Partitions
  BY ConstantsAssumption
<1>3. /\ SetRequest(l, r, initNew)
      /\ UNCHANGED <<headVars, partitions, partHeads, bucket, pc, op, cursor, notify>>
      /\ req[l][r].status = "GRANTED" /\ req[l][r].lock = "partition" /\ pc[l] = "idle"
  BY DEF UnlockPartitioned
<1>4. PICK i \in DOMAIN partList[r][p] :
         /\ partList[r][p][i] = l
         /\ partList' = [partList EXCEPT ![r][p] = remove(@, i)]
  BY DEF UnlockPartitioned
<1>5. /\ req' \in [Lockers -> [Resources -> Request]]
      /\ req'[l][r] = initNew
      /\ \A l2 \in Lockers, r2 \in Resources :
            l2 # l \/ r2 # r => req'[l2][r2] = req[l2][r2]
  BY <1>1, <1>3, InitNewType, ReqUpdate
<1>6. req'[l][r].status = "NEW" /\ req'[l][r].lock = "none"
  BY <1>5, SMT DEF initNew
<1>7. partList[r][p] \in Seq(Lockers) /\ Distinct(partList[r][p])
  BY <1>1, <1>2 DEF TypeOK, ResourceOK, ListsOK
<1>8. /\ remove(partList[r][p], i) \in Seq(Lockers)
      /\ Distinct(remove(partList[r][p], i))
      /\ Members(remove(partList[r][p], i)) = Members(partList[r][p]) \ {l}
  BY <1>4, <1>7, RemoveList
<1>9. l \in Members(partList[r][p])
  BY <1>4, <1>7 DEF Members
<1> HIDE DEF p
<1>10. /\ partList' \in [Resources -> [Partitions -> Seq(Lockers)]]
       /\ partList'[r][p] = remove(partList[r][p], i)
       /\ \A p2 \in Partitions \ {p} : partList'[r][p2] = partList[r][p2]
       /\ \A r2 \in Resources \ {r} : partList'[r2] = partList[r2]
  BY <1>1, <1>2, <1>4, <1>8 DEF TypeOK
<1>11. TypeOK'
  BY <1>1, <1>3, <1>5, <1>10 DEF TypeOK, headVars
<1>12. ResourceOK(r)'
  <2>1. /\ ListsOK(r) /\ HeldOK(r) /\ CountedOK(r) /\ ConvertingOK(r) /\ WaitingOK(r)
        /\ InPartitionOK(r) /\ PartitionedOK(r) /\ CompatibleOK(r)
    BY <1>1 DEF ResourceOK
  <2>2. /\ Members(granted[r]) \subseteq Lockers
        /\ Members(conflict[r]) \subseteq Lockers
        /\ \A p2 \in Partitions : Members(partList[r][p2]) \subseteq Lockers
        /\ grantedCounts[r] \subseteq Lockers \X LockMode
    BY <1>1, ResourceTypes
  <2>3. /\ granted'[r] = granted[r] /\ grantedCounts'[r] = grantedCounts[r]
        /\ conflict'[r] = conflict[r] /\ conflictCounts'[r] = conflictCounts[r]
        /\ partitions'[r] = partitions[r] /\ partHeads'[r] = partHeads[r]
    BY <1>3 DEF headVars
  <2>4. \A l2 \in Lockers : l2 # l => req'[l2][r] = req[l2][r]
    BY <1>5
  <2>5. \A x \in Members(granted[r]) : x # l /\ req'[x][r] = req[x][r]
    BY <1>3, <2>1, <2>2, <2>4 DEF HeldOK
  <2>6. \A x \in Members(conflict[r]) : x # l /\ req'[x][r] = req[x][r]
    BY <1>3, <2>1, <2>2, <2>4 DEF WaitingOK
  <2>7. \A p2 \in Partitions : l \in Members(partList[r][p2]) => p2 = p
    BY <1>2, <1>9, <2>1, SMT DEF InPartitionOK
  <2>8. ListsOK(r)'
    BY <1>8, <1>10, <2>1, <2>3 DEF ListsOK
  <2>9. HeldOK(r)'
    BY <2>1, <2>3, <2>5 DEF HeldOK
  <2>10. CountedOK(r)'
    <3>1. \A c \in grantedCounts[r] : c[1] # l
      BY <1>3, <2>1, <2>5 DEF CountedOK
    <3>2. \A c \in grantedCounts[r] : req'[c[1]][r] = req[c[1]][r]
      BY <2>2, <2>4, <3>1
    <3> QED BY <2>1, <2>3, <3>2 DEF CountedOK
  <2>11. ConvertingOK(r)'
    <3> SUFFICES ASSUME NEW x \in Lockers
                 PROVE  /\ req'[x][r].status = "CONVERTING" =>
                             /\ <<x, req'[x][r].convertMode>> \in grantedCounts[r]
                             /\ req'[x][r].convertMode # req'[x][r].mode
                        /\ req'[x][r].status = "NEW" => req'[x][r].lock = "none"
      BY <2>3 DEF ConvertingOK
    <3>1. CASE x = l
      BY <1>6, <3>1
    <3>2. CASE x # l
      BY <2>1, <2>4, <3>2 DEF ConvertingOK
    <3> QED BY <3>1, <3>2
  <2>12. WaitingOK(r)'
    BY <2>1, <2>3, <2>6 DEF WaitingOK
  <2>13. InPartitionOK(r)'
    <3> SUFFICES ASSUME NEW p2 \in Partitions, NEW x \in Members(partList'[r][p2])
                 PROVE  /\ PartitionOf[x] = p2
                        /\ req'[x][r].lock = "partition"
                        /\ req'[x][r].status = "GRANTED"
                        /\ req'[x][r].mode \in intentModes
                        /\ p2 \in partHeads[r]
      BY <2>3 DEF InPartitionOK
    <3>1. x \in Members(partList[r][p2]) /\ x # l
      BY <1>8, <1>10, <2>7
    <3>2. req'[x][r] = req[x][r]
      BY <2>2, <2>4, <3>1
    <3> QED BY <2>1, <3>1, <3>2 DEF InPartitionOK
  <2>14. PartitionedOK(r)'
    BY <2>1, <2>3 DEF PartitionedOK, CanPartition, GrantedModes, ConflictModes
  <2>15. CompatibleOK(r)'
    BY <2>1, <2>3, <2>5 DEF CompatibleOK
  <2> QED BY <2>8, <2>9, <2>10, <2>11, <2>12, <2>13, <2>14, <2>15 DEF ResourceOK
<1>13. \A r2 \in Resources \ {r} : HeadState(r2)' = HeadState(r2)
  BY <1>3, <1>10 DEF HeadState, headVars
<1>14. \A r2 \in Resources : ResourceOK(r2)'
  BY <1>5, <1>12, <1>13, OtherResources
<1>15. ThreadOK(l)'
  BY <1>3, IdleThread
<1>16. \A l2 \in Lockers : ThreadOK(l2)'
  BY <1>3, <1>5, <1>15, OtherThreads
<1> QED BY <1>11, <1>14, <1>16 DEF IndInv

-----------------------------------------------------------------------------
(* _onLockModeChanged *)

\* The threads, when a step of another thread grants the request of c, which
\* waits or converts.
LEMMA GrantedThreads ==
    ASSUME IndInv, NEW c \in Lockers, NEW r \in Resources,
           req[c][r].status \in {"WAITING", "CONVERTING"},
           req'[c][r].recursiveCount = req[c][r].recursiveCount,
           pc' = pc, op' = op,
           \A l2 \in Lockers, r2 \in Resources :
              l2 # c \/ r2 # r => req'[l2][r2] = req[l2][r2]
    PROVE  \A l \in Lockers : ThreadOK(l)'
<1> SUFFICES ASSUME NEW l \in Lockers PROVE ThreadOK(l)'
  OBVIOUS
<1>1. ThreadOK(l) /\ op[l].res \in Resources
  BY OperationTypes DEF IndInv
<1>2. CASE l = c /\ op[l].res = r
  <2>1. pc[l] # "lock" /\ pc[l] # "convert"
    BY <1>1, <1>2 DEF ThreadOK
  <2> QED BY <1>1, <1>2, <2>1, FrameThread
<1>3. CASE ~ (l = c /\ op[l].res = r)
  <2>1. req'[l][op[l].res] = req[l][op[l].res]
    BY <1>1, <1>3
  <2> QED BY <1>1, <2>1, FrameThread
<1> QED BY <1>2, <1>3

\* _onLockModeChanged looks at one pending conversion.
LEMMA StepScanConversion ==
    ASSUME IndInv, NEW l \in Lockers, NEW r \in Resources, r = op[l].res,
           ScanConversion(l)
    PROVE  IndInv'
<1>0. TypeOK /\ ResourceOK(r)
  BY DEF IndInv
<1>1. granted[r] \in Seq(Lockers) /\ cursor[l] \in Nat \ {0}
  BY <1>0 DEF TypeOK
<1>2. cursor[l] \in DOMAIN granted[r]
  <2>1. cursor[l] <= Len(granted[r])
    BY DEF ScanConversion, MoreConversions
  <2> QED BY <1>1, <2>1, SMT
<1>3. PICK c \in Lockers : c = granted[r][cursor[l]]
  BY <1>1, <1>2, SMT
<1>4. c \in Members(granted[r])
  BY <1>1, <1>2, <1>3 DEF Members
<1>5. /\ cursor' = [cursor EXCEPT ![l] = @ + 1]
      /\ UNCHANGED <<granted, conflict, conflictCounts, compatibleFirst>>
      /\ UNCHANGED <<partVars, bucket, pc, op>>
  BY DEF ScanConversion
<1>6. cursor' \in [Lockers -> Nat \ {0}]
  <2>1. cursor \in [Lockers -> Nat \ {0}]
    BY <1>0 DEF TypeOK
  <2>2. cursor[l] + 1 \in Nat \ {0}
    BY <1>1, SMT
  <2> QED BY <1>5, <2>1, <2>2
<1>7. CASE ~ ConversionGrantable(r, c)
  <2>1. UNCHANGED <<conversions, grantedCounts, req, notify>>
    BY <1>3, <1>7 DEF ScanConversion
  <2>2. TypeOK'
    BY <1>0, <1>5, <1>6, <2>1 DEF TypeOK, partVars
  <2>3. \A l2 \in Lockers : ThreadOK(l2)'
    BY <1>5, <2>1 DEF IndInv, ThreadOK
  <2> QED BY <1>5, <2>1, <2>2, <2>3, LightStep DEF headVars
<1>8. SUFFICES ASSUME ConversionGrantable(r, c) PROVE IndInv'
  BY <1>7
<1>9. req[c][r] \in Request
  BY <1>0 DEF TypeOK
<1>10. PICK m \in LockMode : m = req[c][r].convertMode
  BY <1>9 DEF Request
<1>11. PICK old \in LockMode : old = req[c][r].mode
  BY <1>9 DEF Request
<1> DEFINE q == [req[c][r] EXCEPT !.status = "GRANTED", !.mode = m, !.convertMode = "NONE"]
<1>12. /\ SetRequest(c, r, q)
       /\ conversions' = [conversions EXCEPT ![r] = @ \ {c}]
       /\ grantedCounts' = [grantedCounts EXCEPT ![r] = @ \ {<<c, old>>}]
       /\ notify' = [notify EXCEPT ![c] = TRUE]
  BY <1>3, <1>8, <1>10, <1>11 DEF ScanConversion
<1>13. /\ req[c][r].status = "CONVERTING"
       /\ ~ conflicts(m, GrantedModesWithout(r, c))
  BY <1>8, <1>10 DEF ConversionGrantable
<1>14. /\ q \in Request
       /\ q.status = "GRANTED" /\ q.mode = m /\ q.lock = req[c][r].lock
       /\ q.recursiveCount = req[c][r].recursiveCount
  <2>1. "NONE" \in LockMode
    BY DEF LockMode
  <2> QED BY <1>9, <2>1 DEF Request
<1> HIDE DEF q
<1>15. /\ req' \in [Lockers -> [Resources -> Request]]
       /\ req'[c][r] = q
       /\ \A l2 \in Lockers, r2 \in Resources :
             l2 # c \/ r2 # r => req'[l2][r2] = req[l2][r2]
  BY <1>0, <1>12, <1>14, ReqUpdate
<1>16. /\ grantedCounts' \in [Resources -> SUBSET (Lockers \X LockMode)]
       /\ grantedCounts'[r] = grantedCounts[r] \ {<<c, old>>}
       /\ \A r2 \in Resources \ {r} : grantedCounts'[r2] = grantedCounts[r2]
  <2>1. grantedCounts \in [Resources -> SUBSET (Lockers \X LockMode)]
    BY <1>0 DEF TypeOK
  <2>2. grantedCounts[r] \ {<<c, old>>} \in SUBSET (Lockers \X LockMode)
    BY <2>1
  <2> QED BY <1>12, <2>1, <2>2
<1>17. TypeOK'
  <2>1. conversions' \in [Resources -> SUBSET Lockers]
    BY <1>0, <1>12 DEF TypeOK
  <2>2. notify' \in [Lockers -> BOOLEAN]
    BY <1>0, <1>12 DEF TypeOK
  <2> QED BY <1>0, <1>5, <1>6, <1>15, <1>16, <2>1, <2>2 DEF TypeOK, partVars
<1>18. ResourceOK(r)'
  <2>1. CountedOK(r) /\ ConvertingOK(r) /\ PartitionedOK(r)
    BY <1>0 DEF ResourceOK
  <2>2. <<c, m>> \in grantedCounts[r] /\ m # old
    BY <1>10, <1>11, <1>13, <2>1 DEF ConvertingOK
  <2>3. \A d \in grantedCounts[r] : d[1] = c => d[2] \in {m, old}
    BY <1>10, <1>11, <2>1 DEF CountedOK
  <2>4. grantedCounts[r] \subseteq Lockers \X LockMode
    BY <1>0, ResourceTypes
  <2>5. partitions[r] # {} => m \in intentModes
    <3>1. m \in GrantedModes(r)
      BY <2>2, SMT DEF GrantedModes
    <3> QED BY <2>1, <3>1 DEF PartitionedOK, CanPartition
  <2>6. \A l2 \in Members(granted[r]) : l2 # c => ~ conflicts(m, {req[l2][r].mode})
    BY <1>13, ModesWithout
  <2>7. /\ <<c, m>> \in grantedCounts'[r]
        /\ \A d \in grantedCounts[r] : d[1] # c => d \in grantedCounts'[r]
        /\ \A d \in grantedCounts'[r] : d[1] # c => d \in grantedCounts[r]
        /\ grantedCounts'[r] \subseteq Lockers \X LockMode
    BY <1>16, <2>2, <2>4, SMT
  <2>8. \A d \in grantedCounts'[r] : d[1] = c => d[2] = m
    <3> SUFFICES ASSUME NEW d \in grantedCounts'[r], d[1] = c PROVE d[2] = m
      OBVIOUS
    <3>1. d \in grantedCounts[r] /\ d # <<c, old>> /\ d \in Lockers \X LockMode
      BY <1>16, <2>4
    <3> QED BY <2>3, <3>1, SMT
  <2>9. /\ granted'[r] = granted[r] /\ conflict'[r] = conflict[r]
        /\ conflictCounts'[r] = conflictCounts[r] /\ partitions'[r] = partitions[r]
        /\ partHeads'[r] = partHeads[r] /\ partList'[r] = partList[r]
    BY <1>5 DEF partVars
  <2>10. \A l2 \in Lockers \ {c} : req'[l2][r] = req[l2][r]
    BY <1>15
  <2>11. /\ req'[c][r].status = "GRANTED" /\ req'[c][r].mode = m
         /\ req'[c][r].lock = req[c][r].lock
    BY <1>14, <1>15
  <2> QED BY <1>4, <2>5, <2>6, <2>7, <2>8, <2>9, <2>10, <2>11, HeadChangeMode
<1>19. \A r2 \in Resources \ {r} : HeadState(r2)' = HeadState(r2)
  BY <1>5, <1>16 DEF HeadState, partVars
<1>20. \A r2 \in Resources : ResourceOK(r2)'
  BY <1>15, <1>18, <1>19, OtherResources
<1>21. \A l2 \in Lockers : ThreadOK(l2)'
  BY <1>5, <1>13, <1>14, <1>15, GrantedThreads
<1> QED BY <1>17, <1>20, <1>21 DEF IndInv

\* _onLockModeChanged looks at one waiting request.
LEMMA StepScanConflict ==
    ASSUME IndInv, NEW l \in Lockers, NEW r \in Resources, r = op[l].res,
           ScanConflict(l)
    PROVE  IndInv'
<1>0. TypeOK /\ ResourceOK(r)
  BY DEF IndInv
<1>1. conflict[r] \in Seq(Lockers) /\ cursor[l] \in Nat \ {0}
  BY <1>0 DEF TypeOK
<1>2. PICK i \in DOMAIN conflict[r] : i = cursor[l]
  <2>1. cursor[l] <= Len(conflict[r])
    BY DEF ScanConflict, MoreConflicts
  <2> QED BY <1>1, <2>1, SMT
<1>3. PICK w \in Lockers : w = conflict[r][i]
  BY <1>1, <1>2, SMT
<1>4. w \in Members(conflict[r])
  BY <1>1, <1>2, <1>3 DEF Members
<1>5. UNCHANGED <<partVars, bucket, pc, op>>
  BY DEF ScanConflict
<1>6. cursor \in [Lockers -> Nat \ {0}]
  BY <1>0 DEF TypeOK
<1>7. CASE conflicts(req[w][r].mode, GrantedModes(r))
  <2>1. UNCHANGED <<req, headVars, notify>> /\ cursor' = [cursor EXCEPT ![l] = @ + 1]
    BY <1>2, <1>3, <1>7 DEF ScanConflict
  <2>2. cursor[l] + 1 \in Nat \ {0}
    BY <1>1, SMT
  <2>3. cursor' \in [Lockers -> Nat \ {0}]
    BY <1>6, <2>1, <2>2
  <2>4. TypeOK'
    BY <1>0, <1>5, <2>1, <2>3 DEF TypeOK, headVars, partVars
  <2>5. \A l2 \in Lockers : ThreadOK(l2)'
    BY <1>5, <2>1 DEF IndInv, ThreadOK
  <2> QED BY <1>5, <2>1, <2>4, <2>5, LightStep
<1>8. SUFFICES ASSUME ~ conflicts(req[w][r].mode, GrantedModes(r)) PROVE IndInv'
  BY <1>7
<1>9. req[w][r] \in Request
  BY <1>0, SMT DEF TypeOK
<1>10. PICK m \in LockMode : m = req[w][r].mode
  BY <1>9 DEF Request
<1> DEFINE q == [req[w][r] EXCEPT !.status = "GRANTED"]
           rest == remove(conflict[r], i)
<1>11. /\ SetRequest(w, r, q)
       /\ conflict' = [conflict EXCEPT ![r] = rest]
       /\ conflictCounts' = [conflictCounts EXCEPT ![r] = @ \ {<<w, m>>}]
       /\ granted' = [granted EXCEPT ![r] = push_back(@, w)]
       /\ grantedCounts' = [grantedCounts EXCEPT ![r] = @ \cup {<<w, m>>}]
       /\ compatibleFirst' = [compatibleFirst EXCEPT ![r] =
                                 IF req[w][r].compatibleFirst THEN @ \cup {w} ELSE @]
       /\ notify' = [notify EXCEPT ![w] = TRUE]
       /\ cursor' = [cursor EXCEPT ![l] = IF m = "X" THEN Len(conflict[r]) ELSE @]
       /\ UNCHANGED conversions
  BY <1>2, <1>3, <1>8, <1>10 DEF ScanConflict
<1>12. /\ req[w][r].status = "WAITING" /\ req[w][r].lock = "head"
       /\ <<w, m>> \in conflictCounts[r]
  BY <1>0, <1>4, <1>10 DEF ResourceOK, WaitingOK
<1>13. /\ q \in Request
       /\ q.status = "GRANTED" /\ q.mode = m /\ q.lock = "head"
       /\ q.recursiveCount = req[w][r].recursiveCount
  BY <1>9, <1>10, <1>12 DEF Request
<1> HIDE DEF q
<1>14. /\ req' \in [Lockers -> [Resources -> Request]]
       /\ req'[w][r] = q
       /\ \A l2 \in Lockers, r2 \in Resources :
             l2 # w \/ r2 # r => req'[l2][r2] = req[l2][r2]
  BY <1>0, <1>11, <1>13, ReqUpdate
<1>15. /\ rest \in Seq(Lockers) /\ Distinct(rest)
       /\ Members(rest) = Members(conflict[r]) \ {w}
  <2>1. Distinct(conflict[r])
    BY <1>0 DEF ResourceOK, ListsOK
  <2> QED BY <1>1, <1>3, <2>1, RemoveList
<1> HIDE DEF rest
<1>16. /\ conflict' \in [Resources -> Seq(Lockers)]
       /\ conflict'[r] = rest
       /\ \A r2 \in Resources \ {r} : conflict'[r2] = conflict[r2]
  BY <1>0, <1>11, <1>15 DEF TypeOK
<1>17. /\ conflictCounts' \in [Resources -> SUBSET (Lockers \X LockMode)]
       /\ conflictCounts'[r] = conflictCounts[r] \ {<<w, m>>}
       /\ \A r2 \in Resources \ {r} : conflictCounts'[r2] = conflictCounts[r2]
  <2>1. conflictCounts \in [Resources -> SUBSET (Lockers \X LockMode)]
    BY <1>0 DEF TypeOK
  <2> QED BY <1>11, <2>1
<1>18. /\ granted' \in [Resources -> Seq(Lockers)]
       /\ granted'[r] = push_back(granted[r], w)
       /\ \A r2 \in Resources \ {r} : granted'[r2] = granted[r2]
  <2>1. granted \in [Resources -> Seq(Lockers)]
    BY <1>0 DEF TypeOK
  <2>2. push_back(granted[r], w) \in Seq(Lockers)
    BY <2>1, PushBackList
  <2> QED BY <1>11, <2>1, <2>2
<1>19. /\ grantedCounts' \in [Resources -> SUBSET (Lockers \X LockMode)]
       /\ grantedCounts'[r] = grantedCounts[r] \cup {<<w, m>>}
       /\ \A r2 \in Resources \ {r} : grantedCounts'[r2] = grantedCounts[r2]
  <2>1. grantedCounts \in [Resources -> SUBSET (Lockers \X LockMode)]
    BY <1>0 DEF TypeOK
  <2>2. grantedCounts[r] \cup {<<w, m>>} \in SUBSET (Lockers \X LockMode)
    BY <2>1, SMT
  <2> QED BY <1>11, <2>1, <2>2
<1>20. TypeOK'
  <2>1. compatibleFirst' \in [Resources -> SUBSET Lockers]
    BY <1>0, <1>11 DEF TypeOK
  <2>2. notify' \in [Lockers -> BOOLEAN]
    BY <1>0, <1>11 DEF TypeOK
  <2>3. Len(conflict[r]) \in Nat \ {0}
    BY <1>1, <1>2, SMT
  <2>4. cursor' \in [Lockers -> Nat \ {0}]
    BY <1>6, <1>11, <2>3
  <2> QED BY <1>0, <1>5, <1>11, <1>14, <1>16, <1>17, <1>18, <1>19, <2>1, <2>2, <2>4
          DEF TypeOK, partVars
<1>21. ResourceOK(r)'
  <2>1. partitions[r] = {}
    <3>1. m \in ConflictModes(r)
      BY <1>12, SMT DEF ConflictModes
    <3> QED BY <1>0, <3>1 DEF ResourceOK, PartitionedOK, CanPartition
  <2>2. /\ partitions'[r] = {}
        /\ partHeads'[r] = partHeads[r] /\ partList'[r] = partList[r]
    BY <1>5, <2>1 DEF partVars
  <2>3. \A d \in conflictCounts[r] : d[1] # w => d \in conflictCounts'[r]
    <3> SUFFICES ASSUME NEW d \in conflictCounts[r], d[1] # w
                 PROVE  d \in conflictCounts'[r]
      OBVIOUS
    <3>1. d # <<w, m>>
      BY SMT
    <3> QED BY <1>17, <3>1
  <2>4. \A l2 \in Lockers \ {w} : req'[l2][r] = req[l2][r]
    BY <1>14
  <2>5. /\ req'[w][r].status = "GRANTED" /\ req'[w][r].mode = m
        /\ req'[w][r].lock = "head"
    BY <1>13, <1>14
  <2>6. Distinct(conflict'[r]) /\ Members(conflict'[r]) = Members(conflict[r]) \ {w}
    BY <1>15, <1>16
  <2>7. req[w][r].status \in {"NEW", "WAITING"} /\ ~ conflicts(m, GrantedModes(r))
    BY <1>8, <1>10, <1>12
  <2>8. /\ granted'[r] = push_back(granted[r], w)
        /\ grantedCounts'[r] = grantedCounts[r] \cup {<<w, m>>}
    BY <1>18, <1>19
  <2> QED BY <2>1, <2>2, <2>3, <2>4, <2>5, <2>6, <2>7, <2>8, HeadGrant
<1>22. \A r2 \in Resources \ {r} : HeadState(r2)' = HeadState(r2)
  BY <1>5, <1>16, <1>17, <1>18, <1>19 DEF HeadState, partVars
<1>23. \A r2 \in Resources : ResourceOK(r2)'
  BY <1>14, <1>21, <1>22, OtherResources
<1>24. \A l2 \in Lockers : ThreadOK(l2)'
  BY <1>5, <1>12, <1>13, <1>14, GrantedThreads
<1> QED BY <1>20, <1>23, <1>24 DEF IndInv

-----------------------------------------------------------------------------

\* An empty lock manager satisfies the invariant.
LEMMA InitIndInv ==
    ASSUME Init PROVE IndInv
<1>1. initNew \in Request
  BY InitNewType
<1>2. NoOp \in Operation
  BY NoOpType
<1>3. /\ <<>> \in Seq(Lockers)
      /\ Members(<<>>) = {} /\ Distinct(<<>>)
  BY EmptyList, SMT
<1>4. TypeOK
  <2>1. 1 \in Nat \ {0}
    BY SMT
  <2>2. "idle" \in Location
    BY DEF Location
  <2> QED BY <1>1, <1>2, <1>3, <2>1, <2>2 DEF Init, TypeOK
<1>5. ASSUME NEW r \in Resources PROVE ResourceOK(r)
  <2>1. /\ granted[r] = <<>> /\ conflict[r] = <<>>
        /\ grantedCounts[r] = {} /\ partitions[r] = {} /\ partHeads[r] = {}
        /\ \A p \in Partitions : partList[r][p] = <<>>
        /\ \A l \in Lockers : req[l][r] = initNew
    BY DEF Init
  <2>2. \A l \in Lockers : req[l][r].status = "NEW" /\ req[l][r].lock = "none"
    BY <2>1, SMT DEF initNew
  <2>3. /\ ListsOK(r) /\ HeldOK(r) /\ CountedOK(r) /\ WaitingOK(r)
        /\ InPartitionOK(r) /\ PartitionedOK(r) /\ CompatibleOK(r)
    BY <1>3, <2>1 DEF ListsOK, HeldOK, CountedOK, WaitingOK, InPartitionOK,
                      PartitionedOK, CompatibleOK
  <2>4. ConvertingOK(r)
    BY <2>2 DEF ConvertingOK
  <2> QED BY <2>3, <2>4 DEF ResourceOK
<1>6. \A l \in Lockers : ThreadOK(l)
  BY DEF Init, ThreadOK
<1> QED BY <1>4, <1>5, <1>6 DEF IndInv

\* Every call that a locker may begin preserves the invariant.
LEMMA StepCall ==
    ASSUME IndInv, NEW l \in Lockers, Call(l)
    PROVE  IndInv'
<1>1. PICK r \in Resources :
        \/ \E m \in RequestMode :
              \/ LockFast(l, r, m)
              \/ LockBegin(l, r, m)
              \/ Reacquire(l, r, m)
              \/ ConvertBegin(l, r, m)
              \/ Downgrade(l, r, m)
        \/ UnlockReference(l, r)
        \/ UnlockPartitioned(l, r)
        \/ UnlockBegin(l, r)
  BY DEF Call
<1>2. ASSUME NEW m \in RequestMode, LockFast(l, r, m) PROVE IndInv'
  BY <1>2, StepLockFast
<1>3. ASSUME NEW m \in RequestMode, LockBegin(l, r, m) PROVE IndInv'
  BY <1>3, StepLockBegin
<1>4. ASSUME NEW m \in RequestMode, Reacquire(l, r, m) PROVE IndInv'
  BY <1>4, StepReacquire
<1>5. ASSUME NEW m \in RequestMode, ConvertBegin(l, r, m) PROVE IndInv'
  BY <1>5, StepConvertBegin
<1>6. ASSUME NEW m \in RequestMode, Downgrade(l, r, m) PROVE IndInv'
  BY <1>6, StepDowngrade
<1>7. CASE UnlockReference(l, r)
  BY <1>7, StepUnlockReference
<1>8. CASE UnlockPartitioned(l, r)
  BY <1>8, StepUnlockPartitioned
<1>9. CASE UnlockBegin(l, r)
  BY <1>9, StepUnlockBegin
<1> QED BY <1>1, <1>2, <1>3, <1>4, <1>5, <1>6, <1>7, <1>8, <1>9

\* Every step of a thread inside a call preserves the invariant.
LEMMA StepContinue ==
    ASSUME IndInv, NEW l \in Lockers, Continue(l)
    PROVE  IndInv'
<1>1. PICK r \in Resources : r = op[l].res
  BY OperationTypes DEF IndInv
<1>2. CASE LockStartPartition(l)
  BY <1>1, <1>2, StepLockStartPartition
<1>3. CASE Migrate(l)
  <2>1. PICK p \in Partitions :
           MigratePartition(l, r, p) /\ UNCHANGED <<pc, op, cursor, notify>>
    BY <1>1, <1>3 DEF Migrate
  <2>2. l \in Threads
    BY DEF Threads
  <2> QED BY <2>1, <2>2, StepMigratePartition
<1>4. CASE NewRequest(l)
  BY <1>1, <1>4, StepNewRequestGranted, StepNewRequestWaits
<1>5. CASE Convert(l)
  BY <1>1, <1>5, StepConvertGranted, StepConvertWaits
<1>6. CASE UnlockGranted(l)
  BY <1>1, <1>6, StepUnlockGranted
<1>7. CASE UnlockWaiting(l)
  BY <1>1, <1>7, StepUnlockWaiting
<1>8. CASE UnlockConverting(l)
  BY <1>1, <1>8, StepUnlockConverting
<1>9. CASE ScanConversion(l)
  BY <1>1, <1>9, StepScanConversion
<1>10. CASE ScanConversionsDone(l)
  BY <1>10, StepScanConversionsDone
<1>11. CASE ScanConflict(l)
  BY <1>1, <1>11, StepScanConflict
<1>12. CASE ScanDone(l)
  BY <1>12, StepScanDone
<1> QED BY <1>2, <1>3, <1>4, <1>5, <1>6, <1>7, <1>8, <1>9, <1>10, <1>11, <1>12
        DEF Continue

\* Every step of the lock manager preserves the invariant.
LEMMA NextIndInv ==
    ASSUME IndInv, [Next]_vars
    PROVE  IndInv'
<1>1. ASSUME NEW l \in Lockers, Call(l) PROVE IndInv'
  BY <1>1, StepCall
<1>2. ASSUME NEW l \in Lockers, Continue(l) PROVE IndInv'
  BY <1>2, StepContinue
<1>3. ASSUME NEW l \in Lockers, WakeUp(l) PROVE IndInv'
  BY <1>3, StepWakeUp
<1>4. ASSUME NEW l \in Lockers, GiveUp(l) PROVE IndInv'
  BY <1>4, StepGiveUp
<1>5. ASSUME NEW r \in Resources, CleanupMigrate(r) PROVE IndInv'
  <2>1. PICK p \in Partitions :
           MigratePartition(Cleaner, r, p) /\ UNCHANGED <<pc, op, cursor, notify>>
    BY <1>5 DEF CleanupMigrate
  <2>2. Cleaner \in Threads
    BY DEF Threads
  <2> QED BY <2>1, <2>2, StepMigratePartition
<1>6. ASSUME NEW r \in Resources, CleanupDone(r) PROVE IndInv'
  BY <1>6, StepCleanupDone
<1>7. CASE UNCHANGED vars
  <2>1. UNCHANGED <<req, headVars, partVars, bucket, pc, op, cursor, notify>>
    BY <1>7 DEF vars
  <2>2. TypeOK'
    BY <2>1 DEF IndInv, TypeOK, headVars, partVars
  <2>3. \A l \in Lockers : ThreadOK(l)'
    BY <2>1 DEF IndInv, ThreadOK
  <2> QED BY <2>1, <2>2, <2>3, LightStep
<1> QED BY <1>1, <1>2, <1>3, <1>4, <1>5, <1>6, <1>7 DEF Next, Cleanup

-----------------------------------------------------------------------------

\* Whatever threads interleave in lock(), convert(), unlock(), downgrade(),
\* _onLockModeChanged() and cleanupUnusedLocks(), and whether or not a
\* conversion may time out, the lock manager stays in a state of IndInv.
THEOREM Invariant == Spec => []IndInv
<1>1. Init => IndInv
  BY InitIndInv
<1>2. IndInv /\ [Next]_vars => IndInv'
  BY NextIndInv
<1> QED BY <1>1, <1>2, PTL DEF Spec

\* Every variable of the lock manager keeps its type.
THEOREM TypeCorrect == Spec => []TypeOK
<1>1. IndInv => TypeOK
  BY DEF IndInv
<1> QED BY <1>1, Invariant, PTL

\* Under the invariant two holders of a resource are compatible.
LEMMA HoldersCompatible ==
    ASSUME IndInv, NEW r \in Resources, NEW l1 \in Holders(r), NEW l2 \in Holders(r),
           l1 # l2
    PROVE  ~ conflicts(req[l1][r].mode, {req[l2][r].mode})
<1>1. TypeOK /\ ResourceOK(r)
  BY DEF IndInv
<1>2. /\ HeldOK(r) /\ InPartitionOK(r) /\ PartitionedOK(r) /\ CompatibleOK(r)
  BY <1>1 DEF ResourceOK
<1>3. CASE l1 \in Members(granted[r]) /\ l2 \in Members(granted[r])
  BY <1>2, <1>3 DEF CompatibleOK
<1>4. CASE ~ (l1 \in Members(granted[r]) /\ l2 \in Members(granted[r]))
  <2>1. PICK p \in Partitions : l1 \in Members(partList[r][p]) \/ l2 \in Members(partList[r][p])
    BY <1>4 DEF Holders
  <2>2. GrantedModes(r) \subseteq intentModes
    BY <1>2, <2>1 DEF InPartitionOK, PartitionedOK, CanPartition
  <2>3. ASSUME NEW l \in Holders(r) PROVE req[l][r].mode \in intentModes
    <3>1. CASE l \in Members(granted[r])
      <4>1. <<l, req[l][r].mode>> \in grantedCounts[r]
        BY <1>2, <3>1 DEF HeldOK
      <4>2. req[l][r].mode \in GrantedModes(r)
        BY <4>1, SMT DEF GrantedModes
      <4> QED BY <2>2, <4>2
    <3>2. CASE \E q \in Partitions : l \in Members(partList[r][q])
      BY <1>2, <3>2 DEF InPartitionOK
    <3> QED BY <3>1, <3>2 DEF Holders
  <2>4. req[l1][r].mode \in intentModes /\ req[l2][r].mode \in intentModes
    BY <2>3
  <2> QED BY <2>4, IntentCompatible
<1> QED BY <1>3, <1>4

\* Mutual exclusion: two lockers that hold the same resource, on the granted
\* list of its LockHead or on that of a partition, hold compatible modes.
THEOREM MutualExclusion == Spec => []GrantedCompatible
<1>1. IndInv => GrantedCompatible
  BY HoldersCompatible DEF GrantedCompatible
<1> QED BY <1>1, Invariant, PTL

\* A resource with a partition has only intent modes granted and nobody
\* waiting, so the fast path of lock() may grant an intent mode unseen.
THEOREM FastPathSound == Spec => []PartitionedMeansIntent
<1>1. IndInv => PartitionedMeansIntent
  BY DEF IndInv, ResourceOK, PartitionedOK, CanPartition, PartitionedMeansIntent
<1> QED BY <1>1, Invariant, PTL

=============================================================================
