-------------------------- MODULE DeadlockDetector --------------------------
(***************************************************************************)
(* The deadlock detector (class DeadlockDetector of lock_manager.cpp), run *)
(* by a thread that waits in lockComplete with checkDeadlock, while the    *)
(* other threads go on locking and unlocking.  The detector walks the      *)
(* wait-for graph with one bucket mutex at a time, so the locks change     *)
(* between two nodes.                                                      *)
(***************************************************************************)
EXTENDS LockManager, Relation

CONSTANT Modes   \* the modes that are asked for

ASSUME ModesAssumption == Modes \subseteq RequestMode

VARIABLES
    initial,      \* _initialLockerId, or NoThread while no check runs
    queue,        \* _queue, the unprocessed nodes
    graph,        \* the keys of _graph
    foundCycle,   \* _foundCycle
    startCycle    \* history: the cycles the initial locker was in at the start

detectorVars == <<initial, queue, graph, foundCycle, startCycle>>

Node == [locker : Lockers, res : Resources]

\* Locker::getWaitingResource, as a set of at most one resource: a request of
\* the locker's map that is not granted.  It may not have been queued yet.
WaitingResource(l) ==
    {r \in Resources :
        \/ req[l][r].status \in {"WAITING", "CONVERTING"}
        \/ req[l][r].status = "NEW" /\ pc[l] = "lock" /\ op[l].res = r}

\* The nodes of the lockers of a list that wait themselves.
WaitingNodes(list) ==
    LET waits == SelectSeq(list, LAMBDA l : WaitingResource(l) # {}) IN
    [i \in DOMAIN waits |->
        [locker |-> waits[i], res |-> CHOOSE r \in WaitingResource(waits[i]) : TRUE]]

PositionIn(list, l) == CHOOSE i \in DOMAIN list : list[i] = l

\* Is l before other on the granted list of r?
Before(r, l, other) == PositionIn(granted[r], l) < PositionIn(granted[r], other)

\* The request of l waits for the request of other on the granted list: for
\* its mode, and for its convertMode unless l is itself a conversion that
\* stands before it.
ConflictsWithGranted(r, l, other) ==
    LET q == req[l][r]
        o == req[other][r]
    IN
    /\ l # other
    /\ \/ q.status = "WAITING" /\ conflicts(q.mode, {o.mode, o.convertMode})
       \/ /\ q.status = "CONVERTING"
          /\ \/ conflicts(q.convertMode, {o.mode})
             \/ Before(r, other, l) /\ conflicts(q.convertMode, {o.convertMode})

\* The requests that wait before l on the conflict list.
WaitBefore(r, l) ==
    IF req[l][r].status = "WAITING"
    THEN SubSeq(conflict[r], 1, PositionIn(conflict[r], l) - 1)
    ELSE <<>>

\* Mutant of Owners: the walk starts before the last granted request.
OwnersWithoutLast(r, l) ==
    WaitingNodes(SelectSeq(SubSeq(granted[r], 1, Len(granted[r]) - 1),
                           LAMBDA o : ConflictsWithGranted(r, l, o)))

\* The nodes that _processNextNode pushes for the request of l, in the order
\* in which they come to stand at the front of the queue.
Owners(r, l) ==
    WaitingNodes(SelectSeq(WaitBefore(r, l),
                           LAMBDA w : conflicts(req[l][r].mode, {req[w][r].mode})))
    \o WaitingNodes(SelectSeq(granted[r],
                              LAMBDA o : ConflictsWithGranted(r, l, o)))

-----------------------------------------------------------------------------
(* Who really waits for whom: the modes that convert, newRequest and       *)
(* _onLockModeChanged hold against a request whose thread has not given    *)
(* up.                                                                     *)

WaitsForHeld(l, other) ==
    \E r \in Resources :
        LET q == req[l][r] IN
        /\ l # other
        /\ pc[l] = "wait"
        /\ other \in Members(granted[r])
        /\ \/ q.status = "WAITING" /\ conflicts(q.mode, {req[other][r].mode})
           \/ q.status = "CONVERTING" /\ conflicts(q.convertMode, {req[other][r].mode})

WaitsForPending(l, other) ==
    \E r \in Resources :
        LET q == req[l][r] IN
        /\ l # other
        /\ pc[l] = "wait"
        /\ other \in conversions[r]
        /\ \/ q.status = "WAITING" /\ conflicts(q.mode, {req[other][r].convertMode})
           \/ /\ q.status = "CONVERTING"
              /\ conflicts(q.convertMode, {req[other][r].convertMode})

\* l is in a cycle of waits for modes that are held, or held or pending.  Such
\* a cycle is stable: none of its lockers runs before one of them gives up.
InHeldCycle(l) ==
    TransitiveClosure([x, y \in Lockers |-> WaitsForHeld(x, y)], Lockers)[l, l]

InCycle(l) ==
    TransitiveClosure([x, y \in Lockers |-> WaitsForHeld(x, y) \/ WaitsForPending(x, y)],
                      Lockers)[l, l]

-----------------------------------------------------------------------------

\* The wait of l comes back after DeadlockTimeoutMs and the detector starts.
CheckBegin(l) ==
    /\ initial = NoThread
    /\ pc[l] = "wait"
    /\ initial' = l
    /\ queue' = WaitingNodes(<<l>>)
    /\ graph' = {}
    /\ foundCycle' = FALSE
    /\ startCycle' = [held |-> InHeldCycle(l), any |-> InCycle(l)]
    /\ UNCHANGED vars

\* findRequest: the request of the node is on one of the two lists.
Found(node) == node.locker \in Members(granted[node.res]) \cup Members(conflict[node.res])

\* Mutant of Rest: the processed node stays on the queue.
RestKeepsFront(nodes) == nodes

\* _queue.pop_front.
Rest(nodes) == Tail(nodes)

\* DeadlockDetector::next with _processNextNode, under the bucket mutex of
\* the node's resource.  A request granted since it was queued ends the walk
\* there, and so does a locker that was seen; the initial one closes a cycle.
ProcessNode ==
    LET node == Head(queue)
        l == node.locker
    IN
    /\ initial # NoThread
    /\ queue # <<>>
    /\ BucketFree(node.res)
    /\ IF ~ Found(node) \/ req[l][node.res].status = "GRANTED"
       THEN queue' = Rest(queue) /\ UNCHANGED <<graph, foundCycle>>
       ELSE IF l \in graph
       THEN /\ foundCycle' = (foundCycle \/ l = initial)
            /\ queue' = Rest(queue)
            /\ UNCHANGED graph
       ELSE /\ graph' = graph \cup {l}
            /\ queue' = Owners(node.res, l) \o Rest(queue)
            /\ UNCHANGED foundCycle
    /\ UNCHANGED <<vars, initial, startCycle>>

\* The end of check(): with a cycle the wait ends with LOCK_DEADLOCK and the
\* request is given up, otherwise the thread goes back to waiting.
CheckDone(l) ==
    /\ initial = l
    /\ queue = <<>>
    /\ initial' = NoThread
    /\ graph' = {}
    /\ foundCycle' = FALSE
    /\ startCycle' = [held |-> FALSE, any |-> FALSE]
    /\ pc' = [pc EXCEPT ![l] = IF foundCycle THEN "cancel" ELSE @]
    /\ UNCHANGED <<req, headVars, partVars, bucket, op, cursor, notify, queue>>

Acquire(l) ==
    \E r \in Resources, m \in Modes :
        LockFast(l, r, m) \/ LockBegin(l, r, m) \/ ConvertBegin(l, r, m)

Release(l) ==
    \E r \in Resources :
        UnlockReference(l, r) \/ UnlockPartitioned(l, r) \/ UnlockBegin(l, r)

\* A step of the lock manager.  The thread that runs the detector is not
\* waiting on its notification.
LockStep(l) ==
    /\ Acquire(l) \/ Release(l) \/ Continue(l) \/ (initial # l /\ WakeUp(l))
    /\ UNCHANGED detectorVars

DetectorInit ==
    /\ Init
    /\ initial = NoThread
    /\ queue = <<>>
    /\ graph = {}
    /\ foundCycle = FALSE
    /\ startCycle = [held |-> FALSE, any |-> FALSE]

DetectorNext ==
    \/ \E l \in Lockers : LockStep(l) \/ CheckBegin(l) \/ CheckDone(l)
    \/ ProcessNode

DetectorSpec == DetectorInit /\ [][DetectorNext]_<<vars, detectorVars>>

\* A thread in the detector or in a lock manager call that is not blocked on
\* a mutex is scheduled again; whether a locker calls is up to the caller.
DetectorFairness ==
    /\ SF_<<vars, detectorVars>>(ProcessNode)
    /\ \A l \in Lockers :
          /\ WF_<<vars, detectorVars>>(CheckDone(l))
          /\ WF_<<vars, detectorVars>>(Continue(l) /\ UNCHANGED detectorVars)

FairDetectorSpec == DetectorSpec /\ DetectorFairness

-----------------------------------------------------------------------------
(* Properties *)

\* The values of the variables of the detector and of the locks it looks at.
DetectorTypeOK ==
    /\ TypeOK
    /\ initial \in Lockers \cup {NoThread}
    /\ queue \in Seq(Node)
    /\ graph \subseteq Lockers
    /\ foundCycle \in BOOLEAN
    /\ startCycle \in [held : BOOLEAN, any : BOOLEAN]

\* "if there is a stable cycle it will be discovered" (lock_manager.h): a
\* check that starts while its locker is in a cycle of waits finds a cycle,
\* whatever the other lockers lock and unlock while it walks.
StableCycleDiscovered ==
    (initial # NoThread /\ queue = <<>> /\ startCycle.any) => foundCycle

\* The same for a cycle in which everyone waits for a mode that another one
\* holds, the mode to which others convert not counted.
HeldCycleDiscovered ==
    (initial # NoThread /\ queue = <<>> /\ startCycle.held) => foundCycle

\* The walk ends although the graph changes under it: every locker is
\* expanded at most once, so check() returns.
CheckTerminates ==
    \A l \in Lockers : (initial = l) ~> (initial = NoThread)

=============================================================================
