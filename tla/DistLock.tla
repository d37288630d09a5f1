------------------------------ MODULE DistLock ------------------------------
(***************************************************************************)
(* The distributed lock of a collection: a document on the config servers, *)
(* taken and released by find-and-modify, that ReplSetDistLockManager      *)
(* lets a process take from another whose ping has not changed for the     *)
(* expiration time.  The config servers are seen as one document that      *)
(* majority reads and writes act on; a call may fail before or after it    *)
(* took effect.                                                            *)
(*                                                                         *)
(* A lock session is <<process, number>>, for the OID drawn at each        *)
(* attempt; a number is used up when the session may have reached the      *)
(* document.  observed is _pingHistory: what a process last saw of the     *)
(* lock, whether the ping or the config primary has changed since, and     *)
(* whether the expiration time has passed on the config server's clock.    *)
(***************************************************************************)
EXTENDS Naturals, FiniteSets

CONSTANTS
    Processes,    \* the processes that use the lock
    MaxSessions,  \* bound: sessions of each process
    MaxFaults,    \* bound: calls that fail, and other faults
    NoSession

VARIABLES
    lock,      \* the lock document: its state and session
    used,      \* sessions each process has used up
    before,    \* how many of them before it last started
    holds,     \* the session a process believes to hold, its ScopedDistLock
    forcing,   \* the session a process has decided to take the lock from
    toUnlock,  \* _unlockList
    observed,  \* _pingHistory
    faults     \* faults so far

lockVars == <<lock, used, before, holds, forcing, toUnlock, observed, faults>>

Sessions == Processes \X (1 .. MaxSessions)
ASSUME LockAssumption == NoSession \notin Sessions
NoObservation == [session |-> NoSession, changed |-> FALSE, aged |-> FALSE]
Observations == [session : Sessions \cup {NoSession}, changed : BOOLEAN, aged : BOOLEAN]

LockInit ==
    /\ lock = [locked |-> FALSE, session |-> NoSession]
    /\ used = [p \in Processes |-> 0]
    /\ before = [p \in Processes |-> 0]
    /\ holds = [p \in Processes |-> NoSession]
    /\ forcing = [p \in Processes |-> NoSession]
    /\ toUnlock = [p \in Processes |-> {}]
    /\ observed = [p \in Processes |-> NoObservation]
    /\ faults = 0

Fault == faults < MaxFaults /\ faults' = faults + 1
NewSession(p) == <<p, used[p] + 1>>
Idle(p) == holds[p] = NoSession /\ forcing[p] = NoSession /\ used[p] < MaxSessions

\* The document changes hands, and the caller hears of it or of an error; an
\* error queues an unlock "just in case".
TakenBy(p) ==
    /\ lock' = [locked |-> TRUE, session |-> NewSession(p)]
    /\ used' = [used EXCEPT ![p] = @ + 1]
    /\ \/ holds' = [holds EXCEPT ![p] = NewSession(p)] /\ UNCHANGED <<toUnlock, faults>>
       \/ /\ Fault
          /\ toUnlock' = [toUnlock EXCEPT ![p] = @ \cup {NewSession(p)}]
          /\ UNCHANGED holds

\* grabLock.
GrabLock(p) ==
    /\ Idle(p)
    /\ ~lock.locked
    /\ TakenBy(p)
    /\ UNCHANGED <<before, forcing, observed>>

\* canOvertakeLock: the first look, and every look that finds a change, only
\* takes note; the lock is forced when nothing has changed for long enough.
CanOvertakeLock(p) ==
    /\ Idle(p)
    /\ lock.locked
    /\ LET seen == observed[p]
           news == seen.changed \/ seen.session # lock.session
       IN  IF news
           THEN /\ observed' = [observed EXCEPT ![p] = [NoObservation EXCEPT !.session = lock.session]]
                /\ UNCHANGED forcing
           ELSE /\ seen.aged
                /\ forcing' = [forcing EXCEPT ![p] = lock.session]
                /\ UNCHANGED observed
    /\ UNCHANGED <<lock, used, before, holds, toUnlock, faults>>

\* overtakeLock: from the session that was judged, or from nobody.
OvertakeLock(p) ==
    /\ forcing[p] # NoSession
    /\ IF ~lock.locked \/ lock.session = forcing[p]
       THEN TakenBy(p)
       ELSE UNCHANGED <<lock, used, holds, toUnlock, faults>>
    /\ forcing' = [forcing EXCEPT ![p] = NoSession]
    /\ UNCHANGED <<before, observed>>

\* Mutant of Unlocked: it goes by the name of the lock.
UnlockedByName(s) == [lock EXCEPT !.locked = FALSE]

\* What the catalog's unlock does to the document: it goes by the session.
Unlocked(s) == [lock EXCEPT !.locked = @ /\ lock.session # s]

\* unlock, when a ScopedDistLock goes out of scope; one that fails is queued,
\* whether it took effect or not.
Unlock(p) ==
    /\ holds' = [holds EXCEPT ![p] = NoSession]
    /\ \/ lock' = Unlocked(holds[p]) /\ UNCHANGED <<toUnlock, faults>>
       \/ /\ Fault
          /\ lock' \in {lock, Unlocked(holds[p])}
          /\ toUnlock' = [toUnlock EXCEPT ![p] = @ \cup {holds[p]}]
    /\ UNCHANGED <<used, before, forcing, observed>>

\* Mutant of UnlockQueued: a failed unlock is not queued again.
UnlockOnce(p) ==
    \E s \in toUnlock[p] :
        /\ lock' \in {lock, Unlocked(s)}
        /\ toUnlock' = [toUnlock EXCEPT ![p] = @ \ {s}]
        /\ UNCHANGED <<used, before, holds, forcing, observed, faults>>

\* doTask works off the queue; what fails stays in it.
UnlockQueued(p) ==
    \E s \in toUnlock[p] :
        /\ lock' = Unlocked(s)
        /\ toUnlock' = [toUnlock EXCEPT ![p] = @ \ {s}]
        /\ UNCHANGED <<used, before, holds, forcing, observed, faults>>

\* What the processes noted of the lock is out of date.
Outdated(noted) ==
    [q \in Processes |->
        IF noted[q].session = NoSession THEN NoObservation
        ELSE [session |-> noted[q].session, changed |-> TRUE, aged |-> FALSE]]

\* doTask pings: whoever has noted a session of p sees another ping.  A process
\* that comes back has another process id, and does not ping for the earlier one.
Ping(p) ==
    /\ observed' = [q \in Processes |->
         IF observed[q].session \in {p} \X (before[p] + 1 .. used[p]) THEN Outdated(observed)[q] ELSE observed[q]]
    /\ UNCHANGED <<lock, used, before, holds, forcing, toUnlock, faults>>

\* The expiration time passes for what p has noted.
Age(p) ==
    /\ observed[p].session # NoSession /\ ~observed[p].changed
    /\ observed' = [observed EXCEPT ![p].aged = TRUE]
    /\ UNCHANGED <<lock, used, before, holds, forcing, toUnlock, faults>>

\* The config servers have a new primary, of another electionId.
ConfigElection ==
    /\ Fault
    /\ observed' = Outdated(observed)
    /\ UNCHANGED <<lock, used, before, holds, forcing, toUnlock>>

\* A process ends and comes back: only the document remembers.
LoseProcess(p) ==
    /\ holds' = [holds EXCEPT ![p] = NoSession]
    /\ forcing' = [forcing EXCEPT ![p] = NoSession]
    /\ toUnlock' = [toUnlock EXCEPT ![p] = {}]
    /\ observed' = [observed EXCEPT ![p] = NoObservation]
    /\ before' = [before EXCEPT ![p] = used[p]]
    /\ UNCHANGED <<lock, used>>

\* One pass through the loop of lock.
TryLock(p) == GrabLock(p) \/ CanOvertakeLock(p) \/ OvertakeLock(p)

LockTypeOK ==
    /\ lock \in [locked : BOOLEAN, session : Sessions \cup {NoSession}]
    /\ used \in [Processes -> 0 .. MaxSessions]
    /\ before \in [Processes -> 0 .. MaxSessions]
    /\ holds \in [Processes -> Sessions \cup {NoSession}]
    /\ forcing \in [Processes -> Sessions \cup {NoSession}]
    /\ toUnlock \in [Processes -> SUBSET Sessions]
    /\ observed \in [Processes -> Observations]
    /\ faults \in 0 .. MaxFaults

\* If this step takes the lock from session s, it was given up, or to be unlocked,
\* or judged to be abandoned.
LosesInTurn(s) ==
    lock = [locked |-> TRUE, session |-> s] /\ lock' # lock =>
        \E p \in Processes :
            \/ holds[p] = s /\ holds'[p] # s
            \/ s \in toUnlock[p]
            \/ forcing[p] = s

\* A session loses the lock only when its process gives it up, by an unlock that
\* is of this session even if it was queued and comes late, or to a process that
\* has judged this session to be abandoned: neither a late unlock nor a late
\* overtaking hits whoever holds the lock by then (unlock and overtakeLock of
\* dist_lock_catalog_impl.cpp go by the session).
LostInTurn == [][\A s \in Sessions : LosesInTurn(s)]_lockVars
=============================================================================
