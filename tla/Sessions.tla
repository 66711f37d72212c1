------------------------------ MODULE Sessions ------------------------------
(***************************************************************************)
(* The life cycle of a ViriditySession under AbstractViriditySessionManager *)
(* (src/src/viriditysessionmanager.cpp).                                    *)
(*                                                                          *)
(* A session lives in a session thread.  The channel handlers that use it   *)
(* ("users" here: the long polling, SSE and WebSocket handlers) live in the *)
(* connection threads, and the sweep that disposes of expired sessions runs *)
(* in the thread of the manager.  acquireSession and releaseSession do not  *)
(* touch the use count: they POST an increment or a decrement to the event  *)
(* loop of the session thread, so every check of the use count by a user or *)
(* by the sweep may read a count that acquisitions in flight will change.   *)
(*                                                                          *)
(* Time is abstracted: expired[s] says that lastUsed_ is longer ago than    *)
(* sessionTimeout_, and a timer that runs may fire at any moment.           *)
(***************************************************************************)
EXTENDS Integers, Sequences, FiniteSets

CONSTANTS
    Session,      \* the session objects that may ever be created
    User,         \* the channel handlers
    ThreadOf,     \* the connection thread each handler runs in
    MaxPosted,    \* bound: events waiting for one session
    MaxTesting,   \* bound: how far testingState_ may drift
    Reused,       \* a kept-alive connection may serve one session, then another
    NULL

ASSUME FiniteAssumption == IsFiniteSet(Session) /\ IsFiniteSet(User)
ASSUME BoundAssumption == MaxPosted \in Nat /\ MaxTesting \in Nat
ASSUME ReusedAssumption == Reused \in BOOLEAN
ASSUME NullAssumption == NULL \notin Session \cup User

VARIABLES
    object,       \* life of the object; sessions_ holds the "managed" ones,
                  \* "disposed" and "killed" ones are removed, still alive
    grace,        \* sessionInKillGracePeriod_
    posted,       \* the session's events in the queue of its thread
    useCount,     \* useCount_
    counted,      \* history: the handlers whose increment was executed and
                  \* whose decrement was not
    testingState, \* testingState_
    attached,     \* attached_
    detachDefer,  \* detachDeferTimer_ runs
    expired,      \* lastUsed_.elapsed() > sessionTimeout_
    held,         \* session_ of each handler
    linked,       \* the sessions whose destroyed() is connected to the handler
    seen,         \* the pointer a handler looked up and still uses
    step,         \* what a handler is in the middle of
    loaded,       \* the value of testingState_ a handler loaded
    tests,        \* how many testing periods of a session a handler is in
    sweeps        \* history: sweeps since the handler's lookup, up to 2

sessionVars == <<object, grace, posted, useCount, counted, testingState, attached,
                 detachDefer, expired>>
userVars == <<held, linked, seen, step, loaded, tests, sweeps>>
vars == <<object, grace, posted, useCount, counted, testingState, attached,
          detachDefer, expired, held, linked, seen, step, loaded, tests, sweeps>>

Life == {"none", "constructed", "managed", "disposed", "killed", "destroyed"}
Event == [op : {"increment", "decrement"}, by : User]
           \cup [op : {"message"}, by : {NULL}, caller : User]
           \cup [op : {"deleteLater"}, by : {NULL}]

TypeOK ==
    /\ object \in [Session -> Life]
    /\ grace \subseteq Session
    /\ posted \in [Session -> Seq(Event)]
    /\ useCount \in [Session -> Int]
    /\ counted \in [Session -> SUBSET User]
    /\ testingState \in [Session -> Int]
    /\ attached \in [Session -> BOOLEAN]
    /\ detachDefer \in [Session -> BOOLEAN]
    /\ expired \in [Session -> BOOLEAN]
    /\ held \in [User -> Session \cup {NULL}]
    /\ linked \in [User -> SUBSET Session]
    /\ seen \in [User -> Session \cup {NULL}]
    /\ step \in [User -> {"idle", "new", "grace", "up", "down"}]
    /\ loaded \in [User -> Int]
    /\ tests \in [User -> 0..2]
    /\ sweeps \in [User -> 0..2]

Init ==
    /\ object = [s \in Session |-> "none"]
    /\ grace = {}
    /\ posted = [s \in Session |-> <<>>]
    /\ useCount = [s \in Session |-> 0]
    /\ counted = [s \in Session |-> {}]
    /\ testingState = [s \in Session |-> 0]
    /\ attached = [s \in Session |-> FALSE]
    /\ detachDefer = [s \in Session |-> FALSE]
    /\ expired = [s \in Session |-> FALSE]
    /\ held = [u \in User |-> NULL]
    /\ linked = [u \in User |-> {}]
    /\ seen = [u \in User |-> NULL]
    /\ step = [u \in User |-> "idle"]
    /\ loaded = [u \in User |-> 0]
    /\ tests = [u \in User |-> 0]
    /\ sweeps = [u \in User |-> 0]

-----------------------------------------------------------------------------
(* Helpers *)

\* sessions_: what the manager's hash holds.
Managed == {s \in Session : object[s] = "managed"}

\* The session's event loop still delivers to the object.
Alive(s) == object[s] \in {"managed", "disposed", "killed"}

\* A blocking call of the handler waits in the queue of some session.
Blocked(u) ==
    \E s \in Session : \E i \in DOMAIN posted[s] :
        posted[s][i].op = "message" /\ posted[s][i].caller = u

\* A handler runs only while no handler of its thread is mid-call.
Runs(u) ==
    \A v \in User : ThreadOf[v] = ThreadOf[u] => step[v] = "idle" /\ ~Blocked(v)

\* The session a handler's call is about.
Target(u) == IF seen[u] # NULL THEN seen[u] ELSE held[u]

\* The connection of the handler may carry a request for this session.
MayServe(u, s) == Reused \/ linked[u] \subseteq {s}

\* sessionMREW_ can be taken for writing: no lookup holds it for reading.
WriteLockFree == \A u \in User : step[u] # "grace"

\* invokeMethod(session, op): the call is queued to the session's thread.
Post(s, op, u) == posted' = [posted EXCEPT ![s] = Append(@, [op |-> op, by |-> u])]

RoomFor(s) == Len(posted[s]) < MaxPosted

\* Mutant: canBeDisposed() without its look at the use count.
DisposableInUse(s) == s \in Managed /\ testingState[s] = 0 /\ expired[s]

\* canBeDisposed(), and lastUsed_ longer ago than the session timeout.
Disposable(s) ==
    /\ s \in Managed
    /\ useCount[s] = 0
    /\ testingState[s] = 0
    /\ expired[s]

\* What removeSession does for every session of the set gone.
Removed(gone, how) ==
    [s \in Session |-> IF s \in gone THEN how ELSE object[s]]
PostedDeletion(gone) ==
    [s \in Session |-> IF s \in gone
                       THEN Append(posted[s], [op |-> "deleteLater", by |-> NULL])
                       ELSE posted[s]]

\* Mutant: the grace period is not consulted.
DoomedWithoutGrace == {s \in Session : Disposable(s)}

\* The disposable sessions the grace period does not spare this time.
Doomed == {s \in Session : Disposable(s) /\ s \notin grace}

SweepCounted ==
    [u \in User |-> IF seen[u] # NULL /\ sweeps[u] < 2 THEN sweeps[u] + 1
                                                       ELSE sweeps[u]]

\* Mutant: a session spared once stays in the grace period for good.
SweepKeepsGrace == posted' = PostedDeletion(Doomed) /\ grace' = grace

\* The body of killExpiredSessions, under the write lock.
Sweep ==
    /\ posted' = PostedDeletion(Doomed)
    /\ grace' = grace \ {s \in Session : Disposable(s)}

-----------------------------------------------------------------------------
(* The manager, called from connection threads *)

\* createSession in the manager's thread: it sweeps first (tryLockForWrite
\* may fail) and constructs a session that is not in sessions_ yet.
CreateSession(u, s) ==
    /\ Runs(u)
    /\ seen[u] = NULL /\ held[u] = NULL
    /\ object[s] = "none"
    /\ MayServe(u, s)
    /\ \/ /\ WriteLockFree
          /\ Sweep
          /\ object' = [Removed(Doomed, "disposed") EXCEPT ![s] = "constructed"]
          /\ sweeps' = [SweepCounted EXCEPT ![u] = 0]
       \/ /\ ~WriteLockFree
          /\ object' = [object EXCEPT ![s] = "constructed"]
          /\ sweeps' = [sweeps EXCEPT ![u] = 0]
          /\ UNCHANGED <<posted, grace>>
    /\ seen' = [seen EXCEPT ![u] = s]
    /\ step' = [step EXCEPT ![u] = "new"]
    /\ UNCHANGED <<useCount, counted, testingState, attached, detachDefer, expired,
                   held, linked, loaded, tests>>

\* The rest of getNewSession, back in the connection thread.
RegisterNewSession(u) ==
    /\ step[u] = "new"
    /\ WriteLockFree
    /\ object' = [object EXCEPT ![seen[u]] = "managed"]
    /\ Post(seen[u], "increment", u)
    /\ held' = [held EXCEPT ![u] = seen[u]]
    /\ linked' = [linked EXCEPT ![u] = @ \cup {seen[u]}]
    /\ seen' = [seen EXCEPT ![u] = NULL]
    /\ step' = [step EXCEPT ![u] = "idle"]
    /\ UNCHANGED <<grace, useCount, counted, testingState, attached, detachDefer,
                   expired, loaded, tests, sweeps>>

\* getSession of an id: NULL unless managed.  The id joins the grace period,
\* a write to the set under the READ lock, which InsertGrace completes.
GetSession(u, s) ==
    /\ Runs(u)
    /\ seen[u] = NULL /\ held[u] = NULL
    /\ s \in Managed
    /\ MayServe(u, s)
    /\ seen' = [seen EXCEPT ![u] = s]
    /\ sweeps' = [sweeps EXCEPT ![u] = 0]
    /\ step' = [step EXCEPT ![u] = IF s \in grace THEN "idle" ELSE "grace"]
    /\ UNCHANGED <<sessionVars, held, linked, loaded, tests>>

\* acquireSession: getSession again, then a posted increment.
AcquireSession(u) ==
    /\ Runs(u)
    /\ seen[u] \in Managed
    /\ held[u] = NULL /\ tests[u] = 0
    /\ RoomFor(seen[u])
    /\ Post(seen[u], "increment", u)
    /\ held' = [held EXCEPT ![u] = seen[u]]
    /\ linked' = [linked EXCEPT ![u] = @ \cup {seen[u]}]
    /\ sweeps' = [sweeps EXCEPT ![u] = 0]
    /\ step' = [step EXCEPT ![u] = IF seen[u] \in grace THEN "idle" ELSE "grace"]
    /\ UNCHANGED <<object, grace, useCount, counted, testingState, attached,
                   detachDefer, expired, seen, loaded, tests>>

\* The insertion into the hash set ends.  Two insertions of two threads race:
\* one of them may be lost.
InsertGrace(u) ==
    /\ step[u] = "grace"
    /\ \/ grace' = grace \cup {Target(u)}
       \/ /\ \E v \in User \ {u} : step[v] = "grace"
          /\ grace' = grace
    /\ step' = [step EXCEPT ![u] = "idle"]
    /\ UNCHANGED <<object, posted, useCount, counted, testingState, attached,
                   detachDefer, expired, held, linked, seen, loaded, tests, sweeps>>

\* Mutant: session_ is not reset after releaseSession.
ReleaseKeepsPointer(u) ==
    /\ Runs(u)
    /\ held[u] # NULL
    /\ RoomFor(held[u])
    /\ Post(held[u], "decrement", u)
    /\ UNCHANGED <<object, grace, useCount, counted, testingState, attached,
                   detachDefer, expired, userVars>>

\* releaseSession: a posted decrement, and the handler forgets the session.
ReleaseSession(u) ==
    /\ Runs(u)
    /\ held[u] # NULL
    /\ RoomFor(held[u])
    /\ Post(held[u], "decrement", u)
    /\ held' = [held EXCEPT ![u] = NULL]
    /\ UNCHANGED <<object, grace, useCount, counted, testingState, attached,
                   detachDefer, expired, linked, seen, step, loaded, tests, sweeps>>

\* The handler's call returns: the pointer it looked up goes out of scope.
ForgetSession(u) ==
    /\ Runs(u)
    /\ seen[u] # NULL /\ tests[u] = 0
    /\ seen' = [seen EXCEPT ![u] = NULL]
    /\ sweeps' = [sweeps EXCEPT ![u] = 0]
    /\ UNCHANGED <<sessionVars, held, linked, step, loaded, tests>>

\* A message of the client reaches the session: dispatchMessageToHandlers
\* looks the id up once more and calls into the session's thread, which the
\* connection thread waits for (BlockingQueuedConnection).
DispatchMessageToHandlers(u) ==
    /\ Runs(u)
    /\ Target(u) \in Managed
    /\ RoomFor(Target(u))
    /\ posted' = [posted EXCEPT ![Target(u)] =
                     Append(@, [op |-> "message", by |-> NULL, caller |-> u])]
    /\ sweeps' = [sweeps EXCEPT ![u] = 0]
    /\ step' = [step EXCEPT ![u] = IF Target(u) \in grace THEN "idle" ELSE "grace"]
    /\ UNCHANGED <<object, grace, useCount, counted, testingState, attached,
                   detachDefer, expired, held, linked, seen, loaded, tests>>

-----------------------------------------------------------------------------
(* testForInteractivity and requestReleaseAndWait, run by a connection thread *)

\* ++testingState_ and --testingState_ are not atomic: a load, then a store.
\* The first increment opens testForInteractivity, the second one
\* requestReleaseAndWait; both only while the session is in use.
LoadTestingState(u, direction) ==
    /\ Runs(u)
    /\ seen[u] # NULL /\ held[u] = NULL
    /\ testingState[seen[u]] \in -MaxTesting..MaxTesting
    /\ \/ direction = "up" /\ tests[u] < 2 /\ useCount[seen[u]] > 0
       \/ direction = "down" /\ tests[u] > 0
    /\ loaded' = [loaded EXCEPT ![u] = testingState[seen[u]]]
    /\ step' = [step EXCEPT ![u] = direction]
    /\ UNCHANGED <<sessionVars, held, linked, seen, tests, sweeps>>

StoreTestingState(u) ==
    /\ step[u] \in {"up", "down"}
    /\ LET delta == IF step[u] = "up" THEN 1 ELSE -1
       IN  /\ testingState' = [testingState EXCEPT ![seen[u]] = loaded[u] + delta]
           /\ tests' = [tests EXCEPT ![u] = @ + delta]
    /\ loaded' = [loaded EXCEPT ![u] = 0]
    /\ step' = [step EXCEPT ![u] = "idle"]
    /\ UNCHANGED <<object, grace, posted, useCount, counted, attached, detachDefer,
                   expired, held, linked, seen, sweeps>>

-----------------------------------------------------------------------------
(* The manager's thread *)

\* cleanupTimer_ fires: killExpiredSessions (tryLockForWrite failing is a
\* stutter).
KillExpiredSessions ==
    /\ WriteLockFree
    /\ Sweep
    /\ object' = Removed(Doomed, "disposed")
    /\ sweeps' = SweepCounted
    /\ UNCHANGED <<useCount, counted, testingState, attached, detachDefer, expired,
                   held, linked, seen, step, loaded, tests>>

\* killAllSessions, invoked by the debug handler or when the server goes.
KillAllSessions ==
    /\ WriteLockFree
    /\ Managed # {}
    /\ posted' = PostedDeletion(Managed)
    /\ object' = Removed(Managed, "killed")
    /\ sweeps' = [u \in User |-> IF seen[u] # NULL THEN 2 ELSE sweeps[u]]
    /\ UNCHANGED <<grace, useCount, counted, testingState, attached, detachDefer,
                   expired, held, linked, seen, step, loaded, tests>>

-----------------------------------------------------------------------------
(* The session's thread *)

Delivers(s, op) == Alive(s) /\ posted[s] # <<>> /\ Head(posted[s]).op = op
Consume(s) == posted' = [posted EXCEPT ![s] = Tail(@)]

IncrementUseCount(s) ==
    /\ Delivers(s, "increment")
    /\ Consume(s)
    /\ useCount' = [useCount EXCEPT ![s] = @ + 1]
    /\ counted' = [counted EXCEPT ![s] = @ \cup {Head(posted[s]).by}]
    /\ expired' = [expired EXCEPT ![s] = FALSE]
    /\ attached' = [attached EXCEPT ![s] = @ \/ useCount[s] = 0]
    /\ UNCHANGED <<object, grace, testingState, detachDefer, userVars>>

DecrementUseCount(s) ==
    /\ Delivers(s, "decrement")
    /\ Consume(s)
    /\ useCount' = [useCount EXCEPT ![s] = @ - 1]
    /\ counted' = [counted EXCEPT ![s] = @ \ {Head(posted[s]).by}]
    /\ detachDefer' = [detachDefer EXCEPT ![s] = TRUE]
    /\ UNCHANGED <<object, grace, testingState, attached, expired, userVars>>

\* Mutant: the debounce timer detaches without looking at the use count.
DetachAlways(s) ==
    /\ Alive(s) /\ detachDefer[s]
    /\ detachDefer' = [detachDefer EXCEPT ![s] = FALSE]
    /\ attached' = [attached EXCEPT ![s] = FALSE]
    /\ UNCHANGED <<object, grace, posted, useCount, counted, testingState, expired,
                   userVars>>

\* The single-shot debounce timer: a detach only when still unused.
DetachDeferTimerTimeout(s) ==
    /\ Alive(s) /\ detachDefer[s]
    /\ detachDefer' = [detachDefer EXCEPT ![s] = FALSE]
    /\ attached' = [attached EXCEPT ![s] = @ /\ useCount[s] # 0]
    /\ UNCHANGED <<object, grace, posted, useCount, counted, testingState, expired,
                   userVars>>

\* sendMessageToHandlers: a message of the client is a sign of life.
SendMessageToHandlers(s) ==
    /\ Delivers(s, "message")
    /\ Consume(s)
    /\ expired' = [expired EXCEPT ![s] = FALSE]
    /\ UNCHANGED <<object, grace, useCount, counted, testingState, attached,
                   detachDefer, userVars>>

\* deleteLater: the destructor drops what is still posted, and destroyed(),
\* connected directly, makes every handler connected to it forget its session:
\* handleSessionDestroyed does not ask whether session_ is the sender.  It
\* takes sessionMutex_, which a call that uses session_ holds.
Destroy(s) ==
    /\ Delivers(s, "deleteLater")
    /\ \A u \in User : s \in linked[u] /\ held[u] # NULL => step[u] # "grace"
    /\ object' = [object EXCEPT ![s] = "destroyed"]
    /\ posted' = [posted EXCEPT ![s] = <<>>]
    /\ detachDefer' = [detachDefer EXCEPT ![s] = FALSE]
    /\ held' = [u \in User |-> IF s \in linked[u] THEN NULL ELSE held[u]]
    /\ linked' = [u \in User |-> linked[u] \ {s}]
    /\ UNCHANGED <<grace, useCount, counted, testingState, attached, expired,
                   seen, step, loaded, tests, sweeps>>

\* The clock: lastUsed_ falls sessionTimeout_ behind.
TimeoutElapses(s) ==
    /\ Alive(s) /\ ~expired[s]
    /\ expired' = [expired EXCEPT ![s] = TRUE]
    /\ UNCHANGED <<object, grace, posted, useCount, counted, testingState, attached,
                   detachDefer, userVars>>

-----------------------------------------------------------------------------
UserNext(u) ==
    \/ \E s \in Session : CreateSession(u, s) \/ GetSession(u, s)
    \/ RegisterNewSession(u)
    \/ AcquireSession(u)
    \/ InsertGrace(u)
    \/ ReleaseSession(u)
    \/ ForgetSession(u)
    \/ DispatchMessageToHandlers(u)
    \/ \E direction \in {"up", "down"} : LoadTestingState(u, direction)
    \/ StoreTestingState(u)

DeliverEvent(s) ==
    \/ IncrementUseCount(s)
    \/ DecrementUseCount(s)
    \/ SendMessageToHandlers(s)
    \/ Destroy(s)

SessionNext(s) == DeliverEvent(s) \/ DetachDeferTimerTimeout(s) \/ TimeoutElapses(s)

Next ==
    \/ \E u \in User : UserNext(u)
    \/ \E s \in Session : SessionNext(s)
    \/ KillExpiredSessions
    \/ KillAllSessions

Spec == Init /\ [][Next]_vars

\* Event loops deliver what is posted and fire the timers that run, code
\* between two event loop turns ends, the clock advances.  The cleanup timer
\* is periodic and a lookup holds the read lock for a few instructions, so a
\* sweep that is possible again and again is taken: strong fairness.
Fairness ==
    /\ \A s \in Session : /\ WF_vars(DeliverEvent(s))
                          /\ WF_vars(DetachDeferTimerTimeout(s))
                          /\ WF_vars(TimeoutElapses(s))
    /\ \A u \in User : WF_vars(InsertGrace(u) \/ StoreTestingState(u))
    /\ SF_vars(KillExpiredSessions)

FairSpec == Spec /\ Fairness

-----------------------------------------------------------------------------
(* Properties *)

\* The posted events of a handler.
EventsOf(s, u) == {i \in 1..Len(posted[s]) : posted[s][i].by = u}

\* The use count is never off by one: as long as the object lives it is the
\* number of handlers whose increment was executed and whose decrement was
\* not (so it is never negative), and a handler with nothing in flight is
\* among them exactly when it holds the session, however acquisitions and
\* releases of all threads interleave in the queue.
UseCountBalance ==
    \A s \in Session : Alive(s) =>
        /\ useCount[s] = Cardinality(counted[s])
        /\ \A u \in User : EventsOf(s, u) = {} => (u \in counted[s] <=> held[u] = s)

\* attached()/detached() follow the use count: a session in use is attached,
\* and an attached one that is no longer used has its debounce timer running,
\* so that detached() cannot be missed.
AttachmentFollowsUse ==
    \A s \in Session : Alive(s) =>
        /\ useCount[s] > 0 => attached[s]
        /\ attached[s] /\ useCount[s] = 0 => detachDefer[s]

\* No two handlers are in the middle of an update that is not atomic: the set of
\* the grace period and testingState_ are changed by all threads without a lock
\* of their own, and one of two such updates may be lost.
UpdatesApart ==
    \A u, v \in User : {step[u], step[v]} \subseteq {"grace", "up", "down"} => u = v

\* The grace period: the pointer a handler got from getSession stays in
\* sessions_ over the next sweep, whatever the other handlers do, so that a
\* lookup, a test of the use count and an acquisition may span one sweep; as
\* long as no insertion into the set is lost to another thread.
GraceProtectsLookup ==
    []UpdatesApart =>
        [](\A u \in User : (seen[u] # NULL /\ step[u] # "new" /\ sweeps[u] <= 1)
                              => seen[u] \in Managed)

\* Expiry never takes a session from a handler the use count knows of: one
\* that still holds it has an increment in the queue that was not executed.
ExpirySparesCountedHolders ==
    [][\A u \in User :
         (held[u] \in Managed /\ object'[held[u]] = "disposed")
            => EventsOf(held[u], u) # {}]_vars

\* "Existing sessions no longer in use will be automatically disposed of": a
\* session nobody holds and nobody is looking at does not stay managed, as long
\* as no change of testingState_ is lost to another thread.
UnusedSessionsAreDisposed ==
    []UpdatesApart =>
        \A s \in Session :
            ~<>[](s \in Managed /\ \A u \in User : held[u] # s /\ seen[u] # s)
=============================================================================
