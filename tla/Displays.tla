------------------------------ MODULE Displays ------------------------------
(***************************************************************************)
(* The displays of one session under AbstractGraphicsSceneDisplayManager    *)
(* (src/src/display/graphicsscenedisplaymanager.cpp) and the handler that   *)
(* serves image patches (src/src/display/handlers/patchrequesthandler.cpp). *)
(*                                                                          *)
(* The manager lives in the thread of its session.  It makes and tears down *)
(* displays by blocking calls into the main thread, all the while holding   *)
(* displayMutex_.  Patch requests run in connection threads: they acquire   *)
(* and release a display in two short critical sections and take the patch  *)
(* from it afterwards, without any hold on it.                              *)
(*                                                                          *)
(* The clock ticks once per keepAliveInterval (60 s) of the clients, so     *)
(* that a display is obsolete (lastUsed.elapsed() > 120000) at some moment  *)
(* after its second tick and certainly at its third.                        *)
(***************************************************************************)
EXTENDS Integers, FiniteSets

CONSTANTS
    Target,       \* the target ids of the clients' displays
    Display,      \* display objects; one that is free (not built, or deleted)
                  \* is built when nobody points to it
    Reader,       \* patch requests that are served at the same time
    NULL

ASSUME ReaderAssumption == IsFiniteSet(Reader)
ASSUME NullAssumption == NULL \notin Display \cup Target /\ NULL \notin Nat
ASSUME TargetAssumption == Target \cap Display = {}

VARIABLES
    object,       \* life of the display objects
    displays,     \* displays_: target id -> display
    useCount,     \* displayResources_[d].useCount, NULL for no entry
    idle,         \* ticks since displayResources_[d].lastUsed was restarted,
                  \* 0 for no entry
    manager,      \* life of the manager; "orphaned": its session_ is NULL
    call,         \* what the manager's thread is doing under displayMutex_
    attached,     \* the page of a target is connected (v.connected)
    inbox,        \* the message of a page that is on its way to the session
    lost,         \* history: since the page attached, a message of it was
                  \* lost or its display was refused
    step,         \* where a patch request is
    pointer,      \* the display it works with
    wait          \* history: ticks since it last used the manager

registryVars == <<object, displays, useCount, idle, manager, call>>
pageVars == <<attached, inbox, lost>>
readerVars == <<step, pointer, wait>>
vars == <<object, displays, useCount, idle, manager, call, attached, inbox, lost,
          step, pointer, wait>>

Idle == [op |-> "idle", target |-> NULL, display |-> NULL, todo |-> {}]
Op == {"idle", "create", "created", "sweep", "tearDown", "delete"}

TypeOK ==
    /\ object \in [Display -> {"free", "alive", "torn"}]
    /\ displays \in [Target -> Display \cup {NULL}]
    /\ useCount \in [Display -> Nat \cup {NULL}]
    /\ idle \in [Display -> 0..3]
    /\ manager \in {"active", "orphaned", "closing", "gone"}
    /\ call \in [op : Op, target : Target \cup {NULL}, display : Display \cup {NULL},
                 todo : SUBSET Display]
    /\ attached \in [Target -> BOOLEAN]
    /\ inbox \in [Target -> {"none", "newDisplay", "message"}]
    /\ lost \in [Target -> BOOLEAN]
    /\ step \in [Reader -> {"idle", "found", "acquired", "released"}]
    /\ pointer \in [Reader -> Display \cup Target \cup {NULL}]
    /\ wait \in [Reader -> 0..3]

Init ==
    /\ object = [d \in Display |-> "free"]
    /\ displays = [t \in Target |-> NULL]
    /\ useCount = [d \in Display |-> NULL]
    /\ idle = [d \in Display |-> 0]
    /\ manager = "active"
    /\ call = Idle
    /\ attached = [t \in Target |-> FALSE]
    /\ inbox = [t \in Target |-> "none"]
    /\ lost = [t \in Target |-> FALSE]
    /\ step = [r \in Reader |-> "idle"]
    /\ pointer = [r \in Reader |-> NULL]
    /\ wait = [r \in Reader |-> 0]

-----------------------------------------------------------------------------
(* Helpers *)

\* displayMutex_ can be taken by a connection thread.
MutexFree == call.op = "idle"

\* displayResources_.keys()
Registered == {d \in Display : useCount[d] # NULL}

\* The requests between acquireDisplay and releaseDisplay of a display.
Holders(d) == {r \in Reader : step[r] = "acquired" /\ pointer[r] = d}

\* No pointer to the display is left anywhere.
Unreferenced(d) == call.display # d /\ \A r \in Reader : pointer[r] # d

\* Mutant: a period without a message is enough.
ObsoleteAfterOnePeriod(d) == useCount[d] = 0 /\ idle[d] >= 1

\* useCount == 0 and lastUsed.elapsed() > 120000, perhaps and certainly.
MaybeObsolete(d) == useCount[d] = 0 /\ idle[d] >= 2
Obsolete(d) == useCount[d] = 0 /\ idle[d] = 3

\* lastUsed.restart()
Restarted(d) == [idle EXCEPT ![d] = 0]

\* A client's message begins to be handled: it is no longer on its way.
Received(t) == inbox' = [inbox EXCEPT ![t] = "none"]

NextTick(n) == IF n < 3 THEN n + 1 ELSE n

-----------------------------------------------------------------------------
(* The pages (js/DisplayRenderer.js) *)

\* sessionStart or sessionReattached: _reconnectDisplay sends newDisplay.
ReconnectDisplay(t) ==
    /\ ~attached[t] /\ inbox[t] = "none"
    /\ attached' = [attached EXCEPT ![t] = TRUE]
    /\ inbox' = [inbox EXCEPT ![t] = "newDisplay"]
    /\ lost' = [lost EXCEPT ![t] = FALSE]
    /\ UNCHANGED <<registryVars, readerVars>>

\* sessionDisconnected, or the page is closed.
Disconnect(t) ==
    /\ attached[t]
    /\ attached' = [attached EXCEPT ![t] = FALSE]
    /\ lost' = [lost EXCEPT ![t] = FALSE]
    /\ UNCHANGED <<registryVars, inbox, readerVars>>

\* A POST that fails or times out is not repeated.
LoseMessage(t) ==
    /\ inbox[t] # "none"
    /\ Received(t)
    /\ lost' = [lost EXCEPT ![t] = attached[t]]
    /\ UNCHANGED <<registryVars, attached, readerVars>>

\* A period passes and every connected page sends keepAlive().  The message
\* of the last period has arrived or is lost.
Tick ==
    /\ \A t \in Target : inbox[t] # "message"
    /\ idle' = [d \in Display |-> IF d \in Registered THEN NextTick(idle[d]) ELSE 0]
    /\ wait' = [r \in Reader |-> IF step[r] = "idle" THEN 0 ELSE NextTick(wait[r])]
    /\ inbox' = [t \in Target |-> IF attached[t] /\ inbox[t] = "none" THEN "message"
                                                                    ELSE inbox[t]]
    /\ UNCHANGED <<object, displays, useCount, manager, call, attached, lost, step,
                   pointer>>

-----------------------------------------------------------------------------
(* The manager, in the session's thread, and the main thread it calls *)

\* handleMessage for a display that exists: it is acquired for the call, also
\* by newDisplay, which asks it for a full update.
UseDisplay(t) ==
    /\ manager = "active" /\ MutexFree
    /\ inbox[t] # "none" /\ displays[t] # NULL
    /\ Received(t)
    /\ idle' = Restarted(displays[t])
    /\ UNCHANGED <<object, displays, useCount, manager, call, attached, lost,
                   readerVars>>

\* canHandleMessage is false for a message to a display that is gone: it is
\* dropped, and the page is not told.
DropMessage(t) ==
    /\ manager = "active" /\ MutexFree
    /\ inbox[t] = "message" /\ displays[t] = NULL
    /\ Received(t)
    /\ UNCHANGED <<registryVars, attached, lost, readerVars>>

\* newDisplay for a display that does not exist: getNewDisplay calls the main
\* thread and keeps displayMutex_.
GetNewDisplay(t) ==
    /\ manager = "active" /\ MutexFree
    /\ inbox[t] = "newDisplay" /\ displays[t] = NULL
    /\ Received(t)
    /\ call' = [Idle EXCEPT !.op = "create", !.target = t]
    /\ UNCHANGED <<object, displays, useCount, idle, manager, attached, lost,
                   readerVars>>

\* In the main thread: a display, or NULL when there is nothing to show.
CreateDisplayInstance ==
    /\ call.op = "create"
    /\ \/ \E d \in Display :
             /\ object[d] = "free" /\ Unreferenced(d)
             /\ object' = [object EXCEPT ![d] = "alive"]
             /\ call' = [call EXCEPT !.op = "created", !.display = d]
             /\ UNCHANGED lost
       \/ /\ call' = Idle
          /\ lost' = [lost EXCEPT ![call.target] = attached[call.target]]
          /\ UNCHANGED object
    /\ UNCHANGED <<displays, useCount, idle, manager, attached, inbox, readerVars>>

\* Mutant: the caller of getNewDisplay does not release the new display.
InsertWithoutRelease ==
    /\ call.op = "created"
    /\ displays' = [displays EXCEPT ![call.target] = call.display]
    /\ useCount' = [useCount EXCEPT ![call.display] = 1]
    /\ idle' = Restarted(call.display)
    /\ call' = Idle
    /\ UNCHANGED <<object, manager, pageVars, readerVars>>

\* The display is registered with a use count of one, which handleMessage
\* releases before it gives the mutex back.
InsertDisplay ==
    /\ call.op = "created"
    /\ displays' = [displays EXCEPT ![call.target] = call.display]
    /\ useCount' = [useCount EXCEPT ![call.display] = 0]
    /\ idle' = Restarted(call.display)
    /\ call' = Idle
    /\ UNCHANGED <<object, manager, pageVars, readerVars>>

\* cleanupTimer_ fires: killObsoleteDisplays goes over the registered ones.
KillObsoleteDisplays ==
    /\ manager \in {"active", "orphaned"} /\ MutexFree
    /\ Registered # {}
    /\ call' = [Idle EXCEPT !.op = "sweep", !.todo = Registered]
    /\ UNCHANGED <<object, displays, useCount, idle, manager, pageVars, readerVars>>

\* The loop skips a display that is used or was used lately.
SpareDisplay(d) ==
    /\ call.op = "sweep" /\ d \in call.todo
    /\ manager # "closing" /\ ~Obsolete(d)
    /\ call' = IF call.todo = {d} THEN Idle ELSE [call EXCEPT !.todo = @ \ {d}]
    /\ UNCHANGED <<object, displays, useCount, idle, manager, pageVars, readerVars>>

\* Mutant: the display stays in displays_.
RemoveKeepsId(d) ==
    /\ call.op = "sweep" /\ d \in call.todo
    /\ manager = "closing" \/ MaybeObsolete(d)
    /\ useCount' = [useCount EXCEPT ![d] = NULL]
    /\ idle' = Restarted(d)
    /\ call' = [call EXCEPT !.op = "tearDown", !.display = d, !.todo = @ \ {d}]
    /\ UNCHANGED <<object, displays, manager, pageVars, readerVars>>

\* removeDisplay: out of both tables, then a blocking call to the main thread.
\* killAllDisplays does so without looking at the use.
RemoveDisplay(d) ==
    /\ call.op = "sweep" /\ d \in call.todo
    /\ manager = "closing" \/ MaybeObsolete(d)
    /\ displays' = [t \in Target |-> IF displays[t] = d THEN NULL ELSE displays[t]]
    /\ useCount' = [useCount EXCEPT ![d] = NULL]
    /\ idle' = Restarted(d)
    /\ call' = [call EXCEPT !.op = "tearDown", !.display = d, !.todo = @ \ {d}]
    /\ UNCHANGED <<object, manager, pageVars, readerVars>>

\* In the main thread: the adapter goes.
TearDownDisplayInstance ==
    /\ call.op = "tearDown"
    /\ object' = [object EXCEPT ![call.display] = "torn"]
    /\ call' = [call EXCEPT !.op = "delete"]
    /\ UNCHANGED <<displays, useCount, idle, manager, pageVars, readerVars>>

\* delete display, and on with the loop; the destructor ends after its loop.
DeleteDisplay ==
    /\ call.op = "delete"
    /\ object' = [object EXCEPT ![call.display] = "free"]
    /\ IF call.todo = {}
       THEN /\ call' = Idle
            /\ manager' = IF manager = "closing" THEN "gone" ELSE manager
       ELSE /\ call' = [call EXCEPT !.op = "sweep", !.display = NULL]
            /\ UNCHANGED manager
    /\ UNCHANGED <<displays, useCount, idle, pageVars, readerVars>>

\* handleSessionDestroyed: session_ = NULL; the destructor is posted.  A
\* session outlives the requests that looked it up lately (Sessions).
SessionDestroyed ==
    /\ manager = "active" /\ MutexFree
    /\ \A r \in Reader : step[r] # "idle" => wait[r] > 1
    /\ manager' = "orphaned"
    /\ UNCHANGED <<object, displays, useCount, idle, call, pageVars, readerVars>>

\* The destructor kills all displays.
DestroyManager ==
    /\ manager = "orphaned" /\ MutexFree
    /\ IF Registered = {}
       THEN manager' = "gone" /\ UNCHANGED call
       ELSE /\ manager' = "closing"
            /\ call' = [Idle EXCEPT !.op = "sweep", !.todo = Registered]
    /\ UNCHANGED <<object, displays, useCount, idle, pageVars, readerVars>>

-----------------------------------------------------------------------------
(* A patch request, in a connection thread *)

Restart(r) == wait' = [wait EXCEPT ![r] = 0]
Finish(r) ==
    /\ step' = [step EXCEPT ![r] = "idle"]
    /\ pointer' = [pointer EXCEPT ![r] = NULL]
    /\ Restart(r)

\* The session is acquired and released at once; the manager is found in the
\* list of the active ones.  Only a connected page asks for its patches.
HandlePatchRequest(r, t) ==
    /\ step[r] = "idle" /\ manager = "active" /\ attached[t]
    /\ step' = [step EXCEPT ![r] = "found"]
    /\ pointer' = [pointer EXCEPT ![r] = t]
    /\ Restart(r)
    /\ UNCHANGED <<registryVars, pageVars>>

\* acquireDisplay, or 404 when the display is gone.
AcquireDisplay(r) ==
    /\ step[r] = "found" /\ manager # "gone" /\ MutexFree
    /\ LET d == displays[pointer[r]]
       IN  \/ /\ d # NULL
              /\ useCount' = [useCount EXCEPT ![d] = @ + 1]
              /\ idle' = Restarted(d)
              /\ step' = [step EXCEPT ![r] = "acquired"]
              /\ pointer' = [pointer EXCEPT ![r] = d]
              /\ Restart(r)
           \/ d = NULL /\ Finish(r) /\ UNCHANGED <<useCount, idle>>
    /\ UNCHANGED <<object, displays, manager, call, pageVars>>

\* Mutant: releaseDisplay does not restart the clock of the display.
ReleaseWithoutRestart(r) ==
    /\ step[r] = "acquired" /\ manager # "gone" /\ MutexFree
    /\ useCount' = [useCount EXCEPT ![pointer[r]] = @ - 1]
    /\ step' = [step EXCEPT ![r] = "released"]
    /\ Restart(r)
    /\ UNCHANGED <<object, displays, idle, manager, call, pageVars, pointer>>

\* releaseDisplay, with its operator[] on the entry of the display.
ReleaseDisplay(r) ==
    /\ step[r] = "acquired" /\ manager # "gone" /\ MutexFree
    /\ useCount' = [useCount EXCEPT ![pointer[r]] = @ - 1]
    /\ idle' = Restarted(pointer[r])
    /\ step' = [step EXCEPT ![r] = "released"]
    /\ Restart(r)
    /\ UNCHANGED <<object, displays, manager, call, pageVars, pointer>>

\* The manager went while the request worked with it: what it reads is
\* undefined, and the model ends it.
OutlivedByManager(r) ==
    /\ step[r] \in {"found", "acquired"} /\ manager = "gone"
    /\ Finish(r)
    /\ UNCHANGED <<registryVars, pageVars>>

\* takePatch of a display the request does not hold any more.
TakePatch(r) ==
    /\ step[r] = "released"
    /\ Finish(r)
    /\ UNCHANGED <<registryVars, pageVars>>

-----------------------------------------------------------------------------
HandleMessage(t) == UseDisplay(t) \/ DropMessage(t) \/ GetNewDisplay(t)
SessionThread ==
    \/ \E t \in Target : HandleMessage(t)
    \/ InsertDisplay
    \/ \E d \in Display : SpareDisplay(d) \/ RemoveDisplay(d)
    \/ DeleteDisplay
MainThread == CreateDisplayInstance \/ TearDownDisplayInstance
ConnectionThread(r) ==
    \/ \E t \in Target : HandlePatchRequest(r, t)
    \/ AcquireDisplay(r)
    \/ ReleaseDisplay(r)
    \/ OutlivedByManager(r)
    \/ TakePatch(r)
Page(t) == ReconnectDisplay(t) \/ Disconnect(t) \/ LoseMessage(t)

Next ==
    \/ SessionThread
    \/ KillObsoleteDisplays
    \/ SessionDestroyed
    \/ DestroyManager
    \/ MainThread
    \/ \E r \in Reader : ConnectionThread(r)
    \/ \E t \in Target : Page(t)
    \/ Tick

Spec == Init /\ [][Next]_vars

\* The event loops run and time passes.  Posted messages and the timer share
\* the session's event loop, where neither starves the other, and nobody waits
\* for displayMutex_ for ever.
FairSpec ==
    /\ Spec
    /\ WF_vars(SessionThread) /\ WF_vars(MainThread)
    /\ \A t \in Target : SF_vars(HandleMessage(t))
    /\ SF_vars(KillObsoleteDisplays) /\ SF_vars(DestroyManager)
    /\ SF_vars(Tick)
    /\ \A r \in Reader : SF_vars(AcquireDisplay(r) \/ ReleaseDisplay(r))

-----------------------------------------------------------------------------
(* Properties *)

\* displays_ and displayResources_ name the same displays, no display goes by
\* two ids, all of them are alive, and the use count of each is the number of
\* requests that acquired it and have not released it yet.  So no display is
\* removed in use, but by the manager's destructor.
RegistryAgrees ==
    /\ \A d \in Registered :
         /\ object[d] = "alive"
         /\ useCount[d] = Cardinality(Holders(d))
         /\ \E t \in Target : displays[t] = d
    /\ \A t \in Target : displays[t] # NULL => displays[t] \in Registered
    /\ \A t, u \in Target : displays[t] = displays[u] /\ displays[t] # NULL => t = u

\* A display that a patch request took a pointer to and released is not
\* deleted before two periods have passed since, although nothing holds it,
\* unless the session goes.
PatienceProtectsPatch ==
    \A r \in Reader :
        step[r] = "released" /\ wait[r] < 2 /\ manager \in {"active", "orphaned"}
        => object[pointer[r]] = "alive"

\* A page that stays connected and loses no message keeps its display, though
\* neither picture nor user moves: one keepAlive() per period is enough.
KeepAliveProtectsDisplay ==
    \A t \in Target :
        attached[t] /\ ~lost[t] /\ inbox[t] # "newDisplay" /\ manager = "active"
        => displays[t] # NULL \/ (call.op \in {"create", "created"} /\ call.target = t)

\* The display of a page that has gone is removed in the end.
UnusedDisplaysAreRemoved ==
    \A t \in Target :
        (displays[t] # NULL /\ ~attached[t]) ~> (displays[t] = NULL \/ attached[t])
=============================================================================
