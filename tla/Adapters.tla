------------------------------ MODULE Adapters -------------------------------
(***************************************************************************)
(* The adapter between an item of Qt Quick and the displays that show it    *)
(* (src/src/display/adapters/qtquick2adapter.cpp,                           *)
(* src/src/declarative/viridityqtquickdisplay.cpp).                         *)
(*                                                                          *)
(* Item and adapter live in the main thread, displays and their renderers   *)
(* in the thread of their session.  A change of the scene is posted to the  *)
(* renderers; a renderer that wants the picture makes a blocking call to    *)
(* the main thread if the picture of the adapter is too old.                *)
(*                                                                          *)
(* An adapter is made for the first display of an item and shared by the    *)
(* others.  It is deleted with the first display that is removed, and soon  *)
(* after the item.  Displays, renderers, interpreters and the handlers of   *)
(* resize() keep plain pointers to it; only a renderer is told, by a posted *)
(* call.  What a use of a deleted object does is undefined: the model notes *)
(* it in `misuse` and goes on as if it had no effect.                       *)
(***************************************************************************)
EXTENDS Naturals, FiniteSets

CONSTANTS
    Target,      \* the ids of displays of one item in one session
    Adapter,     \* adapter objects
    NULL,
    MaxVersion,  \* bound: versions of the scene
    MaxResizes   \* bound: resize() messages

ASSUME AdaptersAssumption ==
    /\ NULL \notin Adapter \cup Target /\ MaxVersion \in Nat \ {0} /\ MaxResizes \in Nat

VARIABLES
    \* main thread
    item,        \* the item exists
    scene,       \* version of the scene
    life,        \* life of the adapters
    known,       \* adaptersByItem_[item], a QPointer
    updateRequired, buffer,
    rendering,   \* the version updateBuffer is rendering, or NULL
    \* session thread
    display,     \* adapter_ of the display of a target, NULL for no display
    renderer,    \* adapter_ of its renderer
    changed, destroyed,     \* calls posted to the renderer
    updates,     \* updatesAvailable_
    view,        \* version of the scene that was drawn last
    handlers,    \* the handlers of resize(): their target and adapter_
    resizes,     \* number of resize() messages
    call,        \* what the session thread is doing
    \* history
    misuse,      \* uses of deleted objects
    missed,      \* adapters whose scene changed while it was rendered, and not since
    shared,      \* two displays had one adapter, and one of them was removed
    removed      \* a display was removed

pictureVars == <<scene, updateRequired, buffer, view, missed>>
objectVars == <<item, life, known, display, handlers, shared, removed>>
adaptersVars == <<pictureVars, rendering, objectVars, renderer, changed, destroyed, updates,
                  resizes, call, misuse>>

Idle == [op |-> "idle", target |-> NULL, todo |-> {}]

AdaptersTypeOK ==
    /\ item \in BOOLEAN /\ scene \in 1..MaxVersion
    /\ life \in [Adapter -> {"unborn", "alive", "doomed", "deleted"}]
    /\ known \in Adapter \cup {NULL}
    /\ updateRequired \in [Adapter -> BOOLEAN] /\ buffer \in [Adapter -> 0..MaxVersion]
    /\ rendering \in 1..MaxVersion \cup {NULL}
    /\ display \in [Target -> Adapter \cup {NULL}] /\ renderer \in [Target -> Adapter \cup {NULL}]
    /\ changed \in [Target -> BOOLEAN] /\ destroyed \in [Target -> BOOLEAN]
    /\ updates \in [Target -> BOOLEAN] /\ view \in [Target -> 0..MaxVersion]
    /\ handlers \in SUBSET [target : Target, adapter : Adapter] /\ resizes \in 0..MaxResizes
    /\ call \in [op : {"idle", "wait", "draw", "resize"}, target : Target \cup {NULL},
                 todo : SUBSET [target : Target, adapter : Adapter]]
    /\ misuse \in SUBSET {"render", "input", "delete", "resize", "handler"}
    /\ missed \in SUBSET Adapter /\ shared \in BOOLEAN /\ removed \in BOOLEAN

AdaptersInit ==
    /\ item = TRUE /\ scene = 1
    /\ life = [a \in Adapter |-> "unborn"] /\ known = NULL
    /\ updateRequired = [a \in Adapter |-> FALSE] /\ buffer = [a \in Adapter |-> 0]
    /\ rendering = NULL
    /\ display = [t \in Target |-> NULL] /\ renderer = [t \in Target |-> NULL]
    /\ changed = [t \in Target |-> FALSE] /\ destroyed = [t \in Target |-> FALSE]
    /\ updates = [t \in Target |-> FALSE] /\ view = [t \in Target |-> 0]
    /\ handlers = {} /\ resizes = 0 /\ call = Idle
    /\ misuse = {} /\ missed = {} /\ shared = FALSE /\ removed = FALSE

-----------------------------------------------------------------------------
(* Helpers *)

Exists(a) == life[a] \in {"alive", "doomed"}
Misused(kind) == misuse' = misuse \cup {kind}

\* The displays whose renderers are connected to an adapter.
Connected(a) == {t \in Target : renderer[t] = a}

\* Mutant: only the flag is set.
NotifyNobody(a) == changed

\* sceneChanged is emitted.
Notify(a) == [t \in Target |-> changed[t] \/ t \in Connected(a)]

\* handleSceneChanged, called by the window; without an item nothing comes.
HandleSceneChanged(a) ==
    /\ updateRequired' = [updateRequired EXCEPT ![a] = TRUE]
    /\ changed' = Notify(a)

\* An adapter is deleted: the QPointer is cleared and the renderers are told.
Delete(a) ==
    /\ life' = [life EXCEPT ![a] = "deleted"]
    /\ known' = IF known = a THEN NULL ELSE known
    /\ destroyed' = [t \in Target |-> destroyed[t] \/ t \in Connected(a)]

-----------------------------------------------------------------------------
(* The main thread *)

MainIsFree == rendering = NULL

\* The scene changes: the window of the adapter says so.
SceneChanges ==
    /\ MainIsFree /\ item /\ scene < MaxVersion
    /\ scene' = scene + 1
    /\ IF known = NULL THEN UNCHANGED <<updateRequired, changed, missed>>
       ELSE HandleSceneChanged(known) /\ missed' = missed \ {known}
    /\ UNCHANGED <<buffer, view, rendering, objectVars, renderer, destroyed, updates, resizes,
                   call, misuse>>

\* The item is destroyed: so are the handlers, its children.  The adapter
\* forgets it and is deleted later.
DestroyItem ==
    /\ MainIsFree /\ item
    /\ item' = FALSE /\ handlers' = {}
    /\ life' = [a \in Adapter |-> IF a = known THEN "doomed" ELSE life[a]]
    /\ UNCHANGED <<pictureVars, rendering, known, display, shared, removed, renderer, changed,
                   destroyed, updates, resizes, call, misuse>>

\* A blocking call that was posted to the adapter returns without effect.
DeleteLater(a) ==
    /\ MainIsFree /\ life[a] = "doomed"
    /\ Delete(a)
    /\ call' = IF call.op = "wait" /\ renderer[call.target] = a THEN [call EXCEPT !.op = "draw"]
               ELSE call
    /\ UNCHANGED <<pictureVars, rendering, item, display, handlers, shared, removed, renderer,
                   changed, updates, resizes, misuse>>

\* updateBuffer: polish, sync and render.
UpdateBuffer(a) ==
    /\ MainIsFree /\ call.op = "wait" /\ renderer[call.target] = a /\ Exists(a)
    /\ rendering' = scene
    /\ UNCHANGED <<pictureVars, objectVars, renderer, changed, destroyed, updates, resizes, call,
                   misuse>>

\* An item asks for another frame while this one is rendered, as animations do.
ChangeWhileRendering ==
    /\ rendering # NULL /\ item /\ scene < MaxVersion
    /\ scene' = scene + 1
    /\ HandleSceneChanged(renderer[call.target])
    /\ missed' = missed \cup {renderer[call.target]}
    /\ UNCHANGED <<buffer, view, rendering, objectVars, renderer, destroyed, updates, resizes,
                   call, misuse>>

\* The picture is taken, and the flag is reset whatever happened meanwhile.
FinishUpdate ==
    /\ rendering # NULL
    /\ LET a == renderer[call.target]
       IN  /\ buffer' = [buffer EXCEPT ![a] = rendering]
           /\ updateRequired' = [updateRequired EXCEPT ![a] = FALSE]
    /\ rendering' = NULL
    /\ call' = [call EXCEPT !.op = "draw"]
    /\ UNCHANGED <<scene, view, missed, objectVars, renderer, changed, destroyed, updates,
                   resizes, misuse>>

-----------------------------------------------------------------------------
(* The session thread *)

SessionIsFree == call.op = "idle" /\ rendering = NULL

\* Mutant: the hash keeps plain pointers.
ReusableForEver == {a \in Adapter : \E h \in handlers : h.adapter = a}

\* The adapter the item has already.
Reusable == {known} \ {NULL}

\* getAdapterForItem in the main thread, while the session waits.  A new
\* adapter comes with a handler of resize() for the target it was made for.
NewDisplay(t) ==
    /\ SessionIsFree /\ item /\ display[t] = NULL
    /\ \E a \in (IF Reusable # {} THEN Reusable ELSE {x \in Adapter : life[x] = "unborn"}) :
          /\ display' = [display EXCEPT ![t] = a] /\ renderer' = [renderer EXCEPT ![t] = a]
          /\ known' = a
          /\ IF life[a] = "unborn"
             THEN /\ life' = [life EXCEPT ![a] = "alive"]
                  /\ updateRequired' = [updateRequired EXCEPT ![a] = TRUE]
                  /\ handlers' = handlers \cup {[target |-> t, adapter |-> a]}
             ELSE UNCHANGED <<life, updateRequired, handlers>>
    /\ updates' = [updates EXCEPT ![t] = TRUE]
    /\ view' = [view EXCEPT ![t] = 0]
    /\ changed' = [changed EXCEPT ![t] = FALSE] /\ destroyed' = [destroyed EXCEPT ![t] = FALSE]
    /\ UNCHANGED <<scene, buffer, missed, rendering, item, shared, removed, resizes, call, misuse>>

\* removeDisplay: tearDownAdapter deletes the adapter, whoever else has it.
RemoveDisplay(t) ==
    /\ SessionIsFree /\ display[t] # NULL
    /\ LET a == display[t]
       IN  /\ IF Exists(a) THEN Delete(a) /\ UNCHANGED misuse
              ELSE Misused("delete") /\ UNCHANGED <<life, known, destroyed>>
           /\ shared' = (shared \/ \E u \in Target \ {t} : display[u] = a)
    /\ removed' = TRUE
    /\ display' = [display EXCEPT ![t] = NULL] /\ renderer' = [renderer EXCEPT ![t] = NULL]
    /\ updates' = [updates EXCEPT ![t] = FALSE] /\ changed' = [changed EXCEPT ![t] = FALSE]
    /\ UNCHANGED <<pictureVars, rendering, item, handlers, resizes, call>>

\* sceneChanged of the renderer.
DeliverChanged(t) ==
    /\ SessionIsFree /\ changed[t]
    /\ changed' = [changed EXCEPT ![t] = FALSE]
    /\ updates' = [updates EXCEPT ![t] = TRUE]
    /\ UNCHANGED <<pictureVars, rendering, objectVars, renderer, destroyed, resizes, call, misuse>>

\* sceneDestroyed of the renderer.  The display is not told.
DeliverDestroyed(t) ==
    /\ SessionIsFree /\ destroyed[t]
    /\ destroyed' = [destroyed EXCEPT ![t] = FALSE]
    /\ renderer' = [renderer EXCEPT ![t] = NULL]
    /\ UNCHANGED <<pictureVars, rendering, objectVars, changed, updates, resizes, call, misuse>>

\* paintUpdatesToBuffer calls render of the adapter, which waits for the main
\* thread if its picture is too old.
Render(t) ==
    /\ SessionIsFree /\ display[t] # NULL /\ updates[t]
    /\ LET a == renderer[t]
       IN  IF a # NULL /\ Exists(a)
           THEN /\ call' = [Idle EXCEPT !.op = IF updateRequired[a] THEN "wait" ELSE "draw",
                                        !.target = t]
                /\ UNCHANGED <<updates, misuse>>
           ELSE /\ updates' = [updates EXCEPT ![t] = FALSE]
                /\ IF a = NULL THEN UNCHANGED misuse ELSE Misused("render")
                /\ UNCHANGED call
    /\ UNCHANGED <<pictureVars, rendering, objectVars, renderer, changed, destroyed, resizes>>

\* drawImage(buffer_), and updatesAvailable_ = false.
Draw ==
    /\ call.op = "draw"
    /\ LET t == call.target
       IN  /\ IF Exists(renderer[t])
              THEN view' = [view EXCEPT ![t] = buffer[renderer[t]]] /\ UNCHANGED misuse
              ELSE Misused("render") /\ UNCHANGED view
           /\ updates' = [updates EXCEPT ![t] = FALSE]
    /\ call' = Idle
    /\ UNCHANGED <<scene, updateRequired, buffer, missed, rendering, objectVars, renderer, changed,
                   destroyed, resizes>>

\* Any message to a display is shown to its interpreter, a child of the adapter.
HandleInput(t) ==
    /\ SessionIsFree /\ display[t] # NULL /\ ~Exists(display[t])
    /\ Misused("input")
    /\ UNCHANGED <<pictureVars, rendering, objectVars, renderer, changed, destroyed, updates,
                   resizes, call>>

\* resize() goes to all the handlers there are when it arrives.
HandleResize(t) ==
    /\ SessionIsFree /\ display[t] # NULL /\ resizes < MaxResizes
    /\ \E h \in handlers : h.target = t
    /\ resizes' = resizes + 1
    /\ call' = [op |-> "resize", target |-> t, todo |-> {h \in handlers : h.target = t}]
    /\ UNCHANGED <<pictureVars, rendering, objectVars, renderer, changed, destroyed, updates,
                   misuse>>

\* localHandleMessage of one of them, in the main thread, and setSize.
ResizeAdapter(h) ==
    /\ call.op = "resize" /\ h \in call.todo
    /\ call' = IF call.todo = {h} THEN Idle ELSE [call EXCEPT !.todo = @ \ {h}]
    /\ IF h \notin handlers THEN Misused("handler") /\ UNCHANGED <<updateRequired, changed>>
       ELSE IF ~Exists(h.adapter) THEN Misused("resize") /\ UNCHANGED <<updateRequired, changed>>
       ELSE HandleSceneChanged(h.adapter) /\ UNCHANGED misuse
    /\ UNCHANGED <<scene, buffer, view, missed, rendering, objectVars, renderer, destroyed, updates,
                   resizes>>

Main == DestroyItem \/ FinishUpdate \/ \E a \in Adapter : DeleteLater(a) \/ UpdateBuffer(a)
AdaptersNext ==
    \/ SceneChanges \/ ChangeWhileRendering \/ Main
    \/ \E t \in Target :
          \/ NewDisplay(t) \/ RemoveDisplay(t) \/ DeliverChanged(t) \/ DeliverDestroyed(t)
          \/ Render(t) \/ HandleInput(t) \/ HandleResize(t)
    \/ Draw
    \/ \E h \in call.todo : ResizeAdapter(h)

AdaptersSpec == AdaptersInit /\ [][AdaptersNext]_adaptersVars

-----------------------------------------------------------------------------
(* Properties *)

\* A display that has nothing to do shows the scene as it is, unless the scene
\* last changed while it was rendered.  (And every variable is well typed.)
PictureCatchesUp ==
    /\ AdaptersTypeOK
    /\ \A t \in Target :
           LET a == display[t]
           IN  (/\ a # NULL /\ Exists(a) /\ a \notin missed
                /\ ~updates[t] /\ ~changed[t] /\ call.op = "idle") => view[t] = scene

\* While the item lives and no display lost its adapter to another one, nothing
\* deleted is used, but for the adapters of removed displays by the handlers of
\* resize() they left.
OnlyOldHandlersMisuse ==
    item /\ ~shared => misuse \subseteq (IF removed THEN {"resize"} ELSE {})
=============================================================================
