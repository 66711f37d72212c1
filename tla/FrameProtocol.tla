---------------------------- MODULE FrameProtocol ----------------------------
(***************************************************************************)
(* The frames of one display: GraphicsSceneDisplay and its                  *)
(* GraphicsSceneBufferRenderer on the server                                *)
(* (src/src/display/graphicsscenedisplay.cpp), the display renderer in the  *)
(* browser (src/src/js/DisplayRenderer.js), and the connection in between,  *)
(* which may break and be made again.                                       *)
(*                                                                          *)
(* The server renders the damaged part of the scene into a buffer, compares *)
(* it with the previous buffer and sends the differences: fills, moves out  *)
(* of the picture shown, and images, which arrive asynchronously.  The      *)
(* client answers ready() once a frame is complete.  A rectangle of the     *)
(* comparer is one of a few tiles here, and what it shows is a colour.      *)
(***************************************************************************)
EXTENDS Integers, Sequences, FiniteSets, SequencesExt

CONSTANTS
    Tile,
    Color,           \* what a tile of the scene may show
    Solid,           \* the colours a fill operation can draw
    Clear,           \* transparent: what a blank buffer or canvas holds
    White,           \* what fullUpdate fills the other buffer with
    Veil,            \* what _drawDisconnected paints over the picture
    Inline,          \* encoded images are small enough to be sent inline
    MaxFrames,       \* bound: frames of a session whose connection lives
    MaxLateFrames,   \* bound: its frames once it has broken
    MaxChanges,      \* bound: changes of the scene and of the size
    MaxDisconnects,  \* bound: how often the connection breaks
    MaxFaults        \* bound: how often loading an image fails by itself

ASSUME ColorAssumption == Solid \subseteq Color /\ White \notin Color \cup {Clear}
ASSUME BoundAssumption ==
    /\ MaxFrames \in Nat /\ MaxLateFrames \in Nat /\ MaxChanges \in Nat
    /\ MaxDisconnects \in Nat /\ MaxFaults \in Nat
ASSUME InlineAssumption == Inline \in BOOLEAN
ASSUME TileAssumption == IsFiniteSet(Tile)

VARIABLES
    scene,          \* what the adapter draws
    work, other,    \* *workBuffer_ and *otherBuffer_ of the renderer
    damage,         \* damageRegion_
    updates,        \* updatesAvailable_ of the renderer
    timer,          \* updateCheckTimer_ runs
    updateAvailable, clientReady, fullUpdateRequested, frame, patches,
    requesting,     \* the session knows that the display wants to dispatch
    fullUpdating,   \* how far requestFullUpdate is, in the display's thread
    taking,         \* how far takePendingMessages is, in a connection thread
    rects,          \* the tiles findDifferences returned to it
    operations,     \* ops: what the frame being made consists of
    written,        \* how many of them are messages already
    marked,         \* a fullUpdate message comes before them
    down, up,       \* messages in the connection
    connected, canvas, front, lastFrame, frameEndReceived, frameErrors,
    pendingPatches, waitingForFullUpdate,
    loading,        \* images the browser is loading
    fetched,        \* those of them whose data is on the way
    session,        \* counts the sessions the client has had
    overtaken,      \* history: frames in whose making clientReady() ran
    unmarked,       \* history: frames a full update was requested too late for
    changes, disconnects, faults

rendererVars == <<scene, work, other, damage, updates>>
makingVars == <<taking, rects, operations, written, marked>>
historyVars == <<overtaken, unmarked>>
displayVars == <<timer, updateAvailable, clientReady, fullUpdateRequested, frame,
                 patches, requesting, fullUpdating, makingVars, historyVars>>
canvasVars == <<canvas, front, lastFrame, frameEndReceived, frameErrors,
                pendingPatches, waitingForFullUpdate, loading, fetched>>
boundVars == <<changes, disconnects, faults>>
vars == <<rendererVars, displayVars, canvasVars, boundVars, down, up, connected, session>>

Picture == [Tile -> Color \cup {Clear, White, Veil}]
Image == [session : Nat, frame : Nat, tile : Tile, color : Color \cup {Clear}]
Request == {"ready", "requestFullUpdate", "forcedFullUpdate", "newDisplay", "resize"}
Message ==
    [command : {"fullUpdate", "end"}, frame : Nat]
    \cup [command : {"fR", "dI"}, frame : Nat, tile : Tile, color : Color \cup {Clear}]
    \cup [command : {"mI"}, frame : Nat, tile : Tile, from : Tile]

TypeOK ==
    /\ scene \in [Tile -> Color] /\ work \in Picture /\ other \in Picture
    /\ damage \subseteq Tile /\ rects \subseteq Tile
    /\ updates \in BOOLEAN /\ timer \in BOOLEAN
    /\ updateAvailable \in BOOLEAN /\ clientReady \in BOOLEAN
    /\ fullUpdateRequested \in BOOLEAN /\ requesting \in BOOLEAN
    /\ frame \in Nat /\ patches \subseteq Image
    /\ fullUpdating \in {"no", "blanked", "ready"}
    /\ taking \in {"no", "checked", "claimed", "painted", "found", "begun", "emitting"}
    /\ operations \in Seq(Message) /\ written \in Nat
    /\ marked \in BOOLEAN
    /\ down \in Seq(Message) /\ up \in Seq(Request)
    /\ connected \in BOOLEAN
    /\ canvas \in Picture /\ front \in Picture
    /\ lastFrame \in Nat \cup {-1}
    /\ frameEndReceived \in BOOLEAN /\ waitingForFullUpdate \in BOOLEAN
    /\ frameErrors \in Nat /\ pendingPatches \in Int
    /\ loading \subseteq Image /\ fetched \subseteq loading
    /\ session \in Nat
    /\ overtaken \subseteq Nat /\ unmarked \subseteq Nat
    /\ changes \in 0..MaxChanges /\ disconnects \in 0..MaxDisconnects
    /\ faults \in 0..MaxFaults

Blank(color) == [t \in Tile |-> color]

\* A display just created: everything is damaged, the first update is due.
Init ==
    /\ scene \in [Tile -> Color]
    /\ work = Blank(Clear) /\ other = Blank(Clear)
    /\ damage = Tile /\ updates = TRUE
    /\ timer = TRUE /\ updateAvailable = TRUE /\ clientReady = TRUE
    /\ fullUpdateRequested = TRUE /\ frame = 0 /\ patches = {}
    /\ requesting = FALSE /\ fullUpdating = "no"
    /\ taking = "no" /\ rects = {}
    /\ operations = <<>> /\ written = 0 /\ marked = FALSE
    /\ overtaken = {} /\ unmarked = {}
    /\ down = <<>> /\ up = <<>> /\ connected = TRUE
    /\ canvas = Blank(Clear) /\ front = Blank(Clear)
    /\ lastFrame = -1
    /\ frameEndReceived = TRUE /\ frameErrors = 0 /\ pendingPatches = 0
    /\ waitingForFullUpdate = FALSE /\ loading = {} /\ fetched = {}
    /\ session = 0
    /\ changes = 0 /\ disconnects = 0 /\ faults = 0

-----------------------------------------------------------------------------
(* The display's thread *)

\* sceneChanged: the adapter reports what it will draw differently.
SceneChanged(t, color) ==
    /\ fullUpdating = "no" /\ changes < MaxChanges
    /\ color # scene[t]
    /\ scene' = [scene EXCEPT ![t] = color]
    /\ damage' = damage \cup {t}
    /\ updates' = TRUE /\ timer' = TRUE
    /\ changes' = changes + 1
    /\ UNCHANGED <<work, other, updateAvailable, clientReady, fullUpdateRequested,
                   frame, patches, requesting, fullUpdating, makingVars, historyVars,
                   canvasVars, down, up, connected, session, disconnects, faults>>

\* Only an idle client gets an update; otherwise ready() restarts the timer.
UpdateCheckTimerTimeout ==
    /\ timer /\ fullUpdating = "no"
    /\ timer' = FALSE
    /\ LET due == clientReady /\ patches = {}
       IN  /\ updateAvailable' = (updateAvailable \/ due)
           /\ requesting' = (requesting \/ due)
    /\ UNCHANGED <<rendererVars, clientReady, fullUpdateRequested, frame, patches,
                   fullUpdating, makingVars, historyVars, canvasVars, boundVars, down,
                   up, connected, session>>

\* Mutant: the patches of a frame the client gave up are kept.
ReadyKeepsPatches ==
    /\ clientReady' = TRUE
    /\ fullUpdateRequested' = FALSE
    /\ timer' = (timer \/ updates)
    /\ UNCHANGED <<rendererVars, updateAvailable, patches>>

\* Mutant: what has changed meanwhile is not looked for.
ReadyWithoutCheck ==
    /\ clientReady' = TRUE
    /\ fullUpdateRequested' = FALSE
    /\ patches' = {}
    /\ UNCHANGED <<rendererVars, timer, updateAvailable>>

\* clientReady(), under the mutex of the patches.
Ready ==
    /\ clientReady' = TRUE
    /\ fullUpdateRequested' = FALSE
    /\ patches' = {}
    /\ timer' = (timer \/ updates)
    /\ UNCHANGED <<rendererVars, updateAvailable>>

\* History: a connection thread makes a frame that clientReady() comes too early for.
Overtake == overtaken' = IF taking \in {"begun", "emitting"} /\ ~clientReady
                         THEN overtaken \cup {frame} ELSE overtaken

\* requestFullUpdate: not while another one is pending.  It holds the mutex to its
\* end, but takePendingMessages reads and writes most of this without it.
FullUpdate(forced) ==
    /\ ~fullUpdateRequested
    /\ other' = Blank(White) /\ work' = Blank(Clear)
    /\ damage' = Tile /\ updates' = TRUE /\ timer' = TRUE
    /\ patches' = IF forced THEN {} ELSE patches
    /\ fullUpdating' = IF forced THEN "blanked" ELSE "ready"
    /\ UNCHANGED <<scene, updateAvailable, clientReady, fullUpdateRequested>>

\* A forced one declares the client ready.
FullUpdateReady ==
    /\ fullUpdating = "blanked"
    /\ fullUpdating' = "ready"
    /\ Ready /\ Overtake
    /\ UNCHANGED <<frame, requesting, makingVars, unmarked, canvasVars, boundVars, down,
                   up, connected, session>>

\* Its flag is set last.  The message has been handled.
FinishFullUpdate ==
    /\ fullUpdating = "ready"
    /\ fullUpdating' = "no"
    /\ fullUpdateRequested' = TRUE
    /\ up' = Tail(up)
    /\ UNCHANGED <<rendererVars, timer, updateAvailable, clientReady, frame, patches,
                   requesting, makingVars, historyVars, canvasVars, boundVars, down,
                   connected, session>>

\* setSize of a size that differs: the buffers keep what they show.
Resize ==
    /\ damage' = Tile /\ updates' = TRUE /\ timer' = TRUE
    /\ UNCHANGED <<scene, work, other, updateAvailable, clientReady,
                   fullUpdateRequested, patches>>

FullUpdateRequest(forced) ==
    IF forced THEN {"forcedFullUpdate", "newDisplay"} ELSE {"requestFullUpdate"}

\* handleMessage of the display manager and of the display.
HandleMessage ==
    /\ connected /\ up # <<>> /\ fullUpdating = "no"
    /\ \/ /\ Head(up) = "ready" /\ Ready /\ Overtake
          /\ up' = Tail(up) /\ UNCHANGED fullUpdating
       \/ /\ Head(up) = "resize" /\ Resize
          /\ up' = Tail(up) /\ UNCHANGED <<fullUpdating, overtaken>>
       \/ \E forced \in BOOLEAN :
            /\ Head(up) \in FullUpdateRequest(forced) /\ FullUpdate(forced)
            /\ UNCHANGED <<up, overtaken>>
       \/ /\ Head(up) \notin {"ready", "resize"} /\ fullUpdateRequested
          /\ up' = Tail(up)
          /\ UNCHANGED <<rendererVars, timer, updateAvailable, clientReady,
                         fullUpdateRequested, patches, fullUpdating, overtaken>>
    /\ UNCHANGED <<frame, requesting, makingVars, unmarked, canvasVars, boundVars, down,
                   connected, session>>

-----------------------------------------------------------------------------
(* takePendingMessages, in the thread of the connection *)

\* Mutant: whether the client is ready is not asked.
UpdateForAnyClient == patches = {} /\ updateAvailable

IsUpdateAvailable == clientReady /\ patches = {} /\ updateAvailable

\* The session forgets the request, and the display checks whether it is due.
CheckUpdateAvailable ==
    /\ connected /\ requesting /\ taking = "no" /\ fullUpdating = "no"
    /\ requesting' = FALSE
    /\ taking' = IF IsUpdateAvailable THEN "checked" ELSE "no"
    /\ UNCHANGED <<rendererVars, timer, updateAvailable, clientReady,
                   fullUpdateRequested, frame, patches, fullUpdating, rects, operations,
                   written, marked, historyVars, canvasVars, boundVars, down, up,
                   connected, session>>

\* It is taken, without the lock under which it was found.
ClaimUpdate ==
    /\ taking = "checked"
    /\ taking' = "claimed"
    /\ updateAvailable' = FALSE
    /\ UNCHANGED <<rendererVars, timer, clientReady, fullUpdateRequested, frame,
                   patches, requesting, fullUpdating, rects, operations, written,
                   marked, historyVars, canvasVars, boundVars, down, up, connected,
                   session>>

\* Mutant: the buffers are swapped, but not copied.
PaintedOverOldBuffer == [t \in Tile |-> IF t \in damage THEN scene[t] ELSE other[t]]

\* The new work buffer: a copy of the last one with the damage painted.
Painted == [t \in Tile |-> IF t \in damage THEN scene[t] ELSE work[t]]

\* paintUpdatesToBuffer, a blocking call into the display's thread.
PaintUpdatesToBuffer ==
    /\ taking = "claimed" /\ fullUpdating = "no"
    /\ other' = work
    /\ work' = Painted
    /\ rects' = {t \in Tile : Painted[t] # work[t]}
    /\ damage' = {} /\ updates' = FALSE
    /\ taking' = "painted"
    /\ UNCHANGED <<scene, timer, updateAvailable, clientReady, fullUpdateRequested,
                   frame, patches, requesting, fullUpdating, operations, written,
                   marked, historyVars, canvasVars, boundVars, down, up, connected,
                   session>>

\* Mutant: moves are looked for in the picture that is being sent.
SourcesInWork(t) == {s \in Tile : work[s] = work[t]}

\* Where the client shows what t is to show.
Sources(t) == {s \in Tile : other[s] = work[t]}

\* processRect: a fill, else a move of what the client shows, else an image.
UpdateOperation(t) ==
    IF work[t] \in Solid \cup {Clear}
    THEN [command |-> "fR", frame |-> frame + 1, tile |-> t, color |-> work[t]]
    ELSE IF Sources(t) # {}
    THEN [command |-> "mI", frame |-> frame + 1, tile |-> t,
          from |-> CHOOSE s \in Sources(t) : TRUE]
    ELSE [command |-> "dI", frame |-> frame + 1, tile |-> t, color |-> work[t]]

Changed == {t \in rects : work[t] # other[t]}

\* findUpdateOperations, which reads both buffers without their lock.
FindUpdateOperations ==
    /\ taking = "painted"
    /\ frame < IF disconnects = 0 THEN MaxFrames ELSE MaxLateFrames
    /\ taking' = "found"
    /\ operations' = SetToSeq({UpdateOperation(t) : t \in Changed})
    /\ rects' = {}
    /\ UNCHANGED <<rendererVars, timer, updateAvailable, clientReady,
                   fullUpdateRequested, frame, patches, requesting, fullUpdating,
                   written, marked, historyVars, canvasVars, boundVars, down, up,
                   connected, session>>

\* With operations begins a frame, for which the client will owe ready().
BeginFrame ==
    /\ taking = "found"
    /\ taking' = "begun"
    /\ frame' = IF operations = <<>> THEN frame ELSE frame + 1
    /\ clientReady' = (clientReady /\ operations = <<>>)
    /\ UNCHANGED <<rendererVars, timer, updateAvailable, fullUpdateRequested, patches,
                   requesting, fullUpdating, rects, operations, written, marked,
                   historyVars, canvasVars, boundVars, down, up, connected, session>>

\* fullUpdateRequested_ is read once, without a lock.
ReadFullUpdateRequested ==
    /\ taking = "begun"
    /\ taking' = "emitting"
    /\ marked' = fullUpdateRequested
    /\ UNCHANGED <<rendererVars, timer, updateAvailable, clientReady,
                   fullUpdateRequested, frame, patches, requesting, fullUpdating, rects,
                   operations, written, historyVars, canvasVars, boundVars, down, up,
                   connected, session>>

\* createPatch: the image of a rectangle, whichever encoding suits it.
CreatePatch(m) ==
    [session |-> session, frame |-> frame, tile |-> m.tile, color |-> m.color]

\* The next operation becomes a message.  The image of a dI is read out of the
\* buffer now or, with useMultithreading, at the beginning of the frame.  One that
\* is not inline is kept for the client, under the mutex.
EmitOperation ==
    /\ taking = "emitting" /\ written < Len(operations)
    /\ written' = written + 1
    /\ LET m == operations[written + 1]
       IN  \/ /\ m.command # "dI"
              /\ UNCHANGED <<operations, patches>>
           \/ /\ m.command = "dI"
              /\ \E color \in {m.color, work[m.tile]} :
                   LET encoded == [m EXCEPT !.color = color]
                   IN  /\ operations' = [operations EXCEPT ![written + 1] = encoded]
                       /\ IF Inline THEN UNCHANGED patches
                          ELSE /\ fullUpdating = "no"
                               /\ patches' = patches \cup {CreatePatch(encoded)}
    /\ UNCHANGED <<rendererVars, timer, updateAvailable, clientReady,
                   fullUpdateRequested, frame, requesting, fullUpdating, taking, rects,
                   marked, historyVars, canvasVars, boundVars, down, up, connected,
                   session>>

\* History: the frame does not say that it is a full update, and is asked to be one.
TooLate ==
    /\ operations # <<>> /\ ~marked
    /\ fullUpdateRequested \/ fullUpdating # "no"

\* The messages go to the client.
EndFrame ==
    /\ taking = "emitting" /\ written = Len(operations)
    /\ taking' = "no"
    /\ LET bracket(command) == <<[command |-> command, frame |-> frame]>>
       IN  down' = down
                   \o (IF marked THEN bracket("fullUpdate") ELSE <<>>)
                   \o operations
                   \o (IF operations = <<>> THEN <<>> ELSE bracket("end"))
    /\ operations' = <<>> /\ written' = 0 /\ marked' = FALSE
    /\ unmarked' = IF TooLate THEN unmarked \cup {frame} ELSE unmarked
    /\ UNCHANGED <<rendererVars, timer, updateAvailable, clientReady,
                   fullUpdateRequested, frame, patches, requesting, fullUpdating, rects,
                   overtaken, canvasVars, boundVars, up, connected, session>>

-----------------------------------------------------------------------------
(* The browser *)

\* sendMessage queues; requestFullUpdate does nothing without a connection.
Ask(request) == IF connected THEN <<request>> ELSE <<>>

\* _determineReadyState, with what the message or the image has changed.
DetermineReadyState(ended, count, errors, picture) ==
    LET complete == ended /\ count = 0
    IN  /\ frameEndReceived' = ended /\ pendingPatches' = count /\ canvas' = picture
        /\ frameErrors' = IF complete THEN 0 ELSE errors
        /\ waitingForFullUpdate' =
             (waitingForFullUpdate \/ (complete /\ errors > 0 /\ connected))
        /\ front' = IF complete /\ errors = 0 THEN picture ELSE front
        /\ up' = IF ~complete THEN up
                 ELSE up \o <<"ready">>
                        \o (IF errors > 0 THEN Ask("forcedFullUpdate") ELSE <<>>)

\* What a command of the current frame does.
Perform(m, ended) ==
    \/ /\ m.command = "fullUpdate"
       /\ frameEndReceived' = ended /\ pendingPatches' = 0
       /\ waitingForFullUpdate' = FALSE
       /\ UNCHANGED <<canvas, front, frameErrors, loading, fetched, up>>
    \/ /\ m.command \in {"fR", "mI"}
       /\ canvas' = [canvas EXCEPT ![m.tile] = IF m.command = "fR" THEN m.color
                                                                   ELSE front[m.from]]
       /\ frameEndReceived' = ended
       /\ UNCHANGED <<front, frameErrors, pendingPatches, waitingForFullUpdate,
                      loading, fetched, up>>
    \/ /\ m.command = "dI"
       /\ LET image == [session |-> session, frame |-> m.frame,
                        tile |-> m.tile, color |-> m.color]
          IN  /\ loading' = loading \cup {image}
              /\ fetched' = IF Inline THEN fetched \cup {image} ELSE fetched
       /\ pendingPatches' = pendingPatches + 1
       /\ frameEndReceived' = ended
       /\ UNCHANGED <<canvas, front, frameErrors, waitingForFullUpdate, up>>
    \/ /\ m.command = "end"
       /\ DetermineReadyState(TRUE, pendingPatches, frameErrors, canvas)
       /\ UNCHANGED <<loading, fetched>>

\* _messageCallback.  A new frame that finds images of the previous one
\* pending is given up, and a full update is requested without ready().
ReceiveMessage ==
    /\ connected /\ down # <<>>
    /\ down' = Tail(down)
    /\ LET m == Head(down)
           starts == lastFrame # m.frame
           unfinished == pendingPatches # 0 /\ m.command # "fullUpdate"
       IN  \/ /\ waitingForFullUpdate /\ m.command # "fullUpdate"
              /\ UNCHANGED <<canvasVars, up>>
           \/ /\ ~waitingForFullUpdate /\ starts /\ unfinished
              /\ lastFrame' = m.frame
              /\ pendingPatches' = 0
              /\ waitingForFullUpdate' = TRUE
              /\ up' = Append(up, "requestFullUpdate")
              /\ UNCHANGED <<canvas, front, frameEndReceived, frameErrors, loading,
                             fetched>>
           \/ /\ ~waitingForFullUpdate \/ m.command = "fullUpdate"
              /\ ~(starts /\ unfinished)
              /\ lastFrame' = m.frame
              /\ Perform(m, frameEndReceived /\ ~starts)
    /\ UNCHANGED <<rendererVars, displayVars, boundVars, connected, session>>

\* takePatch: the request for an image has come to the server.
TakePatch(image) ==
    /\ image \in loading \cap patches /\ fullUpdating = "no"
    /\ patches' = patches \ {image}
    /\ fetched' = fetched \cup {image}
    /\ UNCHANGED <<rendererVars, timer, updateAvailable, clientReady,
                   fullUpdateRequested, frame, requesting, fullUpdating, makingVars,
                   historyVars, canvas, front, lastFrame, frameEndReceived, frameErrors,
                   pendingPatches, waitingForFullUpdate, loading, boundVars, down, up,
                   connected, session>>

\* img.onload.
ImageLoaded(image) ==
    /\ image \in fetched
    /\ loading' = loading \ {image} /\ fetched' = fetched \ {image}
    /\ DetermineReadyState(frameEndReceived, pendingPatches - 1, frameErrors,
                           [canvas EXCEPT ![image.tile] = image.color])
    /\ UNCHANGED <<rendererVars, displayVars, lastFrame, boundVars, down, connected,
                   session>>

\* img.onerror: the display had cleared the patch, or the request fails.
ImageFailed(image) ==
    /\ image \in loading \ fetched
    /\ \/ image \notin patches /\ faults' = faults
       \/ faults < MaxFaults /\ faults' = faults + 1
    /\ loading' = loading \ {image}
    /\ DetermineReadyState(frameEndReceived, pendingPatches - 1, frameErrors + 1, canvas)
    /\ UNCHANGED <<rendererVars, displayVars, lastFrame, fetched, changes, disconnects,
                   down, connected, session>>

\* resize, when the element of the page has a new size.
ResizeElement ==
    /\ connected /\ changes < MaxChanges
    /\ changes' = changes + 1
    /\ up' = Append(up, "resize")
    /\ UNCHANGED <<rendererVars, displayVars, canvasVars, down, connected, session,
                   disconnects, faults>>

-----------------------------------------------------------------------------
(* The connection *)

\* What is under way in either direction is lost, the picture is veiled.
Disconnect ==
    /\ connected /\ taking = "no" /\ fullUpdating = "no"
    /\ disconnects < MaxDisconnects
    /\ disconnects' = disconnects + 1
    /\ connected' = FALSE
    /\ down' = <<>> /\ up' = <<>>
    /\ front' = Blank(Veil)
    /\ UNCHANGED <<rendererVars, displayVars, canvas, lastFrame, frameEndReceived,
                   frameErrors, pendingPatches, waitingForFullUpdate, loading, fetched,
                   session, changes, faults>>

\* reattached(): _reconnectDisplay asks for the display again.  What was sent
\* without a connection goes first.  (Its resize() has no effect.)
Reattach ==
    /\ ~connected
    /\ connected' = TRUE
    /\ up' = Append(up, "newDisplay")
    /\ UNCHANGED <<rendererVars, displayVars, canvasVars, boundVars, down, session>>

\* info(): the session had expired, the new one creates a new display.
StartNewSession ==
    /\ ~connected
    /\ connected' = TRUE
    /\ session' = session + 1
    /\ up' = <<>>
    /\ work' = Blank(Clear) /\ other' = Blank(Clear)
    /\ damage' = Tile /\ updates' = TRUE
    /\ timer' = TRUE /\ updateAvailable' = TRUE /\ clientReady' = TRUE
    /\ fullUpdateRequested' = TRUE /\ frame' = 0 /\ patches' = {}
    /\ requesting' = FALSE
    /\ overtaken' = {} /\ unmarked' = {}
    /\ UNCHANGED <<scene, fullUpdating, makingVars, canvasVars, boundVars, down>>

-----------------------------------------------------------------------------
\* takePendingMessages, once an update has been found to be due.
TakePendingMessages ==
    \/ ClaimUpdate
    \/ PaintUpdatesToBuffer
    \/ FindUpdateOperations
    \/ BeginFrame
    \/ ReadFullUpdateRequested
    \/ EmitOperation
    \/ EndFrame

DisplayNext ==
    \/ UpdateCheckTimerTimeout
    \/ HandleMessage
    \/ FullUpdateReady
    \/ FinishFullUpdate
    \/ CheckUpdateAvailable
    \/ TakePendingMessages

BrowserNext ==
    \/ ReceiveMessage
    \/ \E image \in loading :
        TakePatch(image) \/ ImageLoaded(image) \/ ImageFailed(image)

EnvironmentNext ==
    \/ \E t \in Tile, color \in Color : SceneChanged(t, color)
    \/ ResizeElement
    \/ Disconnect

Reconnect == Reattach \/ StartNewSession

Next == DisplayNext \/ BrowserNext \/ EnvironmentNext \/ Reconnect

Spec == Init /\ [][Next]_vars

\* Event loops turn, messages of a connection arrive, an image request ends,
\* and the client keeps trying to connect.
Fairness ==
    /\ WF_vars(UpdateCheckTimerTimeout)
    /\ WF_vars(HandleMessage \/ FullUpdateReady \/ FinishFullUpdate)
    /\ WF_vars(CheckUpdateAvailable) /\ WF_vars(TakePendingMessages)
    /\ WF_vars(BrowserNext) /\ WF_vars(Reconnect)

FairSpec == Spec /\ Fairness

-----------------------------------------------------------------------------
(* Properties *)

\* What the client will show when it has performed the frame that has been made.
Result(t) ==
    IF \E i \in DOMAIN operations : operations[i].tile = t
    THEN LET m == operations[CHOOSE i \in DOMAIN operations : operations[i].tile = t]
         IN  IF m.command = "mI" THEN front[m.from] ELSE m.color
    ELSE canvas[t]

\* The connection of the client has not broken yet, and the display's thread has
\* never declared it ready for a frame that was still being made.
Undisturbed == disconnects = 0 /\ overtaken = {}

\* The messages of a frame are complete.
Made == taking = "emitting" /\ written = Len(operations)

\* The operations of a frame, performed on what the client has drawn and what it
\* shows, give the picture of the server: the server knows what the client has.
\* Not meant are frames the client throws away, and a frame during which fullUpdate
\* blanked the buffers.  (And every variable is well typed.)
FrameRebuildsPicture ==
    /\ TypeOK
    /\ (/\ Made /\ Undisturbed
        /\ waitingForFullUpdate => marked
        /\ other # Blank(White)) => \A t \in Tile : Result(t) = work[t]

\* Flow control: a frame is begun only when no image of the previous one is loading
\* and nothing of it is on its way, unless the client throws that away.
OneFrameAtATime ==
    [][Undisturbed /\ frame' > frame =>
         /\ loading = {} /\ patches = {}
         /\ waitingForFullUpdate \/ \A i \in DOMAIN down : down[i].command = "fullUpdate"]_vars

\* Encoded images do not pile up in the display: what it holds belongs to the
\* last frame it sent, while the client owes it ready() for that frame or has
\* been declared ready when the frame was being made.
PatchesOfOneFrame ==
    \A image \in patches :
        /\ image.session = session /\ image.frame = frame
        /\ ~clientReady \/ frame \in overtaken

\* No wakeup is lost between the display's thread, where damage arrives, the
\* connection thread, which takes the update, and the client, whose ready()
\* comes from a third: an update a ready client has not got is on its way.
NoLostUpdate ==
    updates /\ clientReady =>
        \/ timer
        \/ requesting /\ updateAvailable
        \/ taking \in {"checked", "claimed"}
        \/ frame \in overtaken

\* In the end the client shows the scene, also when images fail to load and the size
\* changes, unless a full update is requested too late for the frame being made.
Converges == [](Undisturbed /\ unmarked = {}) => <>[](front = scene)
=============================================================================
