# Viridity: specifications and proofs

Viridity is a C++/Qt application server. It embeds a web server into an
application, keeps a session for every client, mirrors HTML documents written in
QML and streams rendered scenes (QML or `QGraphicsScene`) as tiles, moves and
fills to a canvas in the browser. Several thread pools, queued calls, long polls
that overlap and connections that come and go make up its hard parts, and these
are what the modules here are about. Paths below are relative to the repository's
`src/` directory unless they start with `js/`, `handlers/`, `display/` and so on, which are
below `src/src/`.

Run a model with `tlc -config MCSessions_threads.cfg MCSessions` and the like, and
check a proof with `tlapm SessionsProofs.tla`. The runs, mutants, hazards and the
map from definitions to source lines are in `PROJECT.json`.

## 1. The parts of the system

### 1.1 Threads

* The **main thread** owns the web server object, the session manager and, for
  QML applications, the session's QML objects. `cleanupTimer_` of the session
  manager fires here.
* **Connection threads** (`ViridityTcpServerThread`, as many as `listen()` is
  told) run the connections, their request handlers and so the channel handlers.
* **Session threads**: `AbstractViriditySessionManager` gives each session one of
  them; `ViriditySession`, its display manager and its displays live there.
* The **pages** in the browsers: single threaded, with timers, requests, polls and a
  stream under way at the same time.

The parts call each other directly, by queued calls (`invokeMethod` with
`QueuedConnection`, signals between threads) and by blocking calls
(`BlockingQueuedConnection`) which hold up the calling thread.

### 1.2 Inventory

| part | state it keeps | operations | what is hard | what makes it correct | module |
|---|---|---|---|---|---|
| **Session manager and session life cycle** (`viriditysessionmanager.cpp`) | `sessions_`, `sessionInKillGracePeriod_`; of a session `useCount_`, `testingState_`, `attached_`, `detachDeferTimer_`, `lastUsed_` | `getNewSession`, `getSession`, `acquireSession`, `releaseSession`, `testForInteractivity`, `killExpiredSessions`, `killAllSessions`, `dispatchMessageToHandlers` | increments and decrements are queued while the sweep and the handlers read the count; a set written under a read lock; an `int` written by several threads | a used session is not disposed of, an unused one is; attached follows use | `Sessions` |
| **Message channel** (`ViriditySession`'s pending messages; `handlers/longpollinghandler.cpp`, `ssehandler.cpp`, `websockethandler.cpp`) | `messages_`, `messageHandlersRequestingMessageDispatch_`, `updateCheckTimer_`; of a handler `response_`, `session_` | push, announce, signal, take, pull, write, ping | wakeups between threads; two polls of one client take at once; a poll the client has given up | order, no duplicate, no lost wakeup, delivery | `Outbox`, `MessageChannel` |
| **Channel handshake and client transport** (`js/Viridity.js`, the channel handlers, `handlers/inputposthandler.cpp`) | `connected`, `reconnecting`, `inputEvents`, the method in use; `useCount() == 0` | `info`, `reattached`, `inuse`; connect, reconnect, downgrade, POST | test of the use count and queued increment are two steps; polls and POSTs that overlap; flags that outlive what they stand for | one stream per session; messages of the client in order and once; a page gets connected again | `Transport` |
| **Display and canvas** (`display/graphicsscenedisplay.cpp`, `graphicsscenebufferrenderer.cpp`, `comparer/imagecomparer.cpp`, `js/DisplayRenderer.js`, `handlers/patchrequesthandler.cpp`) | two buffers, `damageRegion_`, `updateAvailable_`, `clientReady_`, `patches_`; `canvas`, `frontCanvas`, `pendingPatchesCount`, `frameEndReceived` | damage, take an update, send a frame, fetch patches, `ready()`, `requestFullUpdate()`, reattach | damage, take and `ready()` in three threads; images that arrive asynchronously; a connection that breaks in the middle of a frame | the client's picture is the server's; one frame at a time; no update is forgotten; convergence | `FrameProtocol` |
| **Image comparer** (`display/comparer/`) | two buffers, fingerprints, damaged areas, successful vectors, count of misses, operations | find differences, cut into tiles, fill or move or image, join | threads share the search's state; fingerprints are stale and collide; rectangles reach over the border; moves whose source is wrong | the operations turn one picture into the other, in any order | `Rectangles`, `Fingerprints`, `Comparer` |
| **Display manager and patch requests** (`display/graphicsscenedisplaymanager.cpp`, `display/handlers/patchrequesthandler.cpp`) | `displays_`, `displayResources_` (use count, last use), `displayMutex_` | new, acquire, release, tear down, sweep of idle displays, destruction | blocking calls under the mutex; a display is released before the patch is taken from it; a silent client's display is swept | counts and tables agree; no display is removed under a request; a connected client keeps its display | `Displays` |
| **Input events and command interpreter** (`js/DisplayRenderer.js`, `display/graphicsscenedisplaycommandinterpreter.cpp`, the adapters) | last button, button down, last key and whether it was posted, time of the last click | mouse, keyboard and text messages to events of the scene | what happens outside of the canvas or gets lost; double clicks timed by the server; a character takes the key of an earlier message | the scene holds what the user holds; text arrives with its keys | `Input` |
| **Scene adapters** (`display/adapters/qtquick2adapter.cpp`, `declarative/viridityqtquickdisplay.cpp`) | adapters by item, `updateRequired_`, the buffer; plain pointers in displays, renderers, interpreters and handlers | change, notify, render, get or create an adapter, remove a display, destroy the item | three kinds of owners; a change while the picture is rendered | the picture catches up; who uses a deleted adapter | `Adapters` |
| **Data bridge** (`viriditydatabridge.cpp`, `js/DataBridge.js`, `qml/Viridity/ViridityDataBridge.qml`) | response ids, callbacks, subscriptions | `sendData`, `localHandleMessage`, subscribe, publish | a subscription ends with a detach nobody tells the client of; pages are loaded again and count from the start | an answer reaches the callback of its question, once; no gap between two confirmations | `DataBridge` |
| **Cache of rendered documents** (`declarative/viridityqmlrequesthandler.cpp`) | cached content and status, `contentDirty` | lookup, render, store, invalidate | the cache is valid before it is stored; a request between the parts of an answer | no stale answer, no answer of two halves | `RequestCache` |
| **Web server, connections and shutdown** (`viriditywebserver.cpp`, `viridityconnection.cpp`, `declarative/viridityqmlwebserver.cpp`) | `connections_`, `connectionMREW_`, threads | listen, open, close, clean up, stop the threads | the main thread waits for threads that wait for the main thread; a timer that is never started | closing ends and nothing survives | `WebServer` |
| **File upload** (`handlers/fileuploadhandler.cpp`) | parser state over chunks; the directory for temporary files | feed, boundary, header, finish | what is cut between chunks; uploads that choose the same name | every part arrives with its data; a file has one upload | `Upload` |
| **Document mirror** (`qml/Viridity/ViridityHTMLRepeater.qml`, `js/DocumentRenderer.js`) | generation of a list, deferred changes; the DOM | insert, remove, change, full update | differential updates against lost messages | the DOM converges to the document | not modelled, see 12 |
| **Routing, rewriting, static files** (`handlers/*requesthandler.cpp`) | rules | match and rewrite URLs | - | - | not modelled, see 12 |
| **Debug handler** | - | statistics, `killAllSessions` | - | - | the kill is an action of `Sessions` |
| **Image encoders, QML wiring, form elements; `src/3rdparty` (HTTP parser, web socket framing), recorder, player, tests, examples** | little, or their own | encode, wire, forward; tools | - | - | not modelled |

### 1.3 How they interact

A browser asks for a page; a request handler finds or creates the session
(`getSession`, `getNewSession`). The page opens a channel (web socket, event
source, or long polls); its handler acquires the session and is told by
`newPendingMessagesAvailable` when there is something to take. Messages come from
`dispatchMessageToClient` (pushed) and from message handlers that announce
themselves with `handlerIsReadyForDispatch` and are asked for their messages when
these are taken (pulled): a display is such a handler. Input comes back over the
web socket or by POST and is a blocking call into the session's thread, where the display
manager, the data bridge and other handlers get it. A display paints when its messages are
pulled, in a blocking call from the connection's thread to the display's; the picture comes from an
adapter in the main thread. Images are fetched by requests of their own. When the last handler
releases a session, a debounce timer detaches it; when nobody has used it for a while the sweep
disposes of it, and with it goes its display manager. Closing the server closes all connections
first, then stops their threads.

## 2. How the project is built

Modules that stand on each other's results rather than on each other's state:

| module | takes for granted | which is shown by |
|---|---|---|
| `FrameProtocol` | a connection keeps the order; a frame's operations rebuild the picture | `Outbox`, `Comparer` |
| `Comparer` | nothing: it extends `Fingerprints`, which extends `Rectangles` | |
| `Outbox` | a session that is not disposed of while a handler holds it | `Sessions` |
| `Transport` | messages written to a stream or poll arrive in order | `Outbox` |
| `Displays` | messages of a page are handled one at a time, in the session's thread | `Transport` |
| `DataBridge`, `Input` | the channel is a queue each way, of which parts get lost | `Outbox`, `Transport` |
| `Adapters` | the display's part of an update | `FrameProtocol` |

`Outbox` implements `MessageChannel`, an abstract specification of what a session promises to those
who send messages, by a refinement mapping that is checked as a property and proved. Each module has an
MC module and one configuration, except `MessageChannel`, `Rectangles` and `Fingerprints`, which are checked
through the modules that use them. The theorems are in modules `...Proofs` of their own: one
for each of `Sessions`, `FrameProtocol`, `Outbox`, `Comparer`, `Displays` and `Transport`; `InteractionProofs` has those about
`Input` and `Adapters`, `ServerProofs` those about `WebServer`, `RequestCache`, `DataBridge` and `Upload`. Modules that share one have names with a
prefix (`CacheSpec`, `BridgeSpec`, `AdaptersSpec`, ...), so that it can extend them all.

The runs:

| run | instance | distinct states |
|---|---|---|
| `sessions_threads` | 1 session, 2 handlers, each in a connection thread of its own | 668 455 |
| `frames_connection` | 2 tiles, 2 colours, images to be fetched, 1 change, 1 broken connection, 1 failing image | 1 322 403 |
| `outbox_delivery` | 1 polling and 1 streaming connection, 2 messages of each source, 1 request given up, 1 dormant client; a stream may start the session | 370 846 |
| `comparer_frames` | a 5 × 4 picture, 6 scenes, 8 settings, 2 threads, 3 frames | 684 035 |
| `displays_manager` | 1 target, 2 display objects, 2 patch requests | 37 239 |
| `transport_page` | 3 methods, 2 messages, 1 fault, 2 visits of another tab or the sweep, 3 polls at a time | 246 181 |
| `databridge_calls` | 2 sessions, 1 calling page, 2 calls, 3 calls of the server, 1 fault | 4 379 314 |
| `webserver_close` | 2 connections, 2 threads, 1 session with displays, 1 start | 36 418 |
| `cache_document` | 3 requests, 3 versions of the document | 224 798 |
| `upload_files` | 2 uploads, of 2 parts (the first one ends with white space, the second has a header of 1 KiB and a colon in its name) in 4 chunks and of 1 empty part in 2 chunks, 2 values of the clock | 1 125 285 |
| `input_events` | 2 buttons, 2 letters in both cases with and without Shift, 1 special key, 6 actions of the user, 2 messages on their way | 3 142 216 |
| `adapters_item` | 2 displays of an item, 2 adapter objects, 3 versions of the scene, 1 resize | 1 805 193 |

`CHECK_DEADLOCK FALSE` stands in the configurations of systems that may really stop: a bound is used
up, the server is closed, everything is answered.

**The plan, and what is left of it.** Done: everything the first plan named but the document mirror.
What would be worth adding: a composition of `Displays` with `FrameProtocol`, in which a display that is removed
takes its patches with it; the locks of the web socket handler in `Transport` (see 12).

## 3. `Sessions`: life cycle and use counts

**State.** `object` is the life of a session object: constructed by the manager's
thread, in `sessions_` ("managed"), removed by the sweep ("disposed") or by
`killAllSessions` ("killed") with `deleteLater` queued, destroyed. `posted` is the
part of the session thread's event queue that belongs to the session: increments,
decrements, client messages a connection thread waits for, and the deletion.
`held`, `seen`, `linked` and `step` belong to a *user*, a channel handler:
`session_`, the pointer a lookup returned and the handler still uses, the sessions
whose `destroyed()` is connected to it, and where it is in a call that takes more
than one step. `ThreadOf` maps handlers to connection threads; two handlers of one
thread do not run in the middle of each other's calls.

**Steps.** A call is one step where it holds a lock or runs in one event; it is cut
where another thread can get in: `createSession` and `getNewSession`, the lookup and
the insertion into the grace period's set (a write under the *read* lock, so two of
them race and one may be lost), load and store of `++testingState_`. Time is
`expired[s]`, "not used for `sessionTimeout_`"; a running timer may fire whenever.

**Fairness.** Event queues are served, armed timers fire and code between two turns of
the event loop ends: weak fairness. The cleanup timer is periodic, and
`tryLockForWrite` fails only while a lookup is inside its few instructions, so a
sweep that is possible again and again happens: strong fairness. No fairness is asked
of the users: a handler may keep a session for ever.

**Properties** (`sessions_threads`).

* `UseCountBalance`: the count is the number of handlers whose increment was executed and whose decrement was not,
  and a handler with nothing in the queue is among them exactly when it holds the session.
* `AttachmentFollowsUse`: detached is neither missed nor premature.
* `ExpirySparesCountedHolders`: the sweep takes a session only from a holder whose increment is still queued.
* `GraceProtectsLookup`: the pointer `getSession` returned survives one sweep.
* `UnusedSessionsAreDisposed`: a session nobody holds or looks at does not stay for ever.

The last two have the premise that `UpdatesApart` always holds: `sessionInKillGracePeriod_` is written under a
*read* lock and `testingState_` is a plain `int`, so that of two writes at once one may be lost. The model has
these lost updates, and without the premise both properties fail: a pointer may not survive the next sweep, and a session whose
`testingState_` lost a decrement is never disposed of.

**Bounds.** `MaxPosted = 2` events per session let an acquisition and a release, of one handler or
of two, be queued together; the reserve for `deleteLater` is always there. `MaxTesting` bounds how far
the lost updates may carry `testingState_`. Two handlers are the smallest number that races; a third adds no
new kind of event. One session: sessions share only the grace set and the sweep, which treat each session by itself.
`Reused = FALSE` keeps a connection to one session. With `TRUE` the code fails: `destroyed()` of
an earlier session makes the handler forget the session it serves now without releasing it
(`handlers/longpollinghandler.cpp:198`), and `UnusedSessionsAreDisposed` does not hold.

**Proved** (`SessionsProofs`, for any finite sets of sessions and handlers and any
bounds):

* `TypeCorrect`: `Spec => []TypeOK`, with `StepOK` (a handler in the middle of a call has the
  session the call is about).
* `UseCountCorrect` and `AttachmentCorrect`: for connections that do not serve a second session
  (`~Reused`, see above). `UseCountBalance` speaks of handlers
  with nothing in the queue and is not inductive. The invariant adds `InFlight`: the
  events a handler has in a session's queue alternate between increment and decrement,
  the first one toggles whether it is counted and the last one ends at whether it holds
  the session (`Fits`); `CountOK`: the count is the number of those counted;
  `Creating`, `LinkedToOne` and `Quiet` fix what has no events. The lemmas
  `FitsAppendOwn`, `FitsAppendOther`, `FitsTailOwn` and `FitsTailOther` say how a queue keeps
  this shape, and each step of the specification appends to, or takes from, one queue.

* `ExpiryCorrect` (for `~Reused`): the sweep reads the count the invariant above keeps equal to the number of
  the counted holders, and takes a session only when it is zero (`OnlyUnusedDisposed`).
* `GraceCorrect`, whatever `Reused` is, under the premise `[]UpdatesApart` the property itself states. The
  property is not inductive: it says nothing of a session another handler is still making known, nor of the
  deletion in a queue. `GraceInv` adds `DeletionFollowsRemoval` (deletion is posted to removed sessions only, and
  a session that is made known belongs to one handler) and `LookupIsSpared` (a session looked up since the last
  sweep is in the grace set, or its handler is about to put it there).

Only model-checked: the liveness, `UnusedSessionsAreDisposed`.

**Left out**: broadcasts to all sessions, user data, the statistics, the choice of the
session's thread, and what a message handler does with a client message.

## 4. `FrameProtocol`: frames, patches and the canvas

**State.** On the server: `work` and `other` (the two buffers), `damage`,
`updates` (of the renderer), the update timer, `updateAvailable`, `clientReady`,
`fullUpdateRequested`, the frame number, and `patches`, the encoded images a
client has not fetched. In the browser: `canvas` and `front`,
the pending images with those whose data is under way, and the flags of
`_determineReadyState`. `down` and `up` are the two directions of a connection, which
keep the order (that is what `Outbox` is about) and lose everything when it breaks.

**Steps.** Two operations are long, run in different threads and share most of their state without a lock, so
each of their steps is an action:

* `takePendingMessages`, in the thread of a connection; `taking` says how far it is. `CheckUpdateAvailable` is the check under
  the lock, `ClaimUpdate` the reset of the flag, `PaintUpdatesToBuffer` the blocking call into the display's thread,
  `FindUpdateOperations` the comparison of the buffers, `BeginFrame` the new frame number and `clientReady_ = false`,
  `ReadFullUpdateRequested` the one look at `fullUpdateRequested_`, `EmitOperation` one operation that becomes a message
  (an image is encoded from the buffer and, unless it is inline, inserted into `patches_`), `EndFrame` the rest.
* `requestFullUpdate`, in the thread of the session; `fullUpdating` says how far it is. `FullUpdate` clears the patches if
  forced and blanks the buffers, `FullUpdateReady` calls `clientReady()` if forced, `FinishFullUpdate` sets the flag. It holds
  the mutex of the patches to its end: what takes that mutex, and what needs the display's thread, waits.

**Histories.** `overtaken` holds the frames during whose making `clientReady()` ran: after `BeginFrame`, before `EndFrame`.
`unmarked` holds the frames whose messages say nothing of a full update that was being requested when they were complete.
No action reads them.

**Abstraction.** A rectangle of the comparer is one of a few tiles, and a tile shows
a colour; a colour is drawn as a fill if it is in `Solid`, otherwise moved from where
the client shows it already, otherwise sent as an image, inline or to be fetched
(`Inline`). Rectangles do not overlap and the comparer finds every difference: that is
what `Comparer` shows (`DrawnOnce`, `OperationsRebuildPicture`). The operations are found in one step: a full update
comes before or after the comparison of the buffers, not in the middle of it. A size that differs damages
everything; the buffers' pixels outside the old size are not told apart, and the
`resize` a client sends after a reattachment names the size the display has. A connection does not break in the
middle of `takePendingMessages` or of a request: what it would lose is lost when it breaks afterwards.

**Fairness.** The display's timer and event loop, the connection thread, the delivery of
messages and image requests by the browser, and the client's attempts to connect again:
weak fairness for each. The scene, the element's size and the connection may rest.

**Properties** (`frames_connection`).

* `FrameRebuildsPicture`: the operations of a complete frame, applied to what the client has, give the buffer of the server
  (with the type invariant).
* `OneFrameAtATime`: a frame is begun only when the client has nothing of the last one left to do.
* `PatchesOfOneFrame`: encoded images do not pile up.
* `NoLostUpdate`: damage, take and `ready()` in three threads never leave a ready client without the wakeup for what
  it has not got.
* `Converges`: in the end the client shows the scene, also after an image failed and a size changed.

**What they except**, because the code does not keep it there. Without any of these exceptions TLC finds the
property violated (`Converges` without that of `overtaken` on an instance with 2 changes whose connection does not break).

* *A frame that is overtaken.* The client has given up a frame and asks for a forced full update (an image failed) or for its
  display again. If this is handled between the `clientReady_ = false` of a frame and its end
  (`display/graphicsscenedisplay.cpp:340` to 452), the client counts as ready for the next frame before it
  has been sent this one (against `OneFrameAtATime`), the patches inserted afterwards lie there while the client counts
  as ready (against `PatchesOfOneFrame`), the timer finds them and stops without a wakeup (against `NoLostUpdate`), and
  when the next frame starts with images of this one pending, the client's `pendingPatchesCount` ends up below zero and it
  never sends `ready()` again (against `Converges`); what the server takes for the client's picture is then not that
(against `FrameRebuildsPicture`). `PatchesOfOneFrame` and `NoLostUpdate` except the frame itself, the
  others every run with one (`Undisturbed`).
* *A full update requested too late for the frame under way* (`unmarked`). `fullUpdateRequested_` is read once, at line 360. If
  it is set after this, the frame goes out without `fullUpdate`, the client, which waits for that message, throws the frame
  away and never answers; the display waits for its `ready()`. Against `Converges`.
* *A full update in the middle of a frame.* It blanks the buffers the frame is found in and encoded from; the frame shows
  something of the blank picture. The next one repairs it: `FrameRebuildsPicture` leaves such a frame out, `Converges` does not.
* *A connection that broke.* `PatchesOfOneFrame` and `NoLostUpdate` hold whatever happens to the connection. For the others
  it has not broken yet. Without this `Converges` fails in three ways:
  (a) `requestFullUpdate(true)` after a reattachment returns early while an earlier full update is unanswered
  (`display/graphicsscenedisplay.cpp:459`), and the answer to that one was lost with the connection; (b) images of the
  broken connection, or of a frame sent before `newDisplay` was handled, count for the next frame
  (`js/DisplayRenderer.js:354`), so that `pendingPatchesCount` ends up below zero and no `ready()` is ever sent; (c) a new
  session starts with the frame number the client had last, so `frameEndReceived` stays set and `ready()` comes in
  the middle of a frame.

**Bounds.** Two tiles are what a move needs, two colours distinguish a fill from an image or a move; the
scene starts with one tile of each. `MaxFrames = 5` and `MaxLateFrames = 2`, the bound once the connection has broken, keep the state
space finite: the first is never reached while the connection lives, the second cuts off runs that the properties with a
connection in their premise say nothing of. One disconnection may come in the middle of anything but a request, with the old or a new session
afterwards. A failing image or a reattachment brings the full update that meets the steps of the next frame.
Inline images (`Inline = TRUE`) leave out the fetching and are not part of this run; the theorems hold for both.

**A known limit of the checks.** The scenes of the runs draw every tile opaque. A full
update blanks the work buffer to transparent, and the next comparison is with this
blank picture: what the scene draws transparent counts as unchanged and is not sent,
although a client that has given up a frame may show something else there. With `Clear`
among the colours `FrameRebuildsPicture` fails for this reason; no run covers it.

**Proved** (`FrameProtocolProofs`, for any tiles, colours, frames, changes, broken
connections):

* `PatchesCorrect` and `NoUpdateIsLost`. The two rest on one invariant, `FlowInv`: both properties, and `TakingInOrder`, what
  holds at each step of `takePendingMessages`: until `BeginFrame` the client is ready and there are no patches; from then on
  it is not, or the frame is overtaken. Without it the patches of a new frame could not be told to belong to the last one.
* `FramesAreSentOneByOne`, that is `OneFrameAtATime`. The invariant `ProtocolOK` follows a frame on its way: at most one is, and
  what the messages between server and client (`RequestsOK`, `DownOK`), the flags of the client and its pending images
  (`LoadingOK`) say of it agrees. A frame that is being made is not on its way yet, whatever its number and `clientReady` say already:
  the invariant speaks of `LastSent` and `Idle` instead of them, so that the steps from `FindUpdateOperations` to `EmitOperation` leave
  it alone. `UpdatingOK` says whose full update is being prepared.
* `FramesRebuildThePicture`, that is `FrameRebuildsPicture` with the types. The invariant `PictureOK` follows the picture through the
  steps: what a painted buffer and the rectangles found say of the client's (`PaintedOK`), then the operations
  (`MadeOK`), then the messages and the loading images (`FrameOK`), until both pictures are the same (`ShownOK`), unless a full update
  starts them from scratch (`Restarted`, `FromScratch`). It has the hypothesis
  `Clear \notin Color`, the known limit above; TLC shows the property to fail without it. The set of tiles is finite (`TileAssumption`).

Only model-checked: convergence.

## 5. `Outbox` and `MessageChannel`: from the application to the client

**State.** `calls` is the queue of the session's thread: `sendMessageToClient`
and `handlerIsReadyForDispatch` are queued when the caller is in another thread.
`messages` and `requesting` are what `pendingMessagesAvailable` looks at, `timer` is
`updateCheckTimer_`, whose timeout emits `newPendingMessagesAvailable`. `linked`,
`response`, `held`, `notified`, `dormant` and `pc` belong to a channel handler, one for
each connection; `Polling` says which serve long polls. `gone` means that the client
has closed the connection and the server's socket has not told yet. `answer` has what
was written and not received.

**Steps.** `takePendingMessages` is cut in two, as its lock is: first `messages_` and the list of
announced handlers are taken under it, then the handlers are asked for their messages without
it. A poll's response ends when something was written (`pushMessageAndEnd`), a
stream goes on. A handler whose client has gone stays linked as long as its
response is open: this is how a poll the client gave up goes on competing.

**Abstraction.** A message is its source and its number. The message handler that is
asked is one; a second one would be a second source with the same steps. The handshake
is left out (`Attach` stands for a request that finds its session; a stream attaches
only to a session that nobody uses, as the handlers check), and a stream the
session closes because the client is silent is a `GiveUp`. A session begins with a client that
polls, or with the stream that started it, whose handler is `connecting` until
`ConnectNewSession` has linked it: until then timeouts of the session's timer reach nobody.

**`MessageChannel`** promises, for each source, that messages arrive in the order they
were sent, each at most once, in batches that may mix the sources, and that none gets
lost unless the way is `Lossy`. The refinement mapping puts the way to the client
together: what is written to the connection the client waits at, what its handler has
taken, `messages_`, what the message handler holds, and the calls in the queue. Messages taken for a
connection the client has left are lost in the abstract channel at that moment.

**Fairness.** The session's event loop, each handler's event loop, and a client that polls again and
receives what has arrived. A client may also give up a request, without fairness.

**Properties** (`outbox_delivery`).

* `NoLostWakeup`: while something is pending, the timer that signals it runs, or the waiting handler has been told or
  is about to look. There is one exception, which the history variable `overlooked` records: the handler of an event source that has
  started a session returns without a look (`handlers/ssehandler.cpp:100`; only a reattached one looks, `:84`), so what
  was signalled before it was connected waits for the next message.
* `ImplementsChannel`: order and at most once, with two handlers that take at once; lossy only because a request may be
  given up.
* `EveryMessageIsDelivered`: if the client gives up nothing, and the event source is not left with what it has overlooked (a later
  message ends that), it gets everything.

A request given up does lose messages: its handler still takes them and writes them to a closed socket
(`handlers/longpollinghandler.cpp:182`). That is why the delivery has the premise that nothing was given up.

**Bounds.** Two messages of a source are what can be swapped or repeated; a connection for polls and one for a
stream are the two kinds that meet, and a page that falls back from one to the other has both; one request given up leaves
one handler that competes.

**Proved** (`OutboxProofs`, for any handlers, polls or streams, and any bounds): `TypeCorrect` (in particular, a
thread that takes messages never finds an announcement among them) and `NoWakeupIsLost`, that is
`Spec => []NoLostWakeup` with its one exception. The invariant of the latter adds that a handler with an open response is linked to the session's
signals (`WaitingIsLinked`): without it the timer could fire and tell nobody.

`ChannelImplemented` proves the refinement, `Spec => ImplementsChannel`. What is pending in the abstract channel is a set of numbers for each
source, as an order of sending is an order of numbers. The proof needs that the stages on the way to the client are in this order (what is
nearer to the client was sent earlier) and that no message is in two of them. Each step then moves messages from one stage to
the next, which the abstract channel does not see, or adds, delivers or loses some, which are its three actions.

Only model-checked: the delivery.

## 6. `Comparer`, `Fingerprints`, `Rectangles`: from a picture to operations

**State.** `before` and `after` are the buffers (`*otherBuffer_`, `*workBuffer_`), functions
from pixels to colours. `phase`, `areas`, `rects`, `tiles`, `leftovers` and `minified` are the
local variables of `updateBufferAndGetUpdateOperations` and `findUpdateOperations`: the
rectangles that differ, those not searched yet, the tiles of the one that is searched. `searching`
are the tiles for which a thread of the pool is in `MoveAnalyzer::processRect`, with the vectors and the flag
it has read. `prints`, `damaged`, `vectors`, `misses` and `enabled` are the move
analyzer's and live from frame to frame. `settings` is chosen when the display is created.

**Steps.** `PaintUpdatesToBuffer` swaps the buffers, renews the fingerprints of what was
searched in the last frame, paints one of `Scenes` and finds the differences.
`FindUpdateOperations` takes the next rectangle, `FindMoveOperation` searches in fine grained mode
(one thread, a tile at a time), `SplitLeftovers` cuts what it left. A tile is two steps of a thread:
`ProcessRect` up to the search and `FinishSearch`, with other threads in between; without
multithreading tiles go in order. `OptimizeUpdateOperations` (or `UpdateRects` without minimized damage) ends the
frame. `FullUpdate` blanks both buffers and tells the analyzer nothing.

**`Rectangles`** has what `tiles.cpp` does with rectangles, and the part of `QRect` and `QRegion`
it uses: a region is a set of pixels and gives one rectangle for each run in a row. `QRegion`
may give several equal rows as one; these are the rows `verticallyUniteRects` joins
in any case. **`Fingerprints`** has the sums of `areafingerprint.cpp`, with a `quint32` of a few
values (`Modulus`), the search for a template in a column, and the comparisons of `imageaux`.

**Abstraction.** The operations of a frame are a set: their order is that of the threads and of hash
tables, and the client draws images when they are loaded, so nothing may depend on it. A rectangle outside of the picture may
occur several times in the code's list and is one element of the set. The exhaustive search does
not clip a template: what it reads outside of the buffer is undefined, so the place where that memory
matches, if at all, is chosen freely (`wild`). Vectors have no extent, as in the code, which always sets it to zero.
The code does not keep a full update from blanking the buffers in the middle of a frame; `FullUpdate` comes between two
frames here, because what a frame gives is only said of buffers that rest. `FrameProtocol` has the full update in the middle.

**What the code does at its borders**, and the model with it: the grid of `TiledRegion` is a pixel too
wide, so that areas overlap the next tile by a column and a row, and there are tiles outside of the
picture; `findChangedRect32` of these is four pixels around the origin (`Corner`), which become a tile, a fill
or an image of their own. `indexOf` compares all but the last two rows, and never finds a template of two or three
rows. The fingerprints of the last column are never renewed. All of this costs moves or sends a few
pixels more; the properties show that it does not cost the picture.

**Properties** (`comparer_frames`): `FoundOperationsAreRight`, with the type invariant: at any time each operation found draws
nothing but the new picture; `OperationsRebuildPicture`: also after joining, and what changed is drawn; `DrawnOnce`:
no pixel is drawn by two operations, except in the corner; `SearchGivesUp`: the misses of all threads stop the search at the
threshold and not before.

**Bounds.** The picture is no multiple of the tile sizes 2, 3 and 4 in its width, nor of 3 in its height, so that there are
remainders at the right and at the bottom. The scenes scroll a document by two rows, shift it by a column, cover it with one colour and
change it in opposite corners; three frames let a vector and a fingerprint be two frames old. The settings are
those that lead to each way of searching: tiles of 1 to 4 pixels (of one row, of a height the fingerprints never find, of four
rows), fine and coarse moves, with and without threads, fills, minimized tiles and minimized damage. `Modulus = 4` makes sums
overflow and collide. A threshold of two misses is reached by two threads at once.

**Fairness.** None: a frame's steps are a function call, and the properties are safety properties.

**Proved** (`ComparerProofs`), for any pictures, sizes, thresholds, threads and radii:

* `TilesPartitionRect`: the tiles of `splitRectIntoTiles` are not larger than asked for, have all pixels of
  the rectangle and no others, and are disjoint. Tiles are numbered row by row; `TileNumbers` and `TileOfNumber` go
  from a number to a column and a row and back, and `DivisionIsUnique` puts each pixel in one of them.
* `UnitedRectsPartitionRegion`: the rectangles a region is given by, and is united to, have its pixels and no others, each
  once. `VerticallyUniteRects` is a loop, and what holds after each of its steps is shown by an induction over
  their number (`UpTo`, `Recursion`), which needs no theorem with an operator parameter: a
  number at which it fails would have a smallest one (`MinFrom`). The step (`UniteOne`) is that the rows come from top to
  bottom, so that a row can be adjacent to one rectangle at most, from below.
* `DifferencesAreFound`: the rectangles of `findDifferences` are disjoint and have all that differs.
* `SearchFindsThePicture`: a move that `Search` finds has its source in the picture
  and draws the new picture, *whatever the fingerprints contain* and whatever vectors and areas are searched. It
  follows from the comparison that confirms a position (`ConfirmedPositionsShow`, `AllVisibleIsInside`), and is why stale
  prints and shared vectors are harmless. For a tile that lies outside of the picture, in the corner, the
  exhaustive search compares the pixels that are inside (`RawPositionsShow`), and the fingerprints never find it (`CornerIsNotConfirmed`).
* `OptimizedOperations`: joining operations by kind, vector and colour leaves what they draw, and draws it once.
* `FoundOperationsAreRightCorrect`, `OperationsRebuildPictureCorrect`, `DrawnOnceCorrect`, `SearchGivesUpCorrect`: the four properties,
  for all settings.

The inductive invariant (`Inv`) divides the pixels among `Todo` (rectangles not looked at), `Work` (tiles, leftovers and searches)
and `Drawn` (the targets of operations). `Covered`: what has changed is in one of them; `Apart`: none is in two, except in the
corner, which stands for all that is outside and may come again. Without `Apart` a step could draw what another
thread still has to draw, and `DrawnOnce` would not be inductive; without `Covered` nothing said that a tile that is dropped did not change.
`OperationsOK` has that each operation is right on its own, so that the order does not matter, `CountsOK` that each thread
that has begun can add at most one miss (`ThreadMissesOnce`), `PlacesOK` that tiles and their minimized rectangles
are where a search may look and have all that changed (`HasChanges`). `PhaseOK` says which of this exists in which
phase, and `AnalyzerOK` nothing about what the fingerprints are, only their type. That TLC finds no state without `Inv` was checked on the instance of
`comparer_frames` before it was proved.

**Left out**: a size or settings that change while a display is used (`setSize`, `setSettings`), `pushFullFrame`, the
gray scale search and the threaded update of the fingerprints, which are not built or not called.

## 7. `Transport`: a page and its session

**State.** `page` is the `Viridity` object of the browser: the method (`ws`, `sse`, `lp`), the flags `connected`,
`reconnecting`, `inputEventsStarted` (`started`) and that of the first disconnect, the reconnect timer, and the two chains
of timers that carry it: senders and pollers. `gets` and `posts` are the requests under way, abandoned ones
included as long as the server works on them; `stream`, `wire` and `down` are the stream in use. At the server, `use` says who
uses the session: the handler of the page's stream, that of an earlier one nobody closed, another tab. `handled` is what the
handlers of the session were given.

**Steps.** Each callback of the page is a step, each request of the server up to the point where the increment of the use
count is posted, and the increment itself (`CountUser`). `testForInteractivity` is one step: it waits
up to five seconds and ends with what the others did meanwhile. A message is its number; a batch
of several is single ones.

**Properties** (`transport_page`).

* `HandledOnceInOrder`: no message twice, whatever fails; in the order they were sent, unless a POST was abandoned or under
  way when the page lost its connection (a sender started by the reconnection overtakes it).
* `StreamsExcludeEachOther`: two streams use a session only if the second was admitted while the first one's increment was
  queued. The code has this race (`handlers/longpollinghandler.cpp:82`); the property says that there is no other way. With the type
  invariant.
* `PageRecovers`: again and again the page is connected or has been told that its session is in use, but for
  one case (`cancelled`): any message ends a reconnection, also a late answer to an old poll (`js/Viridity.js:431`), and then nothing
  connects the page.
* `QueuedMessagesAreSent`: what a connected page queued is sent or the page is disconnected first, but for two cases in which
  `inputEventsStarted` is set and no sender runs: one of two overlapping handshakes is refused and the other connects
  the page (`refused`); a message of the event source arrives after a POST failed and before the page is connected again
  (`stranded`).

The exceptions are history variables that are set by the step that goes wrong, so that each property says exactly which
case is lost. Other facts the model has from the code: the first disconnect always downgrades the method; a web socket
is not connected to `releaseRequired`, so an interactivity test does not free its session; a POST for a session that no longer
exists makes a new session, and its messages are lost; a refused web socket has no session, so that its messages are broadcast
to all sessions, the one of the page among them. Not in the model: two handshakes of a page for an expired session that overlap make
two sessions (`handlers/longpollinghandler.cpp:127`); the page goes by the id it is told last, and the sweep takes the other one.

**Fairness.** Timers fire, requests end, queued calls are executed: weak fairness. `CloseSilentStream`, the session's
check for a silent client, is periodic but not enabled while messages arrive: strong fairness. Faults, visits of another tab
and messages have none.

**Bounds.** Two messages can be swapped; one fault makes a page reconnect and the messages of before meet those of
after; three polls are the one given up, the one of the reconnection and one of the other chain.

**Proved** (`TransportProofs`, for any methods, numbers of messages, faults and visits): `MessagesAreHandledOnceInOrder`, from an
invariant about where each message is (in the queue of the page, in one POST or on the wire of the web socket, or handled) and in which order;
`SecondStreamRaces`, that is `StreamsExcludeEachOther` with the types, from one that counts who is counted as a user of the
session and whose increment is on its way. Only model-checked: the liveness, `PageRecovers` and `QueuedMessagesAreSent`.

## 8. `Displays`: the displays of a session and the requests for patches

**State.** `displays` and `useCount`/`idle` are the two tables of the manager, `object` the life of display
objects; `call` is what the manager's thread does under `displayMutex_`, cut where it makes a
blocking call into the main thread to build or tear down a display. A patch request is a reader with its `step` and
`pointer`: it acquires and releases a display in two short sections and *then* takes the patch from it
(`display/handlers/patchrequesthandler.cpp:86`). A page is attached or not, and may have one message on its way.
The clock ticks every 60 seconds, the interval of the clients' `keepAlive()` (`js/DisplayRenderer.js:164`); the sweep
removes displays idle for more than 120 seconds.

**Properties** (`displays_manager`). `RegistryAgrees`: both tables name the same, living displays, counts are the
numbers of holders. `PatienceProtectsPatch`: a released display is there for two more periods, so that a request
that takes less than that to get its patch is safe, although nothing holds it. `KeepAliveProtectsDisplay`: a page that
stays connected and loses no message keeps its display, though neither picture nor user moves. `UnusedDisplaysAreRemoved`:
the display of a page that has gone is removed in the end.

**Fairness.** Event loops run (weak); posted messages, the sweep's timer and the readers get the mutex now and then
(strong: a `QMutex` is not taken for ever by the others, and an event loop starves nobody); time passes (strong: a tick waits for the
message of the period, which is handled or lost).

**Bounds.** One target with two display objects: an old one that is torn down and a new one under the same id; two
readers, so that one may acquire while the other one releases. Displays of other targets are treated each by itself.

**Proved** (`DisplaysProofs`, for any targets, displays and a finite set of readers): `TypeCorrect`, `RegistryCorrect`,
`PatienceCorrect`, `KeepAliveCorrect`. The invariant adds `CallAgrees` (what is in hand under the mutex: a new display
nobody points to, a removed one that is no longer registered, a destructor that does not let go before nothing is left),
`PointersAgree` (a request that holds a display finds it registered), `PatienceIsBounded` (the clock of a released display
does not run ahead of the waiting of the request: either it was used since, or two periods have gone) and `PageIsHeard` (the
display's clock shows at most what the next message of its page will reset). Without `PointersAgree` the count could be that of
holders of a display that has left the tables. Only model-checked: the liveness.

## 9. `Adapters` and `Input`: between a display and its scene

**`Adapters`.** The main thread has the item, the scene's version, the adapters and the buffer a rendering fills; the session's
thread has the displays with their renderers and the handlers of `resize()` messages. An adapter is found by its item or made,
is shared by the displays of the item, and is deleted with the *first* of them that is removed
(`display/graphicsscenedisplaymanager.cpp:383`), or soon after the item. All others keep plain pointers. The model notes
each use of a deleted adapter in `misuse`.

`PictureCatchesUp` (with the type invariant): a display that has nothing to do shows the scene as it is, unless
the scene last changed while it was rendered: `updateRequired_` is reset when the rendering is done
(`display/adapters/qtquick2adapter.cpp:498`), and a change announced meanwhile is not rendered until the next one.
`OnlyOldHandlersMisuse`: while the item lives and no display lost its adapter to another one, only the handlers of `resize()` that
a removed display left behind use a deleted adapter. The premises name the code's other cases: an item destroyed
while it is shown leaves displays and interpreters with a pointer that is used and deleted a second time; of two
displays of an item the first that is removed deletes the adapter under the other one. And the sequence new display, remove, new
display, `resize` reaches the handler of the first one, a child of the item, with the deleted adapter. The second display of an
item gets no size handler at all. One session's thread is modelled; safety only, so there is no fairness, and displays and
adapters are interchangeable.

**`Input`.** The user presses and releases buttons and keys, inside and outside of the canvas; the page sends a message for each event of
the canvas; the interpreter and the adapter (`quick` or `graphics`) turn messages into events of the scene. Any message may be
lost, with the connection that carries it.

`SceneHoldsWhatUserHolds` (with the type invariant): once everything was handled the scene takes for pressed what the user
presses, but for buttons the server cannot know of (`disturbed`: changed outside, pressed together, or a message lost), and a click
with nothing else pressed puts that right; a dragging button is one the scene takes for pressed. There is one more exception, for graphics
scenes: `buttons()` of a release, and of the double click the browser sends behind it, still has the button
(`graphicsscenedisplaycommandinterpreter.cpp:123`, `qgraphicssceneadapter.cpp:171`), so the scene is told that it is pressed until the next move tells
that none is (`stale`, `Lingers`).
`DoubleClicksAreTwoClicks`: undisturbed, a double click comes of two clicks, neither of which was part of another
one. `TypedTextArrives`: a character arrives with the key that typed it, unless the message of that key was lost, and in its case,
unless Caps Lock had a part in it (`caps`): `textForKey` makes the case from Shift alone.
`lastButton_` and `keyDownKeyCode_` are not initialised in the code, so they begin with any value. Facts in the
model that no property is about: special keys are released with the browser's key code; the graphics adapter gets the browser's
own double click after the release, besides the press and release of it; digits of the number pad get the key codes of letters.
Touch events, positions, modifiers but Shift and the text area for mobile browsers are not modelled.
Six actions are three clicks, one more than make a double click; two messages on their way let the first of the two that belong together
be lost. For any number of either there are the proofs.

**Proved** (`InteractionProofs`). For `Input`, any buttons and keys, any number of actions and of messages on their way: `SceneFollowsUser`,
`DoubleClicksAreSound` and `TextArrivesWithItsKey`. The invariant is about the messages on the wire: presses and releases
of an undisturbed button take turns (`TurnsOf`), beginning with the one the scene expects and ending with what the user holds;
a double click of the browser comes right behind the release it came with; moves tell buttons that are held
(`MovesAreSound`), and one that tells of none finds none held that is undisturbed (`AdapterKnows`); a button lingers only while none is down
(`StaleIsReleased`). For `Adapters`, any displays, adapters and versions: `PicturesCatchUp` and `OnlyOldHandlersMisuseAdapters`. There the
invariant is that an item has one adapter, renderers follow their displays, and a picture or a view that is not the newest is noted
where it will be renewed (`PicturesAreNewest`, `OldPictureIsNoted`, `ViewsAreNewest`); what is used still exists (`UsedObjectsExist`).
`AdaptersAssumption` asks for one version of the scene at least, the one that is there at first.

## 10. `DataBridge` and `RequestCache`: data of the application

**`DataBridge`.** The bridge of the global logic sends to the sessions that subscribed, that of a session's logic to its
sessions; pages call both. `responseId`, `waiting` and `counter`, `pending` are the numbers and callbacks of both sides,
`toServer` and `toClient` the channels. A call has a name besides its number, so that answers can be told apart.

`AnswersMatchCalls` (with the type invariant): a callback is called with the answer to its own call, and once, whatever is lost
and whoever answers first, except in a page that was loaded again: it counts from one, while answers to the former page may wait for
it in the session. `NoGapWhileSubscribed`: between two confirmations of its subscription a page misses nothing but what was sent before messages for
it were lost on their way (`LoseBatch`: the answer to a poll it gave up, a stream that broke); `lostAt` records how far the bridge was then. What is sent
later arrives without a gap, and nothing tells the page of the loss. Facts that
limit what is promised: publishing drops subscribers found detached (`viriditydatabridge.cpp:164`), and a page that was only away
between two slow polls is not told; the result of a publication is that of the last subscriber. The subscription to end one
(`dataUnsubscribe`) is sent by no client and left out. Two sessions, one fault (a detach, a lost message or a page loaded again), two calls
each way with at most one message waiting when another one is sent: what two numbers can be mistaken for. Safety only.

**Proved** (`ServerProofs`, for any sessions and bounds): `AnswersFindTheirCalls`, with the types, and `SubscribersMissNothing`.
The first one rests on `NumbersInv`: each message on its way carries a number that the page it belongs to has counted, and what is pending under that number is
the call the message is about (`PageNumbers`); what the server sends has its own numbers (`ServerNumbers`); a subscription takes a number no callback
is pending for. The second one needs an invariant over a whole queue: there is a sequence of numbers the page will have seen, one after each
message that waits for it, which begins at what it has seen, goes up by one or starts over with a confirmation, and for a
subscriber ends where the bridge is (`NoGapIsSent`). Each step appends to this sequence (`SeesMore`) or takes from it (`SeesRest`). A loss leaves some of the messages, all from
before it, and starts another sequence, from which the page is apart only up to `lostAt` (`LossLeavesNoGap`).

**`RequestCache`.** A QML request handler answers from its cache, on a connection's thread, or posts the request to the main thread,
which renders the document, answers and stores the content, then the status. The cache is valid while the document is not dirty, so from
the end of the rendering, *before* it is stored (`declarative/viridityqmlrequesthandler.cpp:295`), and without being stored at all
when the document was rendered for an update (`qml/Viridity/ViridityHTMLSegment.qml:155`). `CacheFollowsDocument`: between two requests a valid
cache is whole and newest, unless the last rendering was such an update. `AnswersAreCurrent`: an answer is whole, and not older than its
request, unless the request met a rendering that was not stored yet. `EveryRequestIsAnswered`, as long as the handler lives.
The main thread takes the requests posted to it in order, so none waits for ever (`SF` for the start of each, as others come in between), and the
threads go on (`WF`). Three requests: one that renders, one that reads status and content around it, one that came earlier.

**Proved** (`ServerProofs`, for any requests and versions): `CacheCorrect` and `AnswersCorrect`, with the types. The
invariant says that a document that is not dirty is rendered in its newest version, also while the main thread handles a request
(`RenderedIsNewest`); that what the cache holds is that rendering (`CacheIsRendering`); and that a request that met no rendering
finds the cache it found when it arrived (`UndisturbedAreCurrent`). Without the last one nothing would connect the
status that is read first with the content that is read afterwards.

## 11. `WebServer` and `Upload`

**`WebServer`.** A connection is set up, idle, in a blocking call into the main thread, a waiting poll, a stream, an upload, or kept by a
handler after its client has gone; `toClose` are the close events that are posted, which keep it alive. The main thread listens, closes
(every connection is asked to close, and events are served until none is left), destroys the server and waits for its threads, and then
destroys the session manager, which waits for the threads of the sessions (`JoinSessionThreads`). A session may show displays: its thread tears them
down by a blocking call into the main thread (`RemoveDisplay`, `TearDownDisplay`), when nobody uses them any more or when the session is
killed.
The wait is bounded by a timer that nobody starts, so its reading is undefined and fixed by the build: `expired` is chosen at first.

`ConnectionsDoNotBlock`: once the server was closed, the main thread never waits for the thread of a connection that waits for it, or for its own lock.
`NothingSurvivesServer` (with the type invariant): no connection outlives the server, and no display. `ShutdownCompletes`: closing ends. Each has the
premise `~expired`: with a timer that says it expired, calls may be left behind. Three more cases are excluded, and are the code's: an upload
that is cut off never lets go of its connection, so closing waits for ever (`handlers/fileuploadhandler.cpp:64`); displays that are left when the
server is destroyed (`DisplaysLeft`) are torn down by the threads of the killed sessions, which call the main thread
(`display/graphicsscenedisplaymanager.cpp:164`) while it waits for them (`viriditysessionmanager.cpp:543`) and serves no events: a mutual wait
that does not end; a server that
is destroyed without having been closed holds `connectionMREW_` for reading when it wants it for writing (`viriditywebserver.cpp:123`), so
`ConnectionsDoNotBlock` is about servers that were closed. Strong fairness is for the events of a connection, as its thread may be held up by
another one's call again and again; weak fairness for the rest. Two connections may share a thread or not. The run starts the server once:
a closed server leaves nothing to the next start (`NothingSurvivesServer`), and the theorems are about any number of starts. `ViridityQmlWebServer`'s setters of the global logic close and open the server, and are no more than these actions.

**Proved** (`ServerProofs`, for any threads and a finite set of connections): `ConnectionsDoNotBlockCorrect`, `NothingSurvivesCorrect` (with
the types). The invariant: every connection that lives is in the list (`LivingIsListed`), the list is empty before the destructor
(`ListIsEmptied`), close events are for connections that are not gone (`CloseIsPending`), and a thread that has ended leaves no deletion behind
(`NothingIsLeft`); a server is off only when the displays are torn down (`DisplaysAreGone`). The wait for the connections is enough only because nothing lives outside of the list.

**`Upload`.** A body is a sequence of tokens (a boundary and a header are two each) that is cut anywhere; each chunk is searched on its own
(`handlers/fileuploadhandler.cpp:77`). `PartsAreRight` (with the type invariant): if the cuts are such that the handler can stand them
(`StandsCut`: no boundary or header is cut, a chunk that ends a part begins with some of its data that is not all white space, no header waits for data when a
chunk with a boundary comes, no header of 1 KiB or more ends a chunk, and no chunk has a complete part and the beginning
of another), the application gets every part with its data, and under its name unless that has a colon. The conditions are the code's: an incomplete header counts as complete, what is left over at the end of a chunk is written
before the complete parts in its middle, a chunk that begins with a boundary does not finish the part before, and white space before the boundary is as good as nothing (the data is trimmed, `:258`: `Blank`),
the buffer takes nothing more once it has 1 KiB (`:111`: `IsFull`), a header that was cut, or one with a second colon in its line (`:140`), leaves the name of the part before, and an empty part
whose header ends a chunk is lost: the boundary that the next chunk begins with clears the buffer the header waits in (`:266`). A header that is cut is taken to be short. `FilesAreOwn`: two uploads
share a file only if one of them looked for its name before the other opened it, or both put the same time in front of it.
A body that is not multipart (an empty boundary, with which the search does not end), a file that cannot be opened and the removal of
files, which the code does not do, are left out. Safety only.

**Proved** (`ServerProofs`, for any uploads, any number and size of parts, any white space, long headers and colons in them, any cuts): `FilesAreOwnCorrect` and `PartsAreRightCorrect`,
with the types. Both start from what a body is: `Shape` says at which places its headers, data and boundaries are, for the places `Start`
that the sizes of the parts add up to, and `ChunkIsSplit` that `splitChunk` cuts a piece of it at the boundaries that lie in it as a whole.
`UploadInv` is the invariant for `FilesAreOwn`: a chunk is the piece of the body that comes next, what a parser names is its own, and a file that
was not raced for has one owner; `KeepsToItself` is what each operation of the parser keeps. `PartsInv` adds
where the parser stands after a chunk that was cut well (`AtPlace`): between two parts, with a header that waits for data (`Waiting`), or with the
first pieces of a part in its open file (`Filling`), the parts before it being finished and in files whose numbers are theirs. `DataStep` is a
chunk without a boundary; `ChunkStep` one with boundaries, taken apart as the code does it: `FirstOfChunk`, `PartsComplete`, `RestOfChunk`. The second
condition of `StandsCut` for a chunk with a boundary was found this way: without it the step from `Waiting` fails, which is the empty part that gets
lost, and TLC shows it once an instance has an empty part. Another upload's chunk leaves an upload's files alone, or they count as raced (`PlaceStays`).

## 12. What a reader should not take for shown

* Liveness and what is called "only model-checked" hold on
  the instances above. The theorems hold for all values of the constants under the
  modules' named assumptions; they assume the models, not the C++ code, and the models
  take Qt's event loops, queued and blocking calls and timers as documented.
* Proofs of liveness and of `ENABLED` are outside of the prover's reach. Induction over data is done by smallest counterexamples
  where a proof needs it (section 6).
* Type invariants are proved for all modules with a state.
* Each module looks at one part with the others at rest (section 2). Where the code does not do what one would wish, the property
  names the case in a premise or an exception, and this file says where it comes from; `PROJECT.json` lists what can go wrong at its line,
  under "hazards", also what no property covers.

**Not modelled**, and why:

* The mirror of HTML documents: lists and their differential updates are built on the KCL library, which is not in the
  repository (an empty submodule), so that what a list reports, and in which order, cannot be read from the source. Form elements
  forward events of single elements of such documents.
* Routing, rewriting and static files have no state that changes while requests are served. Some facts met while reading: `interpretRule`
  leaves a flag unset for an unknown third part; `clear()` keeps the interpreted rules, so indices are wrong after it; internal
  rules are chained against the original url.
* The locks of the web socket handler: it holds `sessionMutex_` in a blocking dispatch while `destroyed()` of the session, a direct call, wants it.
  `Transport` takes the handler's calls as steps and does not show this wait.
* Image encoders (PNG, JPEG, BMP, packing of patches) encode pixels and keep nothing between two frames; the QML integration wires
  the parts to an engine; HTTP parser and web socket framing are vendored; recorder, player, tests and examples are around the library.
* The adapters for Qt Quick 1, widgets and graphics scenes beyond what `Input` has of them, and the size handlers' arithmetic.
