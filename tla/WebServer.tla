----------------------------- MODULE WebServer -----------------------------
(***************************************************************************)
(* The web server: connections on their threads, and the way it is closed   *)
(* and destroyed (src/src/viriditywebserver.cpp, viridityconnection.cpp,    *)
(* viridityrequesthandler.cpp, declarative/viridityqmlwebserver.cpp).       *)
(*                                                                          *)
(* The main thread accepts connections, creates the sessions the connection *)
(* threads ask it for (they wait meanwhile), and closes the server.  A      *)
(* connection object is kept by its socket, the socket by the request, the  *)
(* response and whatever handles them; it is deleted by its own thread once *)
(* the last of them lets go.                                                *)
(*                                                                          *)
(* Closing asks every connection to close, and serves events until the list *)
(* of weak references is empty.  The time limit of that wait reads a timer  *)
(* nobody started: what it says (expired) is up to the build, and does not  *)
(* change.  Destruction then waits for the threads, without serving events: *)
(* first for those of the connections, then, in the destructor of the       *)
(* session manager, for those of the sessions.  A session is deleted by its *)
(* thread, and a display manager it had there deletes its displays by       *)
(* calls into the main thread (display/graphicsscenedisplaymanager.cpp).    *)
(***************************************************************************)
EXTENDS Naturals, FiniteSets

CONSTANTS
    Conn,        \* connection objects
    Thread,      \* connection threads
    Viewer,      \* sessions that may show displays, each with its own thread
    MaxStarts    \* bound: how often the server is started

ASSUME ThreadAssumption == Thread # {} /\ IsFiniteSet(Conn)
ASSUME StartsAssumption == MaxStarts \in Nat

VARIABLES
    main,        \* what the main thread does with the server
    expired,     \* what the timer of closeAllConnections says
    starts,      \* servers started
    connections, \* connections_: weak references, of which some are dead
    conn,        \* state of each connection
    threadOf,    \* its thread
    toClose,     \* connections with a close event posted: it keeps them alive
    threads,     \* state of each connection thread
    displays,    \* what the display manager of a session does with its displays
    direct       \* history: the server is destroyed without having been closed

vars == <<main, expired, starts, connections, conn, threadOf, toClose, threads, displays, direct>>

MainState == {"off", "listening", "closing", "deleting", "locked", "waiting", "joining"}
\* "calling": the thread of the session waits for the main thread to tear a
\* display down.
DisplaysState == {"none", "shown", "calling"}
Connected == {"idle", "calling", "polling", "streaming", "uploading"}
\* Disconnected, and kept by the handler of a poll or of an upload.
Kept == {"keptPoll", "keptUpload"}
ConnState == {"none", "setup"} \cup Connected \cup Kept \cup {"released", "gone"}

TypeOK ==
    /\ main \in MainState /\ expired \in BOOLEAN /\ starts \in 0..MaxStarts
    /\ connections \subseteq Conn /\ toClose \subseteq Conn
    /\ conn \in [Conn -> ConnState] /\ threadOf \in [Conn -> Thread]
    /\ threads \in [Thread -> {"off", "running", "quitting", "finished"}]
    /\ displays \in [Viewer -> DisplaysState]
    /\ direct \in BOOLEAN

Init ==
    /\ main = "off" /\ expired \in BOOLEAN /\ starts = 0
    /\ connections = {} /\ toClose = {}
    /\ conn = [c \in Conn |-> "none"]
    /\ threadOf \in [Conn -> Thread]
    /\ threads = [t \in Thread |-> "off"]
    /\ displays = [s \in Viewer |-> "none"]
    /\ direct = FALSE

\* A weak reference that is not null: something still keeps the connection.
Alive(c) == c \in toClose \/ conn[c] \notin {"none", "released", "gone"}

\* A thread takes its next event: it runs, and none of its connections waits
\* for the main thread.
Free(t) == threads[t] = "running" /\ \A c \in Conn : threadOf[c] = t => conn[c] # "calling"

-----------------------------------------------------------------------------
(* The main thread *)

\* listen: threads are started; a port that is taken ends in cleanUp, with the
\* server deleted before anybody connected.
Listen ==
    /\ main = "off" /\ starts < MaxStarts
    /\ starts' = starts + 1
    /\ threads' = [t \in Thread |-> "running"]
    /\ \E listening \in BOOLEAN : main' = IF listening THEN "listening" ELSE "deleting"
    /\ connections' = {} /\ direct' = FALSE
    /\ UNCHANGED <<expired, conn, threadOf, toClose, displays>>

\* incomingConnection: dead references are cleaned, setupConnection is posted.
IncomingConnection(c) ==
    /\ main = "listening" /\ conn[c] = "none"
    /\ connections' = {d \in connections : Alive(d)} \cup {c}
    /\ conn' = [conn EXCEPT ![c] = "setup"]
    /\ UNCHANGED <<main, expired, starts, threadOf, toClose, threads, displays, direct>>

\* createSession, a bridge's handler, or createDisplayInstance, after which a
\* session shows a display: the call returns, and the request is answered, or
\* the stream it wanted is open.
ServeCall(c) ==
    /\ main \in {"off", "listening", "closing"} /\ conn[c] = "calling"
    /\ conn' = [conn EXCEPT ![c] = "idle"] \/ conn' = [conn EXCEPT ![c] = "streaming"]
    /\ \/ UNCHANGED displays
       \/ \E s \in Viewer : /\ main # "off" /\ displays[s] = "none"
                             /\ displays' = [displays EXCEPT ![s] = "shown"]
    /\ UNCHANGED <<main, expired, starts, connections, threadOf, toClose, threads, direct>>

\* tearDownDisplayInstance: the call of the session's thread returns.
TearDownDisplay(s) ==
    /\ main \in {"listening", "closing"} /\ displays[s] = "calling"
    /\ displays' = [displays EXCEPT ![s] = "none"]
    /\ UNCHANGED <<main, expired, starts, connections, conn, threadOf, toClose, threads,
                   direct>>

\* Mutant: a connection that waits for the main thread is not asked to close,
\* and forgotten.
ForgetWaiting ==
    /\ toClose' = toClose \cup {c \in connections : Alive(c) /\ conn[c] # "calling"}
    /\ connections' = {c \in connections : conn[c] # "calling"}

\* closeAllConnections: a close event for every connection that is alive.
PostCloses ==
    /\ toClose' = toClose \cup {c \in connections : Alive(c)}
    /\ connections' = connections

\* close: no connection is accepted any more.
CloseServer ==
    /\ main = "listening"
    /\ main' = "closing"
    /\ PostCloses
    /\ UNCHANGED <<expired, starts, conn, threadOf, threads, displays, direct>>

\* Mutant: the wait ends when every connection was disconnected.
CleanDisconnected == connections' = {c \in connections : conn[c] \in Connected \cup {"setup"}}

\* cleanConnections.
CleanConnections == connections' = {c \in connections : Alive(c)}

\* The wait of closeAllConnections: dead references are cleaned, events
\* served (ServeCall), until none is left or the timer says so.
AwaitConnections ==
    /\ main = "closing"
    /\ IF connections = {} \/ expired
       THEN main' = "deleting" /\ UNCHANGED connections
       ELSE CleanConnections /\ UNCHANGED main
    /\ UNCHANGED <<expired, starts, conn, threadOf, toClose, threads, displays, direct>>

\* The owner of the server goes out of scope, the server was not closed.
DestroyDirectly ==
    /\ main = "listening"
    /\ main' = "deleting" /\ direct' = TRUE
    /\ UNCHANGED <<expired, starts, connections, conn, threadOf, toClose, threads, displays>>

\* ~ViridityWebServer: with connectionMREW_ taken for reading the sessions are
\* killed and the server is closed once more.  That wants the lock for
\* writing when a reference is left and the timer has not expired, and waits
\* for its own lock for ever.  Otherwise the threads are told to quit.
DestroyServer ==
    /\ main = "deleting"
    /\ PostCloses
    /\ IF connections # {} /\ ~expired
       THEN main' = "locked" /\ UNCHANGED threads
       ELSE main' = "waiting" /\ threads' = [t \in Thread |-> "quitting"]
    /\ UNCHANGED <<expired, starts, conn, threadOf, displays, direct>>

\* Every connection thread has ended; cleanUp deletes the session manager next,
\* which kills the sessions once more and tells their threads to quit.
JoinThreads ==
    /\ main = "waiting" /\ \A t \in Thread : threads[t] = "finished"
    /\ main' = "joining"
    /\ UNCHANGED <<expired, starts, connections, conn, threadOf, toClose, threads, displays,
                   direct>>

\* ~AbstractViriditySessionManager waits for the threads of the sessions, which
\* end when what is posted to them is deleted.  Another server can be started.
JoinSessionThreads ==
    /\ main = "joining" /\ \A s \in Viewer : displays[s] = "none"
    /\ main' = "off"
    /\ UNCHANGED <<expired, starts, connections, conn, threadOf, toClose, threads, displays,
                   direct>>

-----------------------------------------------------------------------------
(* Viewer threads *)

\* removeDisplay: the sweep of displays nobody uses (killObsoleteDisplays), or
\* the display manager of a session that is deleted, because it expired or, in
\* "deleting" and "joining", because all sessions are killed.
RemoveDisplay(s) ==
    /\ displays[s] = "shown"
    /\ displays' = [displays EXCEPT ![s] = "calling"]
    /\ UNCHANGED <<main, expired, starts, connections, conn, threadOf, toClose, threads,
                   direct>>

-----------------------------------------------------------------------------
(* Connection threads *)

Becomes(c, s) ==
    /\ conn' = [conn EXCEPT ![c] = s]
    /\ UNCHANGED <<main, expired, starts, connections, threadOf, threads, displays, direct>>

\* setupConnection: a socket that cannot be had lets the connection go.
SetupConnection(c) ==
    /\ conn[c] = "setup" /\ Free(threadOf[c])
    /\ \E ok \in BOOLEAN : Becomes(c, IF ok THEN "idle" ELSE "released")
    /\ UNCHANGED toClose

\* handleRequestReady, handleRequestUpgrade: a request is answered at once
\* (the connection stays idle), calls the main thread, becomes a poll that
\* waits for messages, a stream, or an upload.
HandleRequest(c) ==
    /\ conn[c] = "idle" /\ Free(threadOf[c])
    /\ \E s \in {"calling", "polling", "streaming", "uploading"} : Becomes(c, s)
    /\ UNCHANGED toClose

\* A message of the client over a web socket, for a handler of the main thread.
HandleMessage(c) ==
    /\ conn[c] = "streaming" /\ Free(threadOf[c])
    /\ Becomes(c, "calling")
    /\ UNCHANGED toClose

\* The last data of an upload: its handler answers and lets go.
UploadEnds(c) ==
    /\ conn[c] = "uploading" /\ Free(threadOf[c])
    /\ Becomes(c, "idle")
    /\ UNCHANGED toClose

\* Messages, or ten seconds without one (the session is dormant): the poll is
\* answered; its response was all that kept a disconnected connection.
AnswerPoll(c) ==
    /\ conn[c] \in {"polling", "keptPoll"} /\ Free(threadOf[c])
    /\ Becomes(c, IF conn[c] = "polling" THEN "idle" ELSE "released")
    /\ UNCHANGED toClose

\* handleSocketDisconnected: request, response and socket are let go.  A poll's
\* handler keeps its response until there is something to answer, an upload's
\* handler until the body ends, which it does no more.
Disconnected(c) ==
    CASE conn[c] = "polling" -> "keptPoll"
      [] conn[c] = "uploading" -> "keptUpload"
      [] OTHER -> "released"

\* The client closes the connection, or is gone.
HandleSocketDisconnected(c) ==
    /\ conn[c] \in Connected \ {"calling"} /\ Free(threadOf[c])
    /\ Becomes(c, Disconnected(c))
    /\ UNCHANGED toClose

\* The close event: it comes after setupConnection, a socket that is open is
\* closed.
CloseConnection(c) ==
    /\ c \in toClose /\ conn[c] # "setup" /\ Free(threadOf[c])
    /\ toClose' = toClose \ {c}
    /\ Becomes(c, IF conn[c] \in Connected THEN Disconnected(c) ELSE conn[c])

\* deleteLater of a connection nobody keeps any more.
DeleteConnection(c) ==
    /\ conn[c] = "released" /\ c \notin toClose /\ Free(threadOf[c])
    /\ Becomes(c, "gone")
    /\ UNCHANGED toClose

\* Mutant: a thread that finishes leaves the deletions posted to it.
FinishAtOnce(t) == conn' = conn

\* QThread runs the deletions that are posted when its loop ends.
FinishThread(t) ==
    conn' = [c \in Conn |-> IF threadOf[c] = t /\ conn[c] = "released" /\ c \notin toClose
                            THEN "gone" ELSE conn[c]]

\* The loop of a thread ends after the event it is in.
ThreadFinishes(t) ==
    /\ threads[t] = "quitting" /\ \A c \in Conn : threadOf[c] = t => conn[c] # "calling"
    /\ threads' = [threads EXCEPT ![t] = "finished"]
    /\ FinishThread(t)
    /\ UNCHANGED <<main, expired, starts, connections, threadOf, toClose, displays, direct>>

-----------------------------------------------------------------------------
Closing == AwaitConnections \/ DestroyServer \/ JoinThreads \/ JoinSessionThreads
Events(c) == SetupConnection(c) \/ AnswerPoll(c) \/ CloseConnection(c) \/ DeleteConnection(c)

Next ==
    \/ Listen \/ CloseServer \/ DestroyDirectly
    \/ AwaitConnections \/ DestroyServer \/ JoinThreads \/ JoinSessionThreads
    \/ \E s \in Viewer : TearDownDisplay(s) \/ RemoveDisplay(s)
    \/ \E c \in Conn :
          \/ IncomingConnection(c) \/ ServeCall(c) \/ SetupConnection(c)
          \/ HandleRequest(c) \/ HandleMessage(c) \/ UploadEnds(c) \/ AnswerPoll(c)
          \/ HandleSocketDisconnected(c) \/ CloseConnection(c) \/ DeleteConnection(c)
    \/ \E t \in Thread : ThreadFinishes(t)

\* The loops of the threads take their events in the order they were posted,
\* the one that serves events while it waits too; timers fire.
Fairness ==
    /\ WF_vars(Closing)
    /\ \A c \in Conn : WF_vars(ServeCall(c))
    /\ \A c \in Conn : SF_vars(SetupConnection(c)) /\ SF_vars(AnswerPoll(c))
                       /\ SF_vars(CloseConnection(c)) /\ SF_vars(DeleteConnection(c))
    /\ \A t \in Thread : WF_vars(ThreadFinishes(t))

Spec == Init /\ [][Next]_vars
FairSpec == Spec /\ Fairness

-----------------------------------------------------------------------------
(* Properties *)

CutUploads == {c \in Conn : conn[c] = "keptUpload"}

\* Displays are left when the main thread waits for the threads of the sessions:
\* the thread that is to tear them down calls it, and both wait for ever.
DisplaysLeft == main = "joining" /\ \E s \in Viewer : displays[s] # "none"

\* Closing the server ends, with polls waiting, calls into the main thread and
\* connections not yet set up, and with displays that were torn down before the
\* server is destroyed.  Two exceptions: an upload that was cut off, whose
\* handler keeps the connection for ever, and displays left to be torn down by
\* the threads of killed sessions.  (A timer that says it expired leaves calls
\* behind.)
ShutdownCompletes ==
    main = "closing" ~> main = "off" \/ CutUploads # {} \/ DisplaysLeft \/ expired

\* Once the server was closed, the main thread never waits, in its destructors,
\* for a connection whose thread waits for the main thread, or for a lock of
\* its own; a timer that says it expired takes that away.  (With the thread of
\* a session that has displays it does: DisplaysLeft.)
ConnectionsDoNotBlock ==
    ~expired /\ ~direct /\ main \in {"deleting", "locked", "waiting", "joining"}
        => main # "locked" /\ \A c \in Conn : conn[c] # "calling"

\* No connection outlives the server its handlers refer to, unless the wait for
\* them was given up.  (And every variable is well typed.)
NothingSurvivesServer ==
    /\ TypeOK
    /\ main = "off" /\ ~expired => /\ \A c \in Conn : conn[c] \in {"none", "gone"}
                                  /\ \A s \in Viewer : displays[s] = "none"
=============================================================================
