---------------------------- MODULE ServerProofs ----------------------------
(***************************************************************************)
(* Proofs about what a server does for its clients: the web server with its *)
(* connections (WebServer), for any connections, threads and restarts, a    *)
(* request handler with a cache (RequestCache), for any requests and        *)
(* changes of the document, the data bridges (DataBridge), for any sessions *)
(* and bounds, and uploaded files (Upload), for any sizes of parts and cuts *)
(* of a body.                                                               *)
(*                                                                          *)
(* The theorems of the web server are about one whose wait for its          *)
(* connections is not cut short by the timer nobody started.  The invariant *)
(* of the cache says what it and the connection threads may rely on between *)
(* two steps: a document that is not dirty is rendered in its newest        *)
(* version, the main thread handles a request only while it is not dirty,   *)
(* and a request that met no rendering still sees the cache it found when   *)
(* it arrived.  The invariant of the bridges is about the messages on their *)
(* way: whose number they carry, and that those of a subscription have no   *)
(* gap.  The invariant of the uploads is about whose file is whose: a       *)
(* parser names files of its own only, a file that was not raced for has    *)
(* one owner, and what was handled of a body that was cut well is in the    *)
(* files of its parts.                                                      *)
(***************************************************************************)
EXTENDS WebServer, RequestCache, DataBridge, Upload, FiniteSetTheorems, SequenceTheorems,
        WellFoundedInduction, TLAPS

\* A close event is for a connection somebody may still want to close.
CloseIsPending == \A c \in toClose : conn[c] \notin {"none", "gone"}

\* What lives is listed, so that the wait of closeAllConnections sees it.
LivingIsListed == ~expired => \A c \in Conn : Alive(c) => c \in connections

\* The server is destroyed with an empty list, unless nobody closed it.
ListIsEmptied ==
    ~expired => /\ main \in {"off", "waiting", "joining"} => connections = {}
                /\ main = "deleting" /\ ~direct => connections = {}
                /\ main = "locked" => direct

\* What a thread leaves behind when its loop ends.
NothingIsLeft ==
    ~expired /\ main \in {"off", "waiting", "joining"} =>
        \A c \in Conn : main # "waiting" \/ threads[threadOf[c]] = "finished"
                            => conn[c] # "released"

\* The threads of the sessions have torn down what they had.
DisplaysAreGone == main = "off" => \A s \in Viewer : displays[s] = "none"

Inv ==
    /\ TypeOK /\ CloseIsPending /\ LivingIsListed /\ ListIsEmptied /\ NothingIsLeft
    /\ DisplaysAreGone

\* Nothing is connected before the first start.
LEMMA InitInv == Init => Inv
<1> SUFFICES ASSUME Init PROVE Inv
  OBVIOUS
<1>1. /\ main = "off" /\ connections = {} /\ toClose = {} /\ direct = FALSE
      /\ conn = [c \in Conn |-> "none"]
  BY DEF Init
<1>2. TypeOK
  <2>1. starts \in 0..MaxStarts
    BY StartsAssumption DEF Init
  <2>2. conn \in [Conn -> ConnState]
    BY <1>1 DEF ConnState
  <2>3. threadOf \in [Conn -> Thread] /\ expired \in BOOLEAN
    BY DEF Init
  <2>4. threads \in [Thread -> {"off", "running", "quitting", "finished"}]
    BY DEF Init
  <2>5. displays \in [Viewer -> DisplaysState]
    BY DEF Init, DisplaysState
  <2> QED BY <1>1, <2>1, <2>2, <2>3, <2>4, <2>5 DEF TypeOK, MainState
<1>3. CloseIsPending /\ LivingIsListed /\ ListIsEmptied /\ NothingIsLeft /\ DisplaysAreGone
  BY <1>1 DEF Init, CloseIsPending, LivingIsListed, ListIsEmptied, NothingIsLeft, DisplaysAreGone,
              Alive
<1> QED BY <1>2, <1>3 DEF Inv

-----------------------------------------------------------------------------
(* The main thread *)

\* Starting and closing, and the wait for the connections.
LEMMA MainKeepsInv ==
    ASSUME Inv, Listen \/ CloseServer \/ DestroyDirectly \/ AwaitConnections
    PROVE  Inv'
<1> USE DEF Inv, TypeOK, CloseIsPending, LivingIsListed, ListIsEmptied, NothingIsLeft,
            DisplaysAreGone, Alive, MainState
<1>1. CASE Listen
  <2>1. starts' \in 0..MaxStarts
    BY <1>1, StartsAssumption DEF Listen
  <2> QED BY <1>1, <2>1 DEF Listen
<1>2. CASE CloseServer
  BY <1>2 DEF CloseServer, PostCloses
<1>3. CASE DestroyDirectly
  BY <1>3 DEF DestroyDirectly
<1>4. CASE AwaitConnections
  BY <1>4 DEF AwaitConnections, CleanConnections
<1> QED BY <1>1, <1>2, <1>3, <1>4

\* The destructor: the threads are told to quit, and waited for.
LEMMA DestructorKeepsInv == ASSUME Inv, DestroyServer \/ JoinThreads \/ JoinSessionThreads PROVE Inv'
<1> USE DEF Inv, TypeOK, CloseIsPending, LivingIsListed, ListIsEmptied, NothingIsLeft,
            DisplaysAreGone, Alive, MainState
<1>1. CASE DestroyServer
  BY <1>1 DEF DestroyServer, PostCloses
<1>2. CASE JoinThreads
  BY <1>2 DEF JoinThreads
<1>3. CASE JoinSessionThreads
  BY <1>3 DEF JoinSessionThreads
<1> QED BY <1>1, <1>2, <1>3

\* What the session threads do to their displays, and what main does for them.
LEMMA DisplaysKeepInv ==
    ASSUME Inv, NEW s \in Viewer, TearDownDisplay(s) \/ RemoveDisplay(s)
    PROVE  Inv'
<1>1. displays' \in [Viewer -> DisplaysState] /\ main # "off"
  BY DEF TearDownDisplay, RemoveDisplay, Inv, TypeOK, DisplaysState, DisplaysAreGone
<1> QED
  BY <1>1 DEF TearDownDisplay, RemoveDisplay, Inv, TypeOK, CloseIsPending, LivingIsListed,
              ListIsEmptied, NothingIsLeft, DisplaysAreGone, Alive

\* A connection is accepted only while the server listens.
LEMMA IncomingKeepsInv == ASSUME Inv, NEW c \in Conn, IncomingConnection(c) PROVE Inv'
BY DEF IncomingConnection, Inv, TypeOK, CloseIsPending, LivingIsListed, ListIsEmptied,
       NothingIsLeft, DisplaysAreGone, Alive, ConnState

-----------------------------------------------------------------------------
(* The connection threads *)

\* A connection that lives goes from one state to another, or lets go.
LEMMA ChangeKeepsInv ==
    ASSUME Inv, NEW c \in Conn, NEW s \in ConnState \ {"none", "gone"}, Becomes(c, s),
           conn[c] \notin {"none", "released", "gone"}, toClose' \subseteq toClose
    PROVE  Inv'
<1>1. ~expired => c \in connections /\ main \notin {"off", "waiting", "joining"}
  BY DEF Inv, LivingIsListed, ListIsEmptied, Alive
<1> QED
  BY <1>1 DEF Becomes, Inv, TypeOK, CloseIsPending, LivingIsListed, ListIsEmptied, NothingIsLeft,
              DisplaysAreGone, Alive

\* The requests of a connection, their answers and their end.
LEMMA RequestKeepsInv ==
    ASSUME Inv, NEW c \in Conn,
           \/ SetupConnection(c) \/ HandleRequest(c) \/ HandleMessage(c) \/ UploadEnds(c)
           \/ AnswerPoll(c) \/ HandleSocketDisconnected(c)
    PROVE  Inv'
<1>1. PICK s \in ConnState \ {"none", "gone"} : Becomes(c, s)
  BY DEF SetupConnection, HandleRequest, HandleMessage, UploadEnds, AnswerPoll,
         HandleSocketDisconnected, Disconnected, Becomes, ConnState, Connected, Kept
<1>2. conn[c] \notin {"none", "released", "gone"} /\ toClose' = toClose
  BY DEF SetupConnection, HandleRequest, HandleMessage, UploadEnds, AnswerPoll,
         HandleSocketDisconnected, Connected
<1> QED BY <1>1, <1>2, ChangeKeepsInv

\* A call into the main thread returns; a session may have a display now.
LEMMA CallKeepsInv == ASSUME Inv, NEW c \in Conn, ServeCall(c) PROVE Inv'
<1>1. PICK s \in {"idle", "streaming"} : conn' = [conn EXCEPT ![c] = s]
  BY DEF ServeCall
<1>2. displays' \in [Viewer -> DisplaysState] /\ (main = "off" => displays' = displays)
  BY DEF ServeCall, Inv, TypeOK, DisplaysState
<1>3. conn' \in [Conn -> ConnState]
  BY <1>1 DEF Inv, TypeOK, ConnState, Connected
<1>4. ~expired => c \in connections /\ main \notin {"off", "waiting", "joining"}
  BY DEF Inv, LivingIsListed, ListIsEmptied, Alive, ServeCall
<1> QED
  BY <1>1, <1>2, <1>3, <1>4 DEF ServeCall, Inv, TypeOK, CloseIsPending, LivingIsListed,
     ListIsEmptied, NothingIsLeft, DisplaysAreGone, Alive

\* The close event of a connection.
LEMMA CloseKeepsInv == ASSUME Inv, NEW c \in Conn, CloseConnection(c) PROVE Inv'
<1>1. CASE conn[c] \in Connected
  <2>1. /\ Becomes(c, Disconnected(c)) /\ toClose' \subseteq toClose
        /\ Disconnected(c) \in ConnState \ {"none", "gone"}
    BY <1>1 DEF CloseConnection, Disconnected, ConnState, Kept
  <2> QED BY <1>1, <2>1, ChangeKeepsInv DEF Connected
<1>2. CASE conn[c] \notin Connected
  BY <1>2 DEF CloseConnection, Becomes, Inv, TypeOK, CloseIsPending, LivingIsListed,
              ListIsEmptied, NothingIsLeft, DisplaysAreGone, Alive
<1> QED BY <1>1, <1>2

\* Deletions, by an event or at the end of a thread.
LEMMA DeletionKeepsInv ==
    ASSUME Inv, (\E c \in Conn : DeleteConnection(c)) \/ (\E t \in Thread : ThreadFinishes(t))
    PROVE  Inv'
<1> USE DEF Inv, TypeOK, CloseIsPending, LivingIsListed, ListIsEmptied, NothingIsLeft,
            DisplaysAreGone, Alive, ConnState
<1>1. ASSUME NEW c \in Conn, DeleteConnection(c) PROVE Inv'
  BY <1>1 DEF DeleteConnection, Becomes
<1>2. ASSUME NEW t \in Thread, ThreadFinishes(t) PROVE Inv'
  <2>1. main \in {"off", "waiting", "joining"} /\ ~expired => toClose = {}
    OBVIOUS
  <2> QED BY <1>2, <2>1 DEF ThreadFinishes, FinishThread
<1> QED BY <1>1, <1>2

\* The invariant holds throughout.
LEMMA InvHolds == Spec => []Inv
<1>1. Inv /\ [Next]_vars => Inv'
  <2> SUFFICES ASSUME Inv, [Next]_vars PROVE Inv'
    OBVIOUS
  <2>1. CASE UNCHANGED vars
    BY <2>1 DEF vars, Inv, TypeOK, CloseIsPending, LivingIsListed, ListIsEmptied, NothingIsLeft,
                DisplaysAreGone, Alive
  <2> QED
    BY <2>1, MainKeepsInv, DestructorKeepsInv, DisplaysKeepInv, IncomingKeepsInv, CallKeepsInv,
       RequestKeepsInv, CloseKeepsInv, DeletionKeepsInv DEF Next
<1> QED BY <1>1, InitInv, PTL DEF Spec

-----------------------------------------------------------------------------
(* A server that was closed does not wait for a connection's thread that     *)
(* waits for the main thread, nor for its own lock (~ViridityWebServer after *)
(* close()).                                                                 *)
THEOREM ConnectionsDoNotBlockCorrect == Spec => []ConnectionsDoNotBlock
<1>1. Inv => ConnectionsDoNotBlock
  BY DEF Inv, LivingIsListed, ListIsEmptied, ConnectionsDoNotBlock, Alive
<1> QED BY <1>1, InvHolds, PTL

(* When the server is gone, all its connections are (cleanConnections and    *)
(* the deletions of threads that end), and all displays of its sessions (the *)
(* session manager waits for their threads); the state is well typed.        *)
THEOREM NothingSurvivesCorrect == Spec => []NothingSurvivesServer
<1>1. Inv => NothingSurvivesServer
  BY DEF Inv, TypeOK, LivingIsListed, ListIsEmptied, NothingIsLeft, DisplaysAreGone,
         NothingSurvivesServer, Alive
<1> QED BY <1>1, InvHolds, PTL

-----------------------------------------------------------------------------
(* The cache of a request handler *)

\* The document and its rendering.
RenderedIsNewest ==
    /\ ~dirty => content = version
    /\ handling # Idle => ~dirty

\* The cache and the rendering; StoreStatus makes the answer whole.
CacheIsRendering ==
    /\ handling # Idle /\ handling.at = "status" => cachedContent = content
    /\ handling = Idle /\ ~dirty /\ ~unstored => cachedContent = content /\ cachedStatus = 200

\* Requests that met no rendering: none is under way, and what they will
\* answer, or have answered, is as new as what they asked for.
UndisturbedAreCurrent ==
    \A r \in Request \ overlap :
        /\ req[r] \in {"arrived", "matched", "hit"} => handling = Idle /\ ~unstored
        /\ req[r] = "hit" => answer[r].status = 200 /\ cachedContent >= oldest[r]
        /\ req[r] = "answered" => answer[r].status = 200 /\ answer[r].content >= oldest[r]

OldestIsPast == \A r \in Request : oldest[r] <= version

CacheInv ==
    /\ CacheTypeOK
    /\ RenderedIsNewest
    /\ CacheIsRendering
    /\ OldestIsPast
    /\ UndisturbedAreCurrent

-----------------------------------------------------------------------------
\* Nothing is rendered, stored or asked at first.
LEMMA CacheInvInit == CacheInit => CacheInv
<1> SUFFICES ASSUME CacheInit PROVE CacheInv
  OBVIOUS
<1> USE DEF CacheInit
<1>1. CacheTypeOK
  <2>1. overlap \subseteq Request
    OBVIOUS
  <2>2. version \in 1..MaxVersion /\ content \in 0..version /\ cachedContent \in 0..version
    BY VersionAssumption
  <2>3. oldest \in [Request -> 0..MaxVersion]
    BY VersionAssumption
  <2>4. answer \in [Request -> [status : {0, 200}, content : 0..MaxVersion]]
    BY VersionAssumption
  <2> QED BY <2>1, <2>2, <2>3, <2>4 DEF CacheTypeOK
<1>2. RenderedIsNewest /\ CacheIsRendering
  BY DEF RenderedIsNewest, CacheIsRendering
<1>3. OldestIsPast
  BY DEF OldestIsPast
<1>4. UndisturbedAreCurrent
  BY DEF UndisturbedAreCurrent
<1> QED BY <1>1, <1>2, <1>3, <1>4 DEF CacheInv

\* Every step keeps the types.
LEMMA CacheTypeStep == CacheTypeOK /\ [CacheNext]_requestCacheVars => CacheTypeOK'
<1> SUFFICES ASSUME CacheTypeOK, [CacheNext]_requestCacheVars PROVE CacheTypeOK'
  OBVIOUS
<1> USE VersionAssumption DEF CacheTypeOK
<1>1. CASE ChangeDocument
  BY <1>1 DEF ChangeDocument, SetDirty, cacheVars, reqVars
<1>0. Running \subseteq Request
  BY DEF Running
<1>2. CASE SendContentUpdate
  <2>1. overlap' \subseteq Request
    BY <1>0, <1>2 DEF SendContentUpdate
  <2>2. content' \in 0..version'
    BY <1>2 DEF SendContentUpdate
  <2>3. dirty' \in BOOLEAN /\ unstored' \in BOOLEAN
    BY <1>2 DEF SendContentUpdate
  <2> QED BY <1>2, <2>1, <2>2, <2>3 DEF SendContentUpdate, cacheVars, reqVars
<1>3. CASE EndHandleRequest
  BY <1>3 DEF EndHandleRequest, StoreContent, docVars, Idle, Steps
<1>4. CASE StoreStatus
  BY <1>4 DEF StoreStatus, reqVars
<1>5. CASE DestroyHandler
  BY <1>5 DEF DestroyHandler, docVars, cacheVars
<1>6. ASSUME NEW r \in Request, BeginHandleRequest(r) PROVE CacheTypeOK'
  <2>1. overlap' \subseteq Request
    BY <1>0, <1>6 DEF BeginHandleRequest
  <2>2. content' \in 0..version'
    BY <1>6 DEF BeginHandleRequest
  <2>3. dirty' \in BOOLEAN
    BY <1>6 DEF BeginHandleRequest
  <2>4. handling' \in [at : Steps, of : Request]
    BY <1>6 DEF BeginHandleRequest, Steps
  <2> QED BY <1>6, <2>1, <2>2, <2>3, <2>4 DEF BeginHandleRequest, cacheVars, reqVars
<1>7. ASSUME NEW r \in Request, Arrive(r) PROVE CacheTypeOK'
  BY <1>7 DEF Arrive, docVars, cacheVars
<1>8. ASSUME NEW r \in Request, DoesHandleRequest(r) PROVE CacheTypeOK'
  BY <1>8 DEF DoesHandleRequest, docVars, cacheVars
<1>9. ASSUME NEW r \in Request, AnswerOrPost(r) PROVE CacheTypeOK'
  BY <1>9 DEF AnswerOrPost, Post, docVars, cacheVars
<1>10. ASSUME NEW r \in Request, AnswerFromCache(r) PROVE CacheTypeOK'
  BY <1>10 DEF AnswerFromCache, docVars, cacheVars
<1>11. CASE UNCHANGED requestCacheVars
  BY <1>11 DEF requestCacheVars, docVars, cacheVars, reqVars
<1> QED BY <1>1, <1>2, <1>3, <1>4, <1>5, <1>6, <1>7, <1>8, <1>9, <1>10, <1>11 DEF CacheNext

\* Every step keeps the rest.  Only the steps of the main thread touch the
\* document and its cache, and only they may disturb a request.
LEMMA CacheInvStep == CacheInv /\ [CacheNext]_requestCacheVars => CacheInv'
<1> SUFFICES ASSUME CacheInv, [CacheNext]_requestCacheVars PROVE CacheInv'
  OBVIOUS
<1>0. CacheTypeOK'
  BY CacheTypeStep DEF CacheInv
<1> DEFINE Rest == RenderedIsNewest /\ CacheIsRendering /\ OldestIsPast /\ UndisturbedAreCurrent
<1> SUFFICES Rest'
  BY <1>0 DEF CacheInv
<1> USE DEF CacheInv, CacheTypeOK, RenderedIsNewest, CacheIsRendering, OldestIsPast, UndisturbedAreCurrent
<1>1. CASE ChangeDocument
  BY <1>1 DEF ChangeDocument, SetDirty, cacheVars, reqVars
<1>2. CASE SendContentUpdate
  BY <1>2 DEF SendContentUpdate, cacheVars, reqVars, Running
<1>3. CASE EndHandleRequest
  BY <1>3, <1>0 DEF EndHandleRequest, StoreContent, docVars, Idle
<1>4. CASE StoreStatus
  BY <1>4 DEF StoreStatus, reqVars
<1>5. CASE DestroyHandler
  BY <1>5 DEF DestroyHandler, docVars, cacheVars
<1>6. ASSUME NEW r \in Request, BeginHandleRequest(r) PROVE Rest'
  BY <1>6 DEF BeginHandleRequest, cacheVars, reqVars, Running, Idle
<1>7. ASSUME NEW r \in Request, Arrive(r) PROVE Rest'
  BY <1>7 DEF Arrive, docVars, cacheVars, Exposed
<1>8. ASSUME NEW r \in Request, DoesHandleRequest(r) PROVE Rest'
  BY <1>8 DEF DoesHandleRequest, docVars, cacheVars
<1>9. ASSUME NEW r \in Request, AnswerOrPost(r) PROVE Rest'
  BY <1>9 DEF AnswerOrPost, Post, CanAnswerFromCache, Valid, docVars, cacheVars
<1>10. ASSUME NEW r \in Request, AnswerFromCache(r) PROVE Rest'
  BY <1>10 DEF AnswerFromCache, docVars, cacheVars
<1>11. CASE UNCHANGED requestCacheVars
  BY <1>11 DEF requestCacheVars, docVars, cacheVars, reqVars
<1> QED BY <1>1, <1>2, <1>3, <1>4, <1>5, <1>6, <1>7, <1>8, <1>9, <1>10, <1>11 DEF CacheNext

\* The inductive invariant holds throughout.
LEMMA CacheInvHolds == CacheSpec => []CacheInv
<1>1. CacheInit => CacheInv
  BY CacheInvInit
<1>2. CacheInv /\ [CacheNext]_requestCacheVars => CacheInv'
  BY CacheInvStep
<1> QED BY <1>1, <1>2, PTL DEF CacheSpec

(* The cache never lags behind between two requests: when it counts as     *)
(* valid and the last rendering was for a request, it holds the newest      *)
(* version of the document with its status (setCachedContent and            *)
(* setCachedStatusCode against the binding of cachedContentValid).          *)
THEOREM CacheCorrect == CacheSpec => []CacheFollowsDocument
<1>1. CacheInv => CacheFollowsDocument
  BY DEF CacheInv, RenderedIsNewest, CacheIsRendering, CacheFollowsDocument, Valid
<1> QED BY <1>1, CacheInvHolds, PTL

(* Whichever thread answers a request that met no rendering, the answer is  *)
(* whole and not older than the request (handleRequest of the connection    *)
(* threads against responseWrapperDone of the main thread).                 *)
THEOREM AnswersCorrect == CacheSpec => []AnswersAreCurrent
<1>1. CacheInv => AnswersAreCurrent
  BY DEF CacheInv, UndisturbedAreCurrent, AnswersAreCurrent
<1> QED BY <1>1, CacheInvHolds, PTL

-----------------------------------------------------------------------------
(* Data bridges: numbers *)

Messages(queue) == {queue[i] : i \in DOMAIN queue}

\* Every call, and every subscription, takes a number.
CountersAreBounded ==
    \A s \in Session, t \in Target : counter[s][t] <= calls + faults + 1

\* A message is about a call of this page, and of no other.
IsAbout(s, m) ==
    /\ m.id <= counter[s][m.target]
    /\ \A p \in pending[s][m.target] : p[1] = m.id => p[2] = m.call

\* The calls of a page that was not loaded again, and the answers it gets.
PageNumbers ==
    \A s \in Session \ reloaded :
        /\ \A m \in Messages(toServer[s]) : m.kind # "answer" => IsAbout(s, m)
        /\ \A m \in Messages(toClient[s]) : m.kind = "answer" => IsAbout(s, m)

\* The calls of the bridges of the server, and the answers they get.
ServerNumbers ==
    \A s \in Session :
        /\ \A m \in Messages(toServer[s]) :
              /\ m.kind = "answer" => m.id = m.call
              /\ m.kind = "data" => m.call > 0
              /\ m.kind = "subscribe" => m.call = 0
        /\ \A m \in Messages(toClient[s]) :
              /\ m.kind # "subscribe"
              /\ m.kind = "data" => m.id = m.call /\ m.call \in 1..responseId[m.target]

NumbersInv == BridgeTypeOK /\ CountersAreBounded /\ PageNumbers /\ ServerNumbers

\* What a queue holds.
LEMMA QueueOps ==
    ASSUME NEW queue \in Seq(Message)
    PROVE  /\ Messages(queue) \subseteq Message /\ Messages(<<>>) = {}
           /\ queue # <<>> => /\ Head(queue) \in Messages(queue) /\ Tail(queue) \in Seq(Message)
                              /\ Messages(Tail(queue)) \subseteq Messages(queue)
           /\ \A m \in Message : /\ Append(queue, m) \in Seq(Message)
                                 /\ Messages(Append(queue, m)) = Messages(queue) \cup {m}
<1> USE DEF Messages
<1>1. Messages(queue) \subseteq Message /\ Messages(<<>>) = {}
  OBVIOUS
<1>2. ASSUME queue # <<>>
      PROVE  /\ Head(queue) \in Messages(queue) /\ Tail(queue) \in Seq(Message)
             /\ Messages(Tail(queue)) \subseteq Messages(queue)
  <2>1. /\ Len(queue) \in Nat \ {0} /\ DOMAIN queue = 1..Len(queue) /\ Head(queue) = queue[1]
        /\ Tail(queue) \in Seq(Message) /\ DOMAIN Tail(queue) = 1..(Len(queue) - 1)
        /\ \A i \in 1..(Len(queue) - 1) : Tail(queue)[i] = queue[i + 1]
    BY <1>2
  <2>2. ASSUME NEW i \in DOMAIN Tail(queue) PROVE Tail(queue)[i] \in Messages(queue)
    <3>1. i + 1 \in DOMAIN queue /\ Tail(queue)[i] = queue[i + 1]
      BY <2>1
    <3> QED BY <3>1
  <2>3. 1 \in DOMAIN queue
    BY <2>1
  <2> QED BY <2>1, <2>2, <2>3
<1>3. ASSUME NEW m \in Message
      PROVE  /\ Append(queue, m) \in Seq(Message)
             /\ Messages(Append(queue, m)) = Messages(queue) \cup {m}
  <2>1. /\ Len(queue) \in Nat /\ DOMAIN queue = 1..Len(queue)
        /\ Append(queue, m) \in Seq(Message) /\ DOMAIN Append(queue, m) = 1..(Len(queue) + 1)
        /\ \A i \in 1..Len(queue) : Append(queue, m)[i] = queue[i]
        /\ Append(queue, m)[Len(queue) + 1] = m
    OBVIOUS
  <2>2. ASSUME NEW i \in DOMAIN Append(queue, m)
        PROVE  Append(queue, m)[i] \in Messages(queue) \cup {m}
    <3>1. CASE i = Len(queue) + 1
      BY <2>1, <3>1
    <3>2. CASE i \in 1..Len(queue)
      BY <2>1, <3>2
    <3> QED BY <2>1, <3>1, <3>2
  <2>3. ASSUME NEW i \in DOMAIN queue PROVE queue[i] \in Messages(Append(queue, m))
    <3>1. i \in DOMAIN Append(queue, m) /\ queue[i] = Append(queue, m)[i]
      BY <2>1
    <3> QED BY <3>1
  <2>4. m \in Messages(Append(queue, m))
    <3>1. Len(queue) + 1 \in DOMAIN Append(queue, m)
      BY <2>1
    <3> QED BY <2>1, <3>1
  <2> QED BY <2>1, <2>2, <2>3, <2>4
<1> QED BY <1>1, <1>2, <1>3

\* A message is sent by a page, and by the server; or is taken from a queue.
LEMMA SayQueues ==
    ASSUME BridgeTypeOK, NEW s \in Session, NEW m \in Message, Say(s, m)
    PROVE  /\ toServer' \in [Session -> Seq(Message)]
           /\ \A u \in Session : Messages(toServer'[u])
                                     = Messages(toServer[u]) \cup (IF u = s THEN {m} ELSE {})
<1>1. ASSUME NEW u \in Session
      PROVE  /\ toServer'[u] \in Seq(Message)
             /\ Messages(toServer'[u]) = Messages(toServer[u]) \cup (IF u = s THEN {m} ELSE {})
  <2>1. toServer[u] \in Seq(Message)
    BY DEF BridgeTypeOK
  <2>2. CASE u = s
    <3>1. toServer'[u] = Append(toServer[u], m)
      BY <2>2 DEF Say, BridgeTypeOK
    <3> HIDE DEF Messages
    <3> QED BY <2>1, <2>2, <3>1, QueueOps
  <2>3. CASE u # s
    <3>1. toServer'[u] = toServer[u]
      BY <2>3 DEF Say, BridgeTypeOK
    <3> QED BY <2>1, <2>3, <3>1
  <2> QED BY <2>2, <2>3
<1>2. toServer' = [u \in Session |-> toServer'[u]]
  BY DEF Say, BridgeTypeOK
<1> QED BY <1>1, <1>2

LEMMA TellQueues ==
    ASSUME BridgeTypeOK, NEW S, NEW m \in Message, Tell(S, m)
    PROVE  /\ toClient' \in [Session -> Seq(Message)]
           /\ \A u \in Session : Messages(toClient'[u])
                                     = Messages(toClient[u]) \cup (IF u \in S THEN {m} ELSE {})
<1>1. ASSUME NEW u \in Session
      PROVE  /\ toClient'[u] \in Seq(Message)
             /\ Messages(toClient'[u]) = Messages(toClient[u]) \cup (IF u \in S THEN {m} ELSE {})
  <2>1. toClient[u] \in Seq(Message)
    BY DEF BridgeTypeOK
  <2>2. CASE u \in S
    <3>1. toClient'[u] = Append(toClient[u], m)
      BY <2>2 DEF Tell
    <3> HIDE DEF Messages
    <3> QED BY <2>1, <2>2, <3>1, QueueOps
  <2>3. CASE u \notin S
    <3>1. toClient'[u] = toClient[u]
      BY <2>3 DEF Tell
    <3> QED BY <2>1, <2>3, <3>1
  <2> QED BY <2>2, <2>3
<1>2. toClient' = [u \in Session |-> toClient'[u]]
  BY DEF Tell
<1> QED BY <1>1, <1>2

LEMMA TakeQueues ==
    ASSUME NEW queues \in [Session -> Seq(Message)], NEW s \in Session, queues[s] # <<>>
    PROVE  /\ [queues EXCEPT ![s] = Tail(@)] \in [Session -> Seq(Message)]
           /\ \A u \in Session :
                 Messages([queues EXCEPT ![s] = Tail(@)][u]) \subseteq Messages(queues[u])
           /\ Head(queues[s]) \in Messages(queues[s]) /\ Head(queues[s]) \in Message
<1>1. /\ Head(queues[s]) \in Messages(queues[s]) /\ Tail(queues[s]) \in Seq(Message)
      /\ Messages(Tail(queues[s])) \subseteq Messages(queues[s])
      /\ Messages(queues[s]) \subseteq Message
  BY QueueOps
<1>2. ASSUME NEW u \in Session
      PROVE  /\ [queues EXCEPT ![s] = Tail(@)][u] \in Seq(Message)
             /\ Messages([queues EXCEPT ![s] = Tail(@)][u]) \subseteq Messages(queues[u])
  <2>1. CASE u = s
    <3>1. [queues EXCEPT ![s] = Tail(@)][u] = Tail(queues[s])
      BY <2>1
    <3> QED BY <1>1, <2>1, <3>1
  <2>2. CASE u # s
    <3>1. [queues EXCEPT ![s] = Tail(@)][u] = queues[u]
      BY <2>2
    <3> QED BY <3>1
  <2> QED BY <2>1, <2>2
<1>3. [queues EXCEPT ![s] = Tail(@)] \in [Session -> Seq(Message)]
  BY <1>1
<1> QED BY <1>1, <1>2, <1>3

\* The numbers of the messages that are sent.
LEMMA Numbers ==
    ASSUME BridgeTypeOK, CountersAreBounded
    PROVE  /\ MaxCalls \in Nat /\ MaxFaults \in Nat /\ MaxData \in Nat
           /\ calls \in Nat /\ faults \in Nat /\ calls <= MaxCalls /\ faults <= MaxFaults
           /\ \A s \in Session, t \in Target :
                 /\ counter[s][t] \in Nat /\ counter[s][t] <= calls + faults + 1
                 /\ pending[s][t] \subseteq Id \X (1..MaxCalls)
           /\ \A t \in Target : responseId[t] \in Nat /\ responseId[t] <= MaxData
           /\ Id = 0..(MaxCalls + MaxFaults + MaxData + 1)
BY BoundAssumption DEF BridgeTypeOK, CountersAreBounded, Id

\* A number that was bounded by the calls and faults still is, with a call and a number more.
LEMMA StillBounded ==
    \A c, d, k, f \in Nat : d <= c + 1 /\ c <= k + f + 1 => d <= (k + 1) + f + 1
OBVIOUS

\* What the calls and faults bound is a number a message can have.
LEMMA BoundedById ==
    \A d, k, f, K, F, D \in Nat : d <= k + f + 1 /\ k <= K /\ f <= F => d <= K + F + D + 1
OBVIOUS

\* A page numbers a message.
CountsOne(s, t) == counter' = [counter EXCEPT ![s][t] = @ + 1]

\* It is the only counter that changes.
LEMMA OneCounterMore ==
    ASSUME BridgeTypeOK, NEW s \in Session, NEW t \in Target, CountsOne(s, t)
    PROVE  \A u \in Session, r \in Target :
              counter'[u][r] = IF u = s /\ r = t THEN counter[u][r] + 1 ELSE counter[u][r]
<1>1. counter \in [Session -> [Target -> Id]]
  BY DEF BridgeTypeOK
<1>2. /\ counter'[s] = [counter[s] EXCEPT ![t] = @ + 1]
      /\ \A u \in Session \ {s} : counter'[u] = counter[u]
  BY <1>1 DEF CountsOne
<1>3. counter[s] \in [Target -> Id]
  BY <1>1
<1>4. /\ counter'[s][t] = counter[s][t] + 1
      /\ \A r \in Target \ {t} : counter'[s][r] = counter[s][r]
  BY <1>2, <1>3
<1> QED BY <1>2, <1>4

\* What a page does with its counters and its callbacks.
LEMMA SubscribeTypes ==
    ASSUME BridgeTypeOK, CountersAreBounded, NEW s \in Session, Subscribe(s)
    PROVE  /\ BridgeTypeOK' /\ CountersAreBounded'
           /\ [kind |-> "subscribe", target |-> "global", id |-> counter'[s]["global"], call |-> 0]
                  \in Message
<1>0. "global" \in Target
  BY DEF Target
<1>1. /\ counter' = [counter EXCEPT ![s]["global"] = @ + 1] /\ pending' = pending /\ calls' = calls
      /\ faults' \in 0..MaxFaults /\ faults <= faults'
      /\ counter[s]["global"] + 1 <= calls + faults' + 1
  <2>1. /\ counter' = [counter EXCEPT ![s]["global"] = @ + 1] /\ pending' = pending
        /\ calls' = calls
        /\ faults < MaxFaults \/ counter[s]["global"] = 0
        /\ faults' = IF counter[s]["global"] = 0 THEN faults ELSE faults + 1
    BY DEF Subscribe
  <2>2. /\ counter[s]["global"] \in Nat /\ counter[s]["global"] <= calls + faults + 1
        /\ calls \in Nat /\ faults \in Nat /\ MaxFaults \in Nat /\ faults <= MaxFaults
    BY <1>0, Numbers
  <2>3. CASE counter[s]["global"] = 0
    BY <2>1, <2>2, <2>3
  <2>4. CASE counter[s]["global"] # 0
    BY <2>1, <2>2, <2>4
  <2> QED BY <2>3, <2>4
<1>2. \A u \in Session, t \in Target :
          /\ counter'[u][t] = IF u = s /\ t = "global" THEN counter[u][t] + 1 ELSE counter[u][t]
          /\ counter'[u][t] \in Nat /\ counter'[u][t] <= calls' + faults' + 1
  <2> SUFFICES ASSUME NEW u \in Session, NEW t \in Target
               PROVE  /\ counter'[u][t] = IF u = s /\ t = "global" THEN counter[u][t] + 1
                                          ELSE counter[u][t]
                      /\ counter'[u][t] \in Nat /\ counter'[u][t] <= calls' + faults' + 1
    OBVIOUS
  <2>1. counter'[u][t] = IF u = s /\ t = "global" THEN counter[u][t] + 1 ELSE counter[u][t]
    <3>1. CountsOne(s, "global")
      BY <1>1 DEF CountsOne
    <3> QED BY <1>0, <3>1, OneCounterMore
  <2>2. /\ counter[u][t] \in Nat /\ counter[u][t] <= calls + faults + 1 /\ calls \in Nat
        /\ faults \in Nat
    BY Numbers
  <2>3. CASE u = s /\ t = "global"
    <3>1. counter'[u][t] = counter[s]["global"] + 1
      BY <2>1, <2>3
    <3> QED BY <1>1, <2>1, <2>2, <2>3, <3>1
  <2>4. CASE ~(u = s /\ t = "global")
    <3>1. counter'[u][t] = counter[u][t]
      BY <2>1, <2>4
    <3>2. calls + faults + 1 <= calls + faults' + 1 /\ faults' \in Nat
      BY <1>1, <2>2
    <3> QED BY <1>1, <2>1, <2>2, <3>1, <3>2
  <2> QED BY <2>3, <2>4
<1>3. \A u \in Session, t \in Target : counter'[u][t] \in Id
  <2> SUFFICES ASSUME NEW u \in Session, NEW t \in Target PROVE counter'[u][t] \in Id
    OBVIOUS
  <2>2. /\ counter'[u][t] \in Nat /\ counter'[u][t] <= calls' + faults' + 1
        /\ calls' \in Nat /\ faults' \in Nat /\ calls' <= MaxCalls /\ faults' <= MaxFaults
        /\ MaxCalls \in Nat /\ MaxFaults \in Nat /\ MaxData \in Nat
        /\ Id = 0..(MaxCalls + MaxFaults + MaxData + 1)
    BY <1>1, <1>2, Numbers
  <2>3. counter'[u][t] <= MaxCalls + MaxFaults + MaxData + 1
    BY <2>2, BoundedById
  <2> QED BY <2>2, <2>3
<1>4. counter' \in [Session -> [Target -> Id]]
  <2>1. \A u \in Session : counter'[u] \in [Target -> Id]
    BY <1>1, <1>3 DEF BridgeTypeOK
  <2> QED BY <1>1, <2>1 DEF BridgeTypeOK
<1>5. [kind |-> "subscribe", target |-> "global", id |-> counter'[s]["global"], call |-> 0]
          \in Message
  BY <1>0, <1>3 DEF Message
<1>6. toServer' \in [Session -> Seq(Message)]
  BY <1>5, SayQueues DEF Subscribe
<1>7. \A u \in Session, t \in Target : \A p \in pending'[u][t] : p[1] \in 1..counter'[u][t]
  <2> SUFFICES ASSUME NEW u \in Session, NEW t \in Target, NEW p \in pending[u][t]
               PROVE  p[1] \in 1..counter'[u][t]
    BY <1>1
  <2>1. p[1] \in 1..counter[u][t] /\ counter[u][t] \in Nat
    BY Numbers DEF BridgeTypeOK
  <2>2. counter'[u][t] = counter[u][t] \/ counter'[u][t] = counter[u][t] + 1
    BY <1>2
  <2> QED BY <2>1, <2>2
<1>8. BridgeTypeOK'
  BY <1>1, <1>4, <1>6, <1>7 DEF Subscribe, BridgeTypeOK, serverVars, historyVars
<1> QED BY <1>2, <1>5, <1>8 DEF CountersAreBounded

\* The calls of a page, its counters and callbacks.
LEMMA CallTypes ==
    ASSUME BridgeTypeOK, CountersAreBounded, NEW s \in Session, NEW t \in Target, Call(s, t)
    PROVE  /\ BridgeTypeOK' /\ CountersAreBounded'
           /\ [kind |-> "data", target |-> t, id |-> counter'[s][t], call |-> calls'] \in Message
           /\ \A u \in Session, r \in Target :
                 /\ counter'[u][r] = IF u = s /\ r = t THEN counter[u][r] + 1 ELSE counter[u][r]
                 /\ u = s /\ r = t => pending'[u][r]
                                         \subseteq pending[u][r] \cup {<<counter'[s][t], calls'>>}
                 /\ ~(u = s /\ r = t) => pending'[u][r] = pending[u][r]
<1>1. PICK callback \in BOOLEAN : NumberCall(s, t, callback)
  BY DEF Call
<1>2. /\ calls' = calls + 1 /\ calls' \in 1..MaxCalls /\ faults' = faults
      /\ counter' = [counter EXCEPT ![s][t] = @ + 1]
      /\ pending' = IF callback THEN [pending EXCEPT ![s][t] = @ \cup {<<counter'[s][t], calls'>>}]
                    ELSE pending
  <2>1. calls' = calls + 1 /\ calls < MaxCalls /\ faults' = faults
    BY DEF Call
  <2>2. calls \in Nat /\ MaxCalls \in Nat
    BY Numbers
  <2>3. calls' \in 1..MaxCalls
    BY <2>1, <2>2
  <2> QED BY <1>1, <2>1, <2>3 DEF NumberCall
<1>3. ASSUME NEW u \in Session, NEW r \in Target
      PROVE  /\ counter'[u][r] = IF u = s /\ r = t THEN counter[u][r] + 1 ELSE counter[u][r]
             /\ counter'[u][r] \in Nat /\ counter'[u][r] <= calls' + faults' + 1
             /\ counter'[u][r] \in Id
  <2>1. counter'[u][r] = IF u = s /\ r = t THEN counter[u][r] + 1 ELSE counter[u][r]
    <3>1. CountsOne(s, t)
      BY <1>2 DEF CountsOne
    <3> QED BY <3>1, OneCounterMore
  <2>2. /\ counter[u][r] \in Nat /\ counter[u][r] <= calls + faults + 1
        /\ calls \in Nat /\ faults \in Nat
        /\ MaxCalls \in Nat /\ MaxFaults \in Nat /\ MaxData \in Nat /\ faults <= MaxFaults
        /\ Id = 0..(MaxCalls + MaxFaults + MaxData + 1)
    BY Numbers
  <2>3. counter'[u][r] \in Nat /\ counter'[u][r] <= counter[u][r] + 1
    <3>1. counter'[u][r] = counter[u][r] \/ counter'[u][r] = counter[u][r] + 1
      BY <2>1
    <3> QED BY <2>2, <3>1
  <2>4. counter'[u][r] <= calls' + faults' + 1
    BY <1>2, <2>2, <2>3, StillBounded
  <2>5. calls' \in Nat /\ calls' <= MaxCalls /\ faults' = faults
    BY <1>2, <2>2
  <2>6. counter'[u][r] <= MaxCalls + MaxFaults + MaxData + 1
    BY <2>2, <2>3, <2>4, <2>5, BoundedById
  <2>7. counter'[u][r] \in Id
    BY <2>2, <2>3, <2>6
  <2> QED BY <2>1, <2>3, <2>4, <2>7
<1>4. counter' \in [Session -> [Target -> Id]]
  <2>1. \A u \in Session : counter'[u] \in [Target -> Id]
    BY <1>2, <1>3 DEF BridgeTypeOK
  <2> QED BY <1>2, <2>1 DEF BridgeTypeOK
<1>5. ASSUME NEW u \in Session, NEW r \in Target
      PROVE  /\ u = s /\ r = t =>
                   pending'[u][r] \subseteq pending[u][r] \cup {<<counter'[s][t], calls'>>}
             /\ ~(u = s /\ r = t) => pending'[u][r] = pending[u][r]
             /\ pending'[u][r] \in SUBSET (Id \X (1..MaxCalls))
             /\ \A p \in pending'[u][r] : p[1] \in 1..counter'[u][r]
  <2>1. pending[u][r] \subseteq Id \X (1..MaxCalls)
    BY DEF BridgeTypeOK
  <2>2. /\ u = s /\ r = t =>
              pending'[u][r] \subseteq pending[u][r] \cup {<<counter'[s][t], calls'>>}
        /\ ~(u = s /\ r = t) => pending'[u][r] = pending[u][r]
    BY <1>2 DEF BridgeTypeOK
  <2>3. <<counter'[s][t], calls'>> \in Id \X (1..MaxCalls)
    BY <1>2, <1>3
  <2>4. ASSUME NEW p \in pending'[u][r] PROVE p[1] \in 1..counter'[u][r]
    <3>1. /\ counter[u][r] \in Nat
          /\ counter'[u][r] = IF u = s /\ r = t THEN counter[u][r] + 1 ELSE counter[u][r]
      BY <1>3, Numbers
    <3>2. CASE p \in pending[u][r]
      <4>1. p[1] \in 1..counter[u][r]
        BY <3>2 DEF BridgeTypeOK
      <4> QED BY <3>1, <4>1
    <3>3. CASE p \notin pending[u][r]
      <4>1. u = s /\ r = t /\ p = <<counter'[s][t], calls'>>
        BY <2>2, <2>4, <3>3
      <4> QED BY <3>1, <4>1
    <3> QED BY <3>2, <3>3
  <2> QED BY <2>1, <2>2, <2>3, <2>4
<1>6. pending' \in [Session -> [Target -> SUBSET (Id \X (1..MaxCalls))]]
  <2>1. \A u \in Session : pending'[u] \in [Target -> SUBSET (Id \X (1..MaxCalls))]
    <3> SUFFICES ASSUME NEW u \in Session
                 PROVE  pending'[u] \in [Target -> SUBSET (Id \X (1..MaxCalls))]
      OBVIOUS
    <3>1. \A r \in Target : pending'[u][r] \in SUBSET (Id \X (1..MaxCalls))
      BY <1>5
    <3>2. pending'[u] = [r \in Target |-> pending'[u][r]]
      BY <1>2 DEF BridgeTypeOK
    <3> QED BY <3>1, <3>2
  <2>2. pending' = [u \in Session |-> pending'[u]]
    BY <1>2 DEF BridgeTypeOK
  <2> QED BY <2>1, <2>2
<1>7. [kind |-> "data", target |-> t, id |-> counter'[s][t], call |-> calls'] \in Message
  BY <1>2, <1>3 DEF Message
<1>8. toServer' \in [Session -> Seq(Message)]
  BY <1>7, SayQueues DEF Call
<1>9. BridgeTypeOK'
  <2>1. \A u \in Session, r \in Target : \A p \in pending'[u][r] : p[1] \in 1..counter'[u][r]
    BY <1>5
  <2>2. calls' \in 0..MaxCalls
    BY <1>2
  <2> QED BY <1>4, <1>6, <1>8, <2>1, <2>2 DEF Call, BridgeTypeOK, serverVars, historyVars
<1> QED BY <1>3, <1>5, <1>7, <1>9 DEF CountersAreBounded

\* What a message is about stays: counters do not decrease, and what becomes
\* pending has a new number.
LEMMA NumbersAreNew ==
    ASSUME BridgeTypeOK, BridgeTypeOK', PageNumbers, reloaded \subseteq reloaded',
           \A u \in Session \ reloaded', r \in Target :
               /\ counter[u][r] <= counter'[u][r]
               /\ \A p \in pending'[u][r] : p \in pending[u][r] \/ p[1] > counter[u][r],
           \A u \in Session : \A m \in Messages(toServer'[u]) :
               m.kind # "answer" => m \in Messages(toServer[u]) \/ IsAbout(u, m)',
           \A u \in Session : \A m \in Messages(toClient'[u]) :
               m.kind = "answer" => m \in Messages(toClient[u]) \/ IsAbout(u, m)
    PROVE  PageNumbers'
<1>1. ASSUME NEW u \in Session \ reloaded', NEW m \in Message, IsAbout(u, m)
      PROVE  IsAbout(u, m)'
  <2>1. m.target \in Target /\ m.id \in Nat
    BY DEF Message, Id
  <2>2. counter[u][m.target] \in Nat /\ counter'[u][m.target] \in Nat
    <3>1. Id \subseteq Nat
      BY BoundAssumption DEF Id
    <3>2. counter \in [Session -> [Target -> Id]] /\ counter' \in [Session -> [Target -> Id]]
      BY DEF BridgeTypeOK
    <3> QED BY <2>1, <3>1, <3>2
  <2>3. /\ counter[u][m.target] <= counter'[u][m.target]
        /\ \A p \in pending'[u][m.target] : p \in pending[u][m.target]
                                            \/ p[1] > counter[u][m.target]
    BY <2>1
  <2>4. /\ m.id <= counter[u][m.target]
        /\ \A p \in pending[u][m.target] : p[1] = m.id => p[2] = m.call
    BY <1>1 DEF IsAbout
  <2>5. m.id <= counter'[u][m.target]
    BY <2>1, <2>2, <2>3, <2>4
  <2>6. ASSUME NEW p \in pending'[u][m.target], p[1] = m.id PROVE p[2] = m.call
    <3>1. p \in pending[u][m.target]
      BY <2>1, <2>2, <2>3, <2>4, <2>6
    <3> QED BY <2>4, <2>6, <3>1
  <2> QED BY <2>5, <2>6 DEF IsAbout
<1>2. ASSUME NEW u \in Session \ reloaded'
      PROVE  /\ Messages(toServer[u]) \subseteq Message /\ Messages(toClient[u]) \subseteq Message
             /\ \A m \in Messages(toServer[u]) : m.kind # "answer" => IsAbout(u, m)
             /\ \A m \in Messages(toClient[u]) : m.kind = "answer" => IsAbout(u, m)
             /\ Messages(toClient'[u]) \subseteq Message
  <2>1. /\ toServer[u] \in Seq(Message) /\ toClient[u] \in Seq(Message)
        /\ toClient'[u] \in Seq(Message)
    BY DEF BridgeTypeOK
  <2>2. u \in Session \ reloaded
    OBVIOUS
  <2> HIDE DEF Messages
  <2> QED BY <2>1, <2>2, QueueOps DEF PageNumbers
<1>3. ASSUME NEW u \in Session \ reloaded', NEW m \in Messages(toServer'[u]), m.kind # "answer"
      PROVE  IsAbout(u, m)'
  BY <1>1, <1>2, <1>3
<1>4. ASSUME NEW u \in Session \ reloaded', NEW m \in Messages(toClient'[u]), m.kind = "answer"
      PROVE  IsAbout(u, m)'
  BY <1>1, <1>2, <1>4
<1> QED BY <1>3, <1>4 DEF PageNumbers

LEMMA SubscribeKeepsNumbers ==
    ASSUME NumbersInv, NEW s \in Session, Subscribe(s)
    PROVE  NumbersInv'
<1> DEFINE n == counter'[s]["global"]
           sent == [kind |-> "subscribe", target |-> "global", id |-> n, call |-> 0]
<1>1. /\ BridgeTypeOK /\ CountersAreBounded /\ PageNumbers /\ ServerNumbers
      /\ BridgeTypeOK' /\ CountersAreBounded' /\ sent \in Message
  BY SubscribeTypes DEF NumbersInv
<1>2. \A u \in Session : /\ Messages(toServer'[u])
                                = Messages(toServer[u]) \cup (IF u = s THEN {sent} ELSE {})
                         /\ toClient'[u] = toClient[u]
  BY <1>1, SayQueues DEF Subscribe
<1>3. \A u \in Session, r \in Target :
          /\ counter'[u][r] = IF u = s /\ r = "global" THEN counter[u][r] + 1 ELSE counter[u][r]
          /\ pending'[u][r] = pending[u][r]
          /\ counter[u][r] \in Nat
  <2>1. CountsOne(s, "global") /\ pending' = pending /\ "global" \in Target
    BY DEF Subscribe, Target, CountsOne
  <2>2. \A u \in Session, r \in Target :
            counter'[u][r] = IF u = s /\ r = "global" THEN counter[u][r] + 1 ELSE counter[u][r]
    BY <1>1, <2>1, OneCounterMore
  <2>3. \A u \in Session, r \in Target : counter[u][r] \in Nat
    BY <1>1, Numbers
  <2> QED BY <2>1, <2>2, <2>3
<1>4. reloaded' = reloaded /\ responseId' = responseId
  BY DEF Subscribe, historyVars, serverVars
<1>5. PageNumbers'
  <2>1. \A u \in Session \ reloaded', r \in Target :
            /\ counter[u][r] <= counter'[u][r]
            /\ \A p \in pending'[u][r] : p \in pending[u][r] \/ p[1] > counter[u][r]
    BY <1>3
  <2>2. ASSUME NEW m, m = sent PROVE IsAbout(s, m)'
    <3>1. "global" \in Target /\ m.target = "global" /\ m.id = n /\ n = counter[s]["global"] + 1
      BY <1>3, <2>2 DEF Target
    <3>2. \A p \in pending'[s]["global"] : p[1] \in 1..counter[s]["global"]
      BY <1>1, <1>3, <3>1 DEF BridgeTypeOK
    <3>3. counter[s]["global"] \in Nat
      BY <1>3, <3>1
    <3>4. \A p \in pending'[s]["global"] : p[1] # n
      BY <3>1, <3>2, <3>3
    <3>5. n <= counter'[s]["global"]
      BY <3>1, <3>3
    <3> QED BY <3>1, <3>4, <3>5 DEF IsAbout
  <2>3. \A u \in Session : \A m \in Messages(toServer'[u]) :
            m.kind # "answer" => m \in Messages(toServer[u]) \/ IsAbout(u, m)'
    BY <1>2, <2>2
  <2>4. \A u \in Session : \A m \in Messages(toClient'[u]) :
            m.kind = "answer" => m \in Messages(toClient[u]) \/ IsAbout(u, m)
    BY <1>2
  <2>5. reloaded \subseteq reloaded'
    BY <1>4
  <2> QED BY <1>1, <2>1, <2>3, <2>4, <2>5, NumbersAreNew
<1>6. ServerNumbers'
  BY <1>1, <1>2, <1>4 DEF ServerNumbers
<1> QED BY <1>1, <1>5, <1>6 DEF NumbersInv

LEMMA CallKeepsNumbers ==
    ASSUME NumbersInv, NEW s \in Session, NEW t \in Target, Call(s, t)
    PROVE  NumbersInv'
<1> DEFINE n == counter'[s][t]
           sent == [kind |-> "data", target |-> t, id |-> n, call |-> calls']
<1>1. /\ BridgeTypeOK /\ CountersAreBounded /\ PageNumbers /\ ServerNumbers
      /\ BridgeTypeOK' /\ CountersAreBounded' /\ sent \in Message
  BY CallTypes DEF NumbersInv
<1>2. \A u \in Session : /\ Messages(toServer'[u])
                                = Messages(toServer[u]) \cup (IF u = s THEN {sent} ELSE {})
                         /\ toClient'[u] = toClient[u]
  BY <1>1, SayQueues DEF Call
<1>3. \A u \in Session, r \in Target :
          /\ counter'[u][r] = IF u = s /\ r = t THEN counter[u][r] + 1 ELSE counter[u][r]
          /\ u = s /\ r = t => pending'[u][r] \subseteq pending[u][r] \cup {<<n, calls'>>}
          /\ ~(u = s /\ r = t) => pending'[u][r] = pending[u][r]
          /\ counter[u][r] \in Nat
  <2>1. \A u \in Session, r \in Target : counter[u][r] \in Nat
    BY <1>1, Numbers
  <2> QED BY <1>1, <2>1, CallTypes
<1>4. reloaded' = reloaded /\ responseId' = responseId /\ calls' > 0
  <2>1. calls' = calls + 1 /\ calls \in Nat
    BY <1>1, Numbers DEF Call
  <2> QED BY <2>1 DEF Call, historyVars, serverVars
<1>5. PageNumbers'
  <2>1. \A u \in Session \ reloaded', r \in Target :
            /\ counter[u][r] <= counter'[u][r]
            /\ \A p \in pending'[u][r] : p \in pending[u][r] \/ p[1] > counter[u][r]
    <3> SUFFICES ASSUME NEW u \in Session \ reloaded', NEW r \in Target
                 PROVE  /\ counter[u][r] <= counter'[u][r]
                        /\ \A p \in pending'[u][r] : p \in pending[u][r] \/ p[1] > counter[u][r]
      OBVIOUS
    <3>1. counter[u][r] \in Nat /\ counter[u][r] <= counter'[u][r]
      BY <1>3
    <3>2. CASE u = s /\ r = t
      <4>1. n = counter[u][r] + 1 /\ n > counter[u][r]
        BY <1>3, <3>2
      <4>2. pending'[u][r] \subseteq pending[u][r] \cup {<<n, calls'>>}
        BY <1>3, <3>2
      <4> HIDE DEF n
      <4> QED BY <3>1, <4>1, <4>2
    <3>3. CASE ~(u = s /\ r = t)
      BY <1>3, <3>1, <3>3
    <3> QED BY <3>2, <3>3
  <2>2. ASSUME NEW m, m = sent PROVE IsAbout(s, m)'
    <3>1. m.target = t /\ m.id = n /\ n = counter[s][t] + 1 /\ m.call = calls'
          /\ counter[s][t] \in Nat
      BY <1>3, <2>2
    <3>2. ASSUME NEW p \in pending'[s][t], p[1] = n PROVE p[2] = calls'
      <4>1. CASE p \in pending[s][t]
        <5>1. p[1] \in 1..counter[s][t]
          BY <1>1, <4>1 DEF BridgeTypeOK
        <5> QED BY <3>1, <3>2, <5>1
      <4>2. CASE p \notin pending[s][t]
        BY <1>3, <3>2, <4>2
      <4> QED BY <4>1, <4>2
    <3>3. n <= counter'[s][t]
      BY <3>1
    <3> QED BY <3>1, <3>2, <3>3 DEF IsAbout
  <2>3. \A u \in Session : \A m \in Messages(toServer'[u]) :
            m.kind # "answer" => m \in Messages(toServer[u]) \/ IsAbout(u, m)'
    BY <1>2, <2>2
  <2>4. \A u \in Session : \A m \in Messages(toClient'[u]) :
            m.kind = "answer" => m \in Messages(toClient[u]) \/ IsAbout(u, m)
    BY <1>2
  <2>5. reloaded \subseteq reloaded'
    BY <1>4
  <2> QED BY <1>1, <2>1, <2>3, <2>4, <2>5, NumbersAreNew
<1>6. ServerNumbers'
  BY <1>1, <1>2, <1>4 DEF ServerNumbers
<1> QED BY <1>1, <1>5, <1>6 DEF NumbersInv

\* The page takes a message: the callbacks that are called are forgotten.
LEMMA ReceiveKeepsNumbers ==
    ASSUME NumbersInv, NEW s \in Session, Receive(s)
    PROVE  NumbersInv'
<1> DEFINE m == Head(toClient[s])
<1>1. /\ BridgeTypeOK /\ CountersAreBounded /\ PageNumbers /\ ServerNumbers
      /\ toClient[s] # <<>> /\ toClient' = [toClient EXCEPT ![s] = Tail(@)]
      /\ subs' = subs /\ responseId' = responseId /\ waiting' = waiting /\ attached' = attached
      /\ counter' = counter /\ calls' = calls /\ reloaded' = reloaded /\ faults' = faults
      /\ lostAt' = lostAt
  BY DEF NumbersInv, Receive, serverVars
<1>2. /\ toClient' \in [Session -> Seq(Message)]
      /\ \A u \in Session : Messages(toClient'[u]) \subseteq Messages(toClient[u])
      /\ m \in Messages(toClient[s]) /\ m \in Message
  <2>1. toClient \in [Session -> Seq(Message)]
    BY <1>1 DEF BridgeTypeOK
  <2> HIDE DEF Messages
  <2> QED BY <1>1, <2>1, TakeQueues
<1> HIDE DEF m
<1>3. BridgeTypeOK' /\ (\A u \in Session, r \in Target : pending'[u][r] \subseteq pending[u][r])
      /\ \A u \in Session : \A n \in Messages(toServer'[u]) :
            n \in Messages(toServer[u]) \/ (n.kind = "answer" /\ n.id = n.call)
  <2>1. CASE HearData(s, m)
    <3> DEFINE reply == [m EXCEPT !.kind = "answer"]
    <3>1. reply \in Message /\ m.target \in Target
      BY <1>2 DEF Message
    <3>2. /\ toServer' \in [Session -> Seq(Message)]
          /\ \A u \in Session : Messages(toServer'[u])
                                    = Messages(toServer[u]) \cup (IF u = s THEN {reply} ELSE {})
      BY <1>1, <2>1, <3>1, SayQueues DEF HearData
    <3>3. m.id = m.call /\ m.call \in 1..responseId[m.target]
      BY <1>1, <1>2, <2>1 DEF ServerNumbers, HearData
    <3>4. m.call \in 0..MaxData
      BY <1>1, <3>1, <3>3, Numbers
    <3>5. seen' \in [Session -> 0..MaxData] /\ pending' = pending
      BY <1>1, <2>1, <3>4 DEF BridgeTypeOK, HearData
    <3>6. reply.kind = "answer" /\ reply.id = reply.call
      BY <1>2, <3>3 DEF Message
    <3> HIDE DEF reply
    <3>7. BridgeTypeOK'
      BY <1>1, <1>2, <3>2, <3>5 DEF BridgeTypeOK
    <3>8. \A u \in Session : \A n \in Messages(toServer'[u]) :
              n \in Messages(toServer[u]) \/ (n.kind = "answer" /\ n.id = n.call)
      BY <3>2, <3>6
    <3> QED BY <3>5, <3>7, <3>8
  <2>2. CASE HearAnswer(s, m)
    <3>1. PICK hit : pending' = [pending EXCEPT ![s][m.target] = @ \ hit]
      BY <2>2 DEF HearAnswer
    <3>2. m.target \in Target
      BY <1>2 DEF Message
    <3>3. \A u \in Session, r \in Target : pending'[u][r] \subseteq pending[u][r]
      BY <1>1, <3>1, <3>2 DEF BridgeTypeOK
    <3>4. pending' \in [Session -> [Target -> SUBSET (Id \X (1..MaxCalls))]]
      BY <1>1, <3>1, <3>2 DEF BridgeTypeOK
    <3>5. seen' \in [Session -> 0..MaxData] /\ toServer' = toServer
      BY <1>1, <2>2, BoundAssumption DEF BridgeTypeOK, HearAnswer
    <3>6. \A u \in Session, r \in Target : \A p \in pending'[u][r] : p[1] \in 1..counter'[u][r]
      BY <1>1, <3>3 DEF BridgeTypeOK
    <3>7. BridgeTypeOK'
      BY <1>1, <1>2, <3>4, <3>5, <3>6 DEF BridgeTypeOK
    <3> QED BY <3>3, <3>5, <3>7
  <2> QED BY <2>1, <2>2 DEF Receive, m
<1>4. CountersAreBounded'
  BY <1>1 DEF CountersAreBounded
<1>5. PageNumbers'
  <2>1. \A u \in Session \ reloaded', r \in Target :
            /\ counter[u][r] <= counter'[u][r]
            /\ \A p \in pending'[u][r] : p \in pending[u][r] \/ p[1] > counter[u][r]
    BY <1>1, <1>3, Numbers
  <2>2. reloaded \subseteq reloaded'
    BY <1>1
  <2>3. \A u \in Session : \A n \in Messages(toServer'[u]) :
            n.kind # "answer" => n \in Messages(toServer[u]) \/ IsAbout(u, n)'
    BY <1>3
  <2>4. \A u \in Session : \A n \in Messages(toClient'[u]) :
            n.kind = "answer" => n \in Messages(toClient[u]) \/ IsAbout(u, n)
    BY <1>2
  <2> QED BY <1>1, <1>3, <2>1, <2>2, <2>3, <2>4, NumbersAreNew
<1>6. ServerNumbers'
  BY <1>1, <1>2, <1>3 DEF ServerNumbers
<1> QED BY <1>3, <1>4, <1>5, <1>6 DEF NumbersInv

LEMMA ReloadKeepsNumbers ==
    ASSUME NumbersInv, NEW s \in Session, Reload(s)
    PROVE  NumbersInv'
<1>1. /\ BridgeTypeOK /\ CountersAreBounded /\ PageNumbers /\ ServerNumbers
      /\ subs' = subs /\ responseId' = responseId /\ waiting' = waiting /\ attached' = attached
      /\ toServer' = toServer /\ toClient' = toClient /\ calls' = calls /\ seen' = seen
      /\ counter' = [counter EXCEPT ![s] = [t \in Target |-> 0]]
      /\ pending' = [pending EXCEPT ![s] = [t \in Target |-> {}]]
      /\ faults' = faults + 1 /\ faults < MaxFaults /\ reloaded' = reloaded \cup {s}
      /\ lostAt' = lostAt
  BY DEF NumbersInv, Reload, serverVars
<1>2. \A u \in Session, r \in Target :
          /\ counter'[u][r] = IF u = s THEN 0 ELSE counter[u][r]
          /\ pending'[u][r] = IF u = s THEN {} ELSE pending[u][r]
  BY <1>1 DEF BridgeTypeOK
<1>3. CountersAreBounded'
  BY <1>1, <1>2, Numbers DEF CountersAreBounded
<1>4. BridgeTypeOK'
  <2>1. 0 \in Id
    BY <1>1, Numbers
  <2>2. counter' \in [Session -> [Target -> Id]]
    BY <1>1, <2>1 DEF BridgeTypeOK
  <2>3. pending' \in [Session -> [Target -> SUBSET (Id \X (1..MaxCalls))]]
    BY <1>1 DEF BridgeTypeOK
  <2>4. \A u \in Session, r \in Target : \A p \in pending'[u][r] : p[1] \in 1..counter'[u][r]
    BY <1>1, <1>2 DEF BridgeTypeOK
  <2>5. faults' \in 0..MaxFaults
    BY <1>1, Numbers
  <2> QED BY <1>1, <2>2, <2>3, <2>4, <2>5 DEF BridgeTypeOK
<1>5. PageNumbers'
  <2>1. ASSUME NEW u \in Session \ reloaded', NEW m \in Messages(toServer[u]) \cup Messages(toClient[u]),
               IsAbout(u, m)
        PROVE  IsAbout(u, m)'
    <3>1. toServer[u] \in Seq(Message) /\ toClient[u] \in Seq(Message)
      BY <1>1 DEF BridgeTypeOK
    <3>2. m \in Message
      <4> HIDE DEF Messages
      <4> QED BY <3>1, QueueOps
    <3>3. m.target \in Target /\ u # s
      BY <1>1, <3>2 DEF Message
    <3> QED BY <1>2, <2>1, <3>3 DEF IsAbout
  <2>2. \A u \in Session \ reloaded' : u \in Session \ reloaded
    BY <1>1
  <2> QED BY <1>1, <2>1, <2>2 DEF PageNumbers
<1>6. ServerNumbers'
  BY <1>1 DEF ServerNumbers
<1> QED BY <1>3, <1>4, <1>5, <1>6 DEF NumbersInv

\* A bridge of the server sends.
LEMMA SendKeepsNumbers ==
    ASSUME NumbersInv, NEW t \in Target, SendData(t)
    PROVE  NumbersInv'
<1> DEFINE n == responseId[t] + 1
           sent == [kind |-> "data", target |-> t, id |-> n, call |-> n]
<1>1. /\ BridgeTypeOK /\ CountersAreBounded /\ PageNumbers /\ ServerNumbers
      /\ attached' = attached /\ toServer' = toServer /\ counter' = counter
      /\ pending' = pending /\ calls' = calls /\ seen' = seen /\ reloaded' = reloaded
      /\ lostAt' = lostAt
      /\ faults' = faults
      /\ responseId' = [responseId EXCEPT ![t] = @ + 1]
      /\ responseId["global"] + responseId["session"] < MaxData
  BY DEF NumbersInv, SendData, pageVars, historyVars
<1>2. n \in 1..MaxData /\ n \in Id /\ responseId[t] < n
  <2>1. /\ responseId["global"] \in Nat /\ responseId["session"] \in Nat
        /\ MaxData \in Nat /\ MaxCalls \in Nat /\ MaxFaults \in Nat
        /\ Id = 0..(MaxCalls + MaxFaults + MaxData + 1)
    BY <1>1, Numbers DEF Target
  <2>2. t = "global" \/ t = "session"
    BY DEF Target
  <2>3. n \in 1..MaxData /\ responseId[t] < n
    BY <1>1, <2>1, <2>2
  <2> QED BY <2>1, <2>3
<1>3. responseId'[t] = n /\ \A r \in Target \ {t} : responseId'[r] = responseId[r]
  BY <1>1 DEF BridgeTypeOK
<1>4. sent \in Message
  BY <1>2 DEF Message
<1>5. /\ waiting' \in [Target -> SUBSET (1..MaxData)] /\ subs' \subseteq Session
      /\ \E S : Tell(S, sent)
  <2> DEFINE kept == [waiting EXCEPT ![t] = @ \cup {n}]
  <2>1. kept \in [Target -> SUBSET (1..MaxData)]
    BY <1>1, <1>2 DEF BridgeTypeOK
  <2>2. CASE t = "session"
    <3>1. Tell(Session, sent) /\ waiting' = kept /\ subs' = subs
      BY <1>3, <2>2 DEF SendData
    <3> QED BY <1>1, <2>1, <3>1 DEF BridgeTypeOK
  <2>3. CASE t # "session"
    <3>1. Tell(subs \cap attached, sent) /\ subs' = subs \cap attached
      BY <1>3, <2>3 DEF SendData, SendToSubscribers
    <3>2. waiting' = waiting \/ waiting' = kept
      BY <1>3, <2>3 DEF SendData
    <3>3. waiting' \in [Target -> SUBSET (1..MaxData)]
      BY <1>1, <2>1, <3>2 DEF BridgeTypeOK
    <3>4. subs' \subseteq Session
      BY <1>1, <3>1 DEF BridgeTypeOK
    <3> QED BY <3>1, <3>3, <3>4
  <2> QED BY <2>2, <2>3
<1>6. PICK S : Tell(S, sent)
  BY <1>5
<1> HIDE DEF n
<1>7. /\ toClient' \in [Session -> Seq(Message)]
      /\ \A u \in Session : Messages(toClient'[u])
                                = Messages(toClient[u]) \cup (IF u \in S THEN {sent} ELSE {})
  BY <1>1, <1>4, <1>6, TellQueues
<1>8. BridgeTypeOK'
  <2>1. responseId' \in [Target -> 0..MaxData]
    BY <1>1, <1>2, <1>3 DEF BridgeTypeOK
  <2> QED BY <1>1, <1>5, <1>7, <2>1 DEF BridgeTypeOK
<1>9. PageNumbers'
  <2>1. \A u \in Session \ reloaded', r \in Target :
            /\ counter[u][r] <= counter'[u][r]
            /\ \A p \in pending'[u][r] : p \in pending[u][r] \/ p[1] > counter[u][r]
    BY <1>1, Numbers
  <2>2. reloaded \subseteq reloaded'
    BY <1>1
  <2>3. \A u \in Session : \A m \in Messages(toServer'[u]) :
            m.kind # "answer" => m \in Messages(toServer[u]) \/ IsAbout(u, m)'
    BY <1>1
  <2>4. \A u \in Session : \A m \in Messages(toClient'[u]) :
            m.kind = "answer" => m \in Messages(toClient[u]) \/ IsAbout(u, m)
    BY <1>7
  <2> QED BY <1>1, <1>8, <2>1, <2>2, <2>3, <2>4, NumbersAreNew
<1>10. ServerNumbers'
  <2>1. ASSUME NEW u \in Session, NEW m \in Messages(toClient'[u])
        PROVE  /\ m.kind # "subscribe"
               /\ m.kind = "data" => m.id = m.call /\ m.call \in 1..responseId'[m.target]
    <3>1. CASE m \in Messages(toClient[u])
      <4>1. m \in Message
        <5>1. toClient[u] \in Seq(Message)
          BY <1>1 DEF BridgeTypeOK
        <5> HIDE DEF Messages
        <5> QED BY <3>1, <5>1, QueueOps
      <4>2. m.target \in Target /\ responseId[m.target] \in Nat
        BY <1>1, <4>1, Numbers DEF Message
      <4>3. responseId'[m.target] = responseId[m.target]
               \/ (responseId'[m.target] = n /\ responseId[m.target] < n)
        BY <1>2, <1>3, <4>2
      <4>4. n \in Nat
        BY <1>2
      <4>5. /\ m.kind # "subscribe"
            /\ m.kind = "data" => m.id = m.call /\ m.call \in 1..responseId[m.target]
        BY <1>1, <3>1 DEF ServerNumbers
      <4> QED BY <4>2, <4>3, <4>4, <4>5
    <3>2. CASE m = sent
      BY <1>2, <1>3, <3>2
    <3> QED BY <1>7, <3>1, <3>2
  <2> QED BY <1>1, <2>1 DEF ServerNumbers
<1> QED BY <1>1, <1>8, <1>9, <1>10 DEF NumbersInv, CountersAreBounded

\* The server takes a message, and may answer it.
LEMMA DispatchKeepsNumbers ==
    ASSUME NumbersInv, NEW s \in Session, Dispatch(s)
    PROVE  NumbersInv'
<1> DEFINE m == Head(toServer[s])
<1>1. /\ BridgeTypeOK /\ CountersAreBounded /\ PageNumbers /\ ServerNumbers
      /\ toServer[s] # <<>> /\ toServer' = [toServer EXCEPT ![s] = Tail(@)]
      /\ responseId' = responseId /\ attached' = attached
      /\ counter' = counter /\ calls' = calls /\ reloaded' = reloaded /\ faults' = faults
      /\ lostAt' = lostAt
      /\ pending' = pending /\ seen' = seen
  BY DEF NumbersInv, Dispatch, pageVars, historyVars
<1>2. /\ toServer' \in [Session -> Seq(Message)]
      /\ \A u \in Session : Messages(toServer'[u]) \subseteq Messages(toServer[u])
      /\ m \in Messages(toServer[s]) /\ m \in Message
  <2>1. toServer \in [Session -> Seq(Message)]
    BY <1>1 DEF BridgeTypeOK
  <2> HIDE DEF Messages
  <2> QED BY <1>1, <2>1, TakeQueues
<1>3. HandleData(s, m) \/ HandleSubscribe(s, m) \/ HandleAnswer(s, m)
  BY DEF Dispatch
<1> HIDE DEF m
<1>4. m.target \in Target
  BY <1>2 DEF Message
<1>5. ASSUME NEW call \in Int, Tell({s}, [m EXCEPT !.kind = "answer", !.call = call]),
             m.kind # "answer", call = m.call \/ (m.kind = "subscribe" /\ call = -1)
      PROVE  /\ toClient' \in [Session -> Seq(Message)]
             /\ \A u \in Session : \A a \in Messages(toClient'[u]) :
                   a \in Messages(toClient[u])
                      \/ (a.kind = "answer" /\ (u \notin reloaded => IsAbout(u, a)))
  <2> DEFINE reply == [m EXCEPT !.kind = "answer", !.call = call]
  <2>1. /\ reply \in Message /\ reply.kind = "answer" /\ reply.id = m.id
        /\ reply.target = m.target /\ reply.call = call
    BY <1>2 DEF Message
  <2>2. /\ toClient' \in [Session -> Seq(Message)]
        /\ \A u \in Session : Messages(toClient'[u])
                                  = Messages(toClient[u]) \cup (IF u \in {s} THEN {reply} ELSE {})
    BY <1>1, <1>5, <2>1, TellQueues
  <2> HIDE DEF reply
  <2>3. ASSUME s \notin reloaded PROVE IsAbout(s, reply)
    <3>1. IsAbout(s, m)
      BY <1>1, <1>2, <1>5, <2>3 DEF PageNumbers
    <3>2. ASSUME NEW p \in pending[s][m.target], p[1] = m.id PROVE p[2] = call
      <4>1. p[2] = m.call
        BY <3>1, <3>2 DEF IsAbout
      <4>2. p[2] \in 1..MaxCalls
        BY <1>1, <1>4, <3>2 DEF BridgeTypeOK
      <4>3. m.kind = "subscribe" => m.call = 0
        BY <1>1, <1>2 DEF ServerNumbers
      <4> QED BY <1>5, <4>1, <4>2, <4>3
    <3> QED BY <2>1, <3>1, <3>2 DEF IsAbout
  <2> QED BY <2>1, <2>2, <2>3
<1>6. /\ toClient' \in [Session -> Seq(Message)]
      /\ \A u \in Session : \A a \in Messages(toClient'[u]) :
            a \in Messages(toClient[u])
               \/ (a.kind = "answer" /\ (u \notin reloaded => IsAbout(u, a)))
      /\ subs' \subseteq Session /\ waiting' \in [Target -> SUBSET (1..MaxData)]
  <2>1. m.call \in Int /\ [m EXCEPT !.kind = "answer"] = [m EXCEPT !.kind = "answer", !.call = m.call]
    BY <1>2 DEF Message
  <2>2. CASE HandleData(s, m)
    <3>1. m.kind = "data" /\ Tell({s}, [m EXCEPT !.kind = "answer", !.call = m.call])
          /\ subs' = subs /\ waiting' = waiting
      BY <2>1, <2>2 DEF HandleData
    <3> QED BY <1>1, <1>5, <2>1, <3>1 DEF BridgeTypeOK
  <2>3. CASE HandleSubscribe(s, m)
    <3>1. m.kind = "subscribe" /\ waiting' = waiting /\ subs' \subseteq subs \cup {s}
          /\ \/ Tell({s}, [m EXCEPT !.kind = "answer", !.call = m.call])
             \/ Tell({s}, [m EXCEPT !.kind = "answer", !.call = -1])
      BY <2>1, <2>3 DEF HandleSubscribe
    <3>2. -1 \in Int
      OBVIOUS
    <3>3. subs' \subseteq Session
      BY <1>1, <3>1 DEF BridgeTypeOK
    <3>4. waiting' \in [Target -> SUBSET (1..MaxData)]
      BY <1>1, <3>1 DEF BridgeTypeOK
    <3> QED BY <1>5, <2>1, <3>1, <3>2, <3>3, <3>4
  <2>4. CASE HandleAnswer(s, m)
    <3>1. subs' = subs /\ toClient' = toClient /\ waiting' = [waiting EXCEPT ![m.target] = @ \ {m.id}]
      BY <2>4 DEF HandleAnswer, TakeCallback
    <3> QED BY <1>1, <1>4, <3>1 DEF BridgeTypeOK
  <2> QED BY <1>3, <2>2, <2>3, <2>4
<1>7. BridgeTypeOK'
  BY <1>1, <1>2, <1>6 DEF BridgeTypeOK
<1>8. CountersAreBounded'
  BY <1>1 DEF CountersAreBounded
<1>9. PageNumbers'
  <2>1. ASSUME NEW u \in Session \ reloaded', NEW a, IsAbout(u, a) PROVE IsAbout(u, a)'
    BY <1>1, <2>1 DEF IsAbout
  <2> QED BY <1>1, <1>2, <1>6, <2>1 DEF PageNumbers
<1>10. ServerNumbers'
  BY <1>1, <1>2, <1>6 DEF ServerNumbers
<1> QED BY <1>7, <1>8, <1>9, <1>10 DEF NumbersInv

\* What a lost batch leaves was there before.
LEMMA BatchLeavesRest ==
    ASSUME BridgeTypeOK, NEW s \in Session, LoseBatch(s)
    PROVE  /\ toClient' \in [Session -> Seq(Message)] /\ lostAt' \in [Session -> 0..MaxData]
           /\ \A u \in Session : Messages(toClient'[u]) \subseteq Messages(toClient[u])
           /\ \A u \in Session : IF u = s THEN lostAt'[u] = responseId["global"]
                                 ELSE lostAt'[u] = lostAt[u] /\ toClient'[u] = toClient[u]
<1> DEFINE queue == toClient[s]
<1>1. queue \in Seq(Message)
  BY DEF BridgeTypeOK
<1> DEFINE Rest(i, j) == SubSeq(queue, 1, i - 1) \o SubSeq(queue, j + 1, Len(queue))
<1>2. PICK i \in 1..Len(queue), j \in 1..Len(queue) :
          i <= j /\ toClient' = [toClient EXCEPT ![s] = Rest(i, j)]
  BY DEF LoseBatch
<1>3. Rest(i, j) \in Seq(Message) /\ Messages(Rest(i, j)) \subseteq Messages(queue)
  <2> HIDE DEF queue
  <2> DEFINE A == SubSeq(queue, 1, i - 1)
             B == SubSeq(queue, j + 1, Len(queue))
  <2>1. /\ A \in Seq(Message) /\ Len(A) = i - 1
        /\ \A k \in 1..(i - 1) : k \in DOMAIN queue /\ A[k] = queue[k]
    BY <1>1
  <2>2. /\ B \in Seq(Message) /\ Len(B) = Len(queue) - j
        /\ \A k \in 1..(Len(queue) - j) : k + j \in DOMAIN queue /\ B[k] = queue[k + j]
    BY <1>1
  <2>3. Len(queue) \in Nat
    BY <1>1
  <2> HIDE DEF A, B
  <2>4. /\ A \o B \in Seq(Message) /\ DOMAIN (A \o B) = 1..(Len(A) + Len(B))
        /\ \A k \in 1..(Len(A) + Len(B)) : (A \o B)[k] = IF k <= Len(A) THEN A[k] ELSE B[k - Len(A)]
    <3>1. A \in Seq(Message) /\ B \in Seq(Message)
      BY <2>1, <2>2
    <3> HIDE <1>1, <1>2
    <3> QED BY <3>1
  <2>5. ASSUME NEW k \in 1..(Len(A) + Len(B)) PROVE (A \o B)[k] \in Messages(queue)
    <3>1. CASE k <= Len(A)
      BY <2>1, <2>3, <2>4, <3>1 DEF Messages
    <3>2. CASE k > Len(A)
      <4>1. k - Len(A) \in 1..(Len(queue) - j) /\ ~(k <= Len(A))
        BY <2>1, <2>2, <2>3, <3>2
      <4>2. /\ (A \o B)[k] = B[k - Len(A)]
            /\ B[k - Len(A)] = queue[(k - Len(A)) + j] /\ (k - Len(A)) + j \in DOMAIN queue
        BY <2>2, <2>4, <4>1
      <4> QED BY <4>2 DEF Messages
    <3>3. Len(A) \in Nat
      BY <2>1
    <3> QED BY <3>1, <3>2, <3>3
  <2> QED BY <2>4, <2>5 DEF A, B, Messages
<1> HIDE DEF Rest
<1>4. \A u \in Session : toClient'[u] = IF u = s THEN Rest(i, j) ELSE toClient[u]
  BY <1>2 DEF BridgeTypeOK
<1>5. toClient' \in [Session -> Seq(Message)]
  BY <1>2, <1>3 DEF BridgeTypeOK
<1>6. responseId["global"] \in 0..MaxData
  BY DEF BridgeTypeOK, Target
<1>7. lostAt' = [lostAt EXCEPT ![s] = responseId["global"]]
  BY DEF LoseBatch
<1>8. lostAt' \in [Session -> 0..MaxData]
      /\ \A u \in Session : lostAt'[u] = IF u = s THEN responseId["global"] ELSE lostAt[u]
  BY <1>6, <1>7 DEF BridgeTypeOK
<1> QED BY <1>3, <1>4, <1>5, <1>8

\* A session detaches or attaches, or messages are lost.
LEMMA FaultKeepsNumbers ==
    ASSUME NumbersInv, NEW s \in Session, Detach(s) \/ Attach(s) \/ LosePost(s) \/ LoseBatch(s)
    PROVE  NumbersInv'
<1>1. /\ BridgeTypeOK /\ CountersAreBounded /\ PageNumbers /\ ServerNumbers
      /\ subs' = subs /\ responseId' = responseId /\ waiting' = waiting
      /\ counter' = counter /\ pending' = pending /\ calls' = calls
      /\ seen' = seen /\ reloaded' = reloaded
      /\ attached' \subseteq attached \cup {s}
      /\ faults' = faults \/ (faults < MaxFaults /\ faults' = faults + 1)
  BY DEF NumbersInv, Detach, Attach, LosePost, LoseBatch, serverVars, pageVars, historyVars
<1>2. faults' \in 0..MaxFaults /\ faults <= faults'
  <2>1. faults \in Nat /\ faults <= MaxFaults /\ MaxFaults \in Nat
    BY <1>1, Numbers
  <2> QED BY <1>1, <2>1
<1>3. /\ toServer' \in [Session -> Seq(Message)]
      /\ \A u \in Session : Messages(toServer'[u]) \subseteq Messages(toServer[u])
  <2>1. CASE toServer' = toServer
    BY <1>1, <2>1 DEF BridgeTypeOK
  <2>2. CASE toServer' = [toServer EXCEPT ![s] = <<>>]
    <3>1. <<>> \in Seq(Message) /\ Messages(<<>>) = {}
      BY DEF Messages
    <3>2. \A u \in Session : toServer'[u] = IF u = s THEN <<>> ELSE toServer[u]
      BY <1>1, <2>2 DEF BridgeTypeOK
    <3>3. toServer' \in [Session -> Seq(Message)]
      BY <1>1, <2>2, <3>1 DEF BridgeTypeOK
    <3> QED BY <3>1, <3>2, <3>3
  <2> QED BY <2>1, <2>2 DEF Detach, Attach, LosePost, LoseBatch
<1>4. /\ toClient' \in [Session -> Seq(Message)] /\ lostAt' \in [Session -> 0..MaxData]
      /\ \A u \in Session : Messages(toClient'[u]) \subseteq Messages(toClient[u])
  <2>1. CASE LoseBatch(s)
    BY <1>1, <2>1, BatchLeavesRest
  <2>2. CASE ~LoseBatch(s)
    <3>1. toClient' = toClient /\ lostAt' = lostAt
      BY <2>2 DEF Detach, Attach, LosePost, historyVars
    <3> QED BY <1>1, <3>1 DEF BridgeTypeOK
  <2> QED BY <2>1, <2>2
<1>5. BridgeTypeOK'
  BY <1>1, <1>2, <1>3, <1>4 DEF BridgeTypeOK
<1>6. CountersAreBounded'
  <2>1. \A u \in Session, r \in Target : /\ counter[u][r] \in Nat
                                         /\ counter[u][r] <= calls + faults + 1
    BY <1>1, Numbers
  <2>2. calls \in Nat /\ faults \in Nat
    BY <1>1, Numbers
  <2> QED BY <1>1, <1>2, <2>1, <2>2 DEF CountersAreBounded
<1>7. PageNumbers'
  <2>1. ASSUME NEW u, NEW m, IsAbout(u, m) PROVE IsAbout(u, m)'
    BY <1>1, <2>1 DEF IsAbout
  <2> QED BY <1>1, <1>3, <1>4, <2>1 DEF PageNumbers
<1>8. ServerNumbers'
  BY <1>1, <1>3, <1>4 DEF ServerNumbers
<1> QED BY <1>5, <1>6, <1>7, <1>8 DEF NumbersInv

LEMMA NumbersAtFirst == BridgeInit => NumbersInv
<1> SUFFICES ASSUME BridgeInit PROVE NumbersInv
  OBVIOUS
<1>1. \A s \in Session : Messages(toServer[s]) = {} /\ Messages(toClient[s]) = {}
  BY DEF BridgeInit, Messages
<1>2. \A s \in Session, t \in Target : counter[s][t] = 0 /\ pending[s][t] = {}
  BY DEF BridgeInit
<1>3. calls = 0 /\ faults = 0
  BY DEF BridgeInit
<1>4. BridgeTypeOK
  <2>1. 0 \in Id /\ 0 \in 0..MaxData /\ 0 \in 0..MaxCalls /\ 0 \in 0..MaxFaults
    BY BoundAssumption DEF Id
  <2>2. counter \in [Session -> [Target -> Id]] /\ responseId \in [Target -> 0..MaxData]
        /\ seen \in [Session -> 0..MaxData] /\ lostAt \in [Session -> 0..MaxData]
    BY <2>1 DEF BridgeInit
  <2>3. /\ pending \in [Session -> [Target -> SUBSET (Id \X (1..MaxCalls))]]
        /\ waiting \in [Target -> SUBSET (1..MaxData)]
    BY DEF BridgeInit
  <2>4. toServer \in [Session -> Seq(Message)] /\ toClient \in [Session -> Seq(Message)]
    BY DEF BridgeInit
  <2> QED BY <1>2, <2>1, <2>2, <2>3, <2>4 DEF BridgeTypeOK, BridgeInit
<1>5. CountersAreBounded
  BY <1>2, <1>3 DEF CountersAreBounded
<1> QED BY <1>1, <1>4, <1>5 DEF NumbersInv, PageNumbers, ServerNumbers

LEMMA NumbersKept == NumbersInv /\ [BridgeNext]_bridgeVars => NumbersInv'
<1> SUFFICES ASSUME NumbersInv, [BridgeNext]_bridgeVars PROVE NumbersInv'
  OBVIOUS
<1>1. CASE BridgeNext
  <2>1. PICK s \in Session, t \in Target :
            \/ Subscribe(s) \/ Receive(s) \/ Reload(s) \/ Call(s, t) \/ Dispatch(s)
            \/ Detach(s) \/ Attach(s) \/ LosePost(s) \/ LoseBatch(s) \/ SendData(t)
    BY <1>1 DEF BridgeNext, Target
  <2> QED BY <2>1, SubscribeKeepsNumbers, ReceiveKeepsNumbers, ReloadKeepsNumbers,
             CallKeepsNumbers, DispatchKeepsNumbers, FaultKeepsNumbers, SendKeepsNumbers
<1>2. CASE UNCHANGED bridgeVars
  BY <1>2 DEF NumbersInv, BridgeTypeOK, CountersAreBounded, PageNumbers, ServerNumbers, IsAbout,
              bridgeVars, serverVars, pageVars, historyVars
<1> QED BY <1>1, <1>2

LEMMA NumbersHold == BridgeSpec => []NumbersInv
BY NumbersAtFirst, NumbersKept, PTL DEF BridgeSpec

\* Who asked gets the answer: the callback that a page or a bridge of the
\* server takes is the one of the call the message was the answer to.  A page
\* that was loaded again is left out, since its numbers start over.
THEOREM AnswersFindTheirCalls == BridgeSpec => AnswersMatchCalls
<1>1. ASSUME NumbersInv, [BridgeNext]_bridgeVars,
             NEW s \in Session \ reloaded', NEW t \in Target, NEW p \in pending[s][t] \ pending'[s][t]
      PROVE  toClient[s] # <<>> /\ Head(toClient[s]).call = p[2]
  <2>1. BridgeTypeOK /\ PageNumbers
    BY <1>1 DEF NumbersInv
  <2>2. pending' # pending
    BY <1>1
  <2>3. BridgeNext
    BY <1>1, <2>2 DEF bridgeVars, pageVars
  <2>4. PICK u \in Session, r \in Target : Receive(u) \/ Reload(u) \/ Call(u, r)
    BY <2>2, <2>3 DEF BridgeNext, Target, Subscribe, Dispatch, Detach, Attach, LosePost, LoseBatch, SendData,
                      pageVars
  <2>5. CASE Call(u, r)
    BY <2>1, <2>5, <1>1 DEF Call, NumberCall, BridgeTypeOK
  <2>6. CASE Reload(u)
    <3>1. s # u /\ pending' = [pending EXCEPT ![u] = [x \in Target |-> {}]]
      BY <1>1, <2>6 DEF Reload
    <3>2. pending'[s][t] = pending[s][t]
      BY <2>1, <3>1 DEF BridgeTypeOK
    <3> QED BY <1>1, <3>2
  <2>7. CASE Receive(u)
    <3> DEFINE m == Head(toClient[u])
    <3>1. HearAnswer(u, m) /\ toClient[u] # <<>> /\ reloaded' = reloaded
      BY <2>2, <2>7 DEF Receive, HearData
    <3>2. m \in Messages(toClient[u]) /\ m \in Message
      <4>1. toClient \in [Session -> Seq(Message)]
        BY <2>1 DEF BridgeTypeOK
      <4> HIDE DEF Messages
      <4> QED BY <3>1, <4>1, TakeQueues
    <3> HIDE DEF m
    <3>3. m.target \in Target
      BY <3>2 DEF Message
    <3>4. pending' = [pending EXCEPT ![u][m.target]
                         = @ \ {q \in pending[u][m.target] : q[1] = m.id}]
      BY <3>1 DEF HearAnswer
    <3>5. s = u /\ t = m.target /\ p[1] = m.id
      BY <1>1, <2>1, <3>3, <3>4 DEF BridgeTypeOK
    <3>6. IsAbout(s, m)
      BY <1>1, <2>1, <3>1, <3>2, <3>5 DEF PageNumbers, HearAnswer
    <3> QED BY <1>1, <3>1, <3>5, <3>6 DEF IsAbout, m
  <2> QED BY <2>4, <2>5, <2>6, <2>7
<1>2. ASSUME NumbersInv, [BridgeNext]_bridgeVars,
             NEW t \in Target, NEW id \in waiting[t] \ waiting'[t]
      PROVE  \E s \in Session : /\ toServer[s] # <<>>
                                /\ Head(toServer[s]).target = t
                                /\ Head(toServer[s]).call = id
  <2>1. BridgeTypeOK /\ ServerNumbers
    BY <1>2 DEF NumbersInv
  <2>2. waiting' # waiting
    BY <1>2
  <2>3. BridgeNext
    BY <1>2, <2>2 DEF bridgeVars, serverVars
  <2>4. PICK u \in Session, r \in Target : Dispatch(u) \/ SendData(r)
    BY <2>2, <2>3 DEF BridgeNext, Target, Subscribe, Call, Receive, Reload, Detach, Attach, LosePost, LoseBatch,
                      serverVars
  <2>5. CASE SendData(r)
    <3>1. waiting' = waiting \/ \E n : waiting' = [waiting EXCEPT ![r] = @ \cup {n}]
      <4>1. CASE r = "session"
        BY <2>5, <4>1 DEF SendData
      <4>2. CASE r # "session"
        BY <2>5, <4>2 DEF SendData
      <4> QED BY <4>1, <4>2
    <3>2. waiting[t] \subseteq waiting'[t]
      BY <2>1, <3>1 DEF BridgeTypeOK
    <3> QED BY <1>2, <3>2
  <2>6. CASE Dispatch(u)
    <3> DEFINE m == Head(toServer[u])
    <3>1. HandleAnswer(u, m) /\ toServer[u] # <<>>
      BY <2>2, <2>6 DEF Dispatch, HandleData, HandleSubscribe
    <3>2. m \in Messages(toServer[u]) /\ m \in Message
      <4>1. toServer \in [Session -> Seq(Message)]
        BY <2>1 DEF BridgeTypeOK
      <4> HIDE DEF Messages
      <4> QED BY <3>1, <4>1, TakeQueues
    <3> HIDE DEF m
    <3>3. m.target \in Target /\ waiting' = [waiting EXCEPT ![m.target] = @ \ {m.id}]
          /\ m.kind = "answer"
      BY <3>1, <3>2 DEF Message, HandleAnswer, TakeCallback
    <3>4. t = m.target /\ id = m.id
      BY <1>2, <2>1, <3>3 DEF BridgeTypeOK
    <3>5. m.id = m.call
      BY <2>1, <3>2, <3>3 DEF ServerNumbers
    <3> QED BY <3>1, <3>4, <3>5 DEF m
  <2> QED BY <2>4, <2>5, <2>6
<1>3. ASSUME NumbersInv, NumbersInv', [BridgeNext]_bridgeVars
      PROVE  [/\ BridgeTypeOK'
              /\ \A s \in Session \ reloaded', t \in Target :
                   \A p \in pending[s][t] \ pending'[s][t] :
                       toClient[s] # <<>> /\ Head(toClient[s]).call = p[2]
              /\ \A t \in Target : \A id \in waiting[t] \ waiting'[t] :
                   \E s \in Session : /\ toServer[s] # <<>>
                                      /\ Head(toServer[s]).target = t
                                      /\ Head(toServer[s]).call = id]_bridgeVars
  BY <1>1, <1>2, <1>3 DEF NumbersInv
<1> QED BY <1>3, NumbersHold, PTL DEF BridgeSpec, AnswersMatchCalls

-----------------------------------------------------------------------------
(* Data bridges: what a subscriber misses *)

\* What tells a page how far the global bridge is: its data, and the
\* confirmation of a subscription, after which anything may come.
Reports(m) == (m.kind = "data" /\ m.target = "global") \/ (m.kind = "answer" /\ m.call = 0)
Reported(m) == IF m.kind = "data" THEN m.call ELSE 0

\* Where a page is, and where it would be if it missed nothing: apart only up to
\* what was sent before a loss.
Near(lost, at, due) == at = due \/ (at <= lost /\ due \in 1..lost)

\* A page that is due at one number is due at another one after the message.
Hears(lost, m, before, after) ==
    IF Reports(m)
    THEN /\ after = Reported(m)
         /\ before = 0 \/ after = 0 \/ after = before + 1 \/ after <= lost + 1
    ELSE Near(lost, before, after)

\* The numbers a page is due at as it takes what waits for it: none is left out
\* but in a loss, and a subscriber ends up where the bridge is.
Sees(lost, queue, f) ==
    /\ f \in [0..Len(queue) -> 0..MaxData]
    /\ \A i \in 1..Len(queue) : Hears(lost, queue[i], f[i - 1], f[i])
UpToDate(lost, at, now) == at = 0 \/ at = now \/ (at <= lost /\ now <= lost)
SentTo(s, f) ==
    /\ Sees(lostAt[s], toClient[s], f) /\ Near(lostAt[s], seen[s], f[0])
    /\ s \in subs => UpToDate(lostAt[s], f[Len(toClient[s])], responseId["global"])
NoGapIsSent == \A s \in Session : seen[s] <= responseId["global"] /\ \E f : SentTo(s, f)

LEMMA SeesMore ==
    ASSUME NEW lost, NEW queue \in Seq(Message), NEW f, Sees(lost, queue, f), NEW m \in Message,
           NEW n \in 0..MaxData, Hears(lost, m, f[Len(queue)], n)
    PROVE  \E g : /\ Sees(lost, Append(queue, m), g) /\ g[0] = f[0]
                  /\ g[Len(Append(queue, m))] = n
<1> DEFINE more == Append(queue, m)
           g == [i \in 0..Len(more) |-> IF i = Len(more) THEN n ELSE f[i]]
<1>1. /\ Len(queue) \in Nat /\ Len(more) = Len(queue) + 1 /\ more[Len(more)] = m
      /\ \A i \in 1..Len(queue) : more[i] = queue[i]
  OBVIOUS
<1>2. /\ f \in [0..Len(queue) -> 0..MaxData]
      /\ \A i \in 1..Len(queue) : Hears(lost, queue[i], f[i - 1], f[i])
  BY DEF Sees
<1> HIDE DEF more
<1>3. g \in [0..Len(more) -> 0..MaxData]
  <2>1. ASSUME NEW i \in 0..Len(more), i # Len(more) PROVE f[i] \in 0..MaxData
    <3>1. i \in 0..Len(queue)
      BY <1>1, <2>1
    <3> QED BY <1>2, <3>1
  <2> QED BY <2>1
<1>4. ASSUME NEW i \in 1..Len(more) PROVE Hears(lost, more[i], g[i - 1], g[i])
  <2>1. i - 1 \in 0..Len(more) /\ i - 1 # Len(more) /\ i \in 0..Len(more)
    BY <1>1
  <2>2. g[i - 1] = f[i - 1] /\ g[i] = IF i = Len(more) THEN n ELSE f[i]
    BY <2>1
  <2>3. CASE i = Len(more)
    <3>1. i - 1 = Len(queue)
      BY <1>1, <2>3
    <3> HIDE DEF g
    <3>2. more[i] = m /\ g[i] = n /\ g[i - 1] = f[Len(queue)]
      BY <1>1, <2>2, <2>3, <3>1
    <3> QED BY <3>2
  <2>4. CASE i # Len(more)
    <3>1. i \in 1..Len(queue)
      BY <1>1, <2>4
    <3> HIDE DEF g
    <3>2. Hears(lost, queue[i], f[i - 1], f[i])
      BY <1>2, <3>1
    <3>3. more[i] = queue[i] /\ g[i] = f[i] /\ g[i - 1] = f[i - 1]
      BY <1>1, <2>2, <2>4, <3>1
    <3> QED BY <3>2, <3>3
  <2> QED BY <2>3, <2>4
<1>5. g[0] = f[0] /\ g[Len(more)] = n
  BY <1>1
<1>6. Sees(lost, more, g)
  BY <1>3, <1>4 DEF Sees
<1> QED BY <1>5, <1>6 DEF more

LEMMA SeesRest ==
    ASSUME NEW lost, NEW queue \in Seq(Message), queue # <<>>, NEW f, Sees(lost, queue, f)
    PROVE  /\ Hears(lost, Head(queue), f[0], f[1]) /\ f[0] \in 0..MaxData /\ f[1] \in 0..MaxData
           /\ \E g : /\ Sees(lost, Tail(queue), g) /\ g[0] = f[1]
                     /\ g[Len(Tail(queue))] = f[Len(queue)]
<1> DEFINE rest == Tail(queue)
           g == [i \in 0..Len(rest) |-> f[i + 1]]
<1>1. /\ Len(queue) \in Nat \ {0} /\ Len(rest) = Len(queue) - 1 /\ Head(queue) = queue[1]
      /\ \A i \in 1..(Len(queue) - 1) : rest[i] = queue[i + 1]
  OBVIOUS
<1>2. /\ f \in [0..Len(queue) -> 0..MaxData]
      /\ \A i \in 1..Len(queue) : Hears(lost, queue[i], f[i - 1], f[i])
  BY DEF Sees
<1> HIDE DEF rest
<1>3. Hears(lost, Head(queue), f[0], f[1]) /\ f[0] \in 0..MaxData /\ f[1] \in 0..MaxData
  <2>1. 1 \in 1..Len(queue) /\ 0 \in 0..Len(queue) /\ 1 \in 0..Len(queue) /\ 1 - 1 = 0
    BY <1>1
  <2>2. Hears(lost, queue[1], f[1 - 1], f[1])
    BY <1>2, <2>1
  <2> QED BY <1>1, <1>2, <2>1, <2>2
<1>4. g \in [0..Len(rest) -> 0..MaxData]
  <2>1. ASSUME NEW i \in 0..Len(rest) PROVE f[i + 1] \in 0..MaxData
    <3>1. i + 1 \in 0..Len(queue)
      BY <1>1
    <3> QED BY <1>2, <3>1
  <2> QED BY <2>1
<1>5. ASSUME NEW i \in 1..Len(rest) PROVE Hears(lost, rest[i], g[i - 1], g[i])
  <2>1. /\ i - 1 \in 0..Len(rest) /\ i \in 0..Len(rest) /\ (i - 1) + 1 = i
        /\ i + 1 \in 1..Len(queue) /\ (i + 1) - 1 = i /\ i \in 1..(Len(queue) - 1)
    BY <1>1
  <2>2. g[i - 1] = f[i] /\ g[i] = f[i + 1]
    BY <2>1
  <2>3. Hears(lost, queue[i + 1], f[i], f[i + 1]) /\ rest[i] = queue[i + 1]
    BY <1>1, <1>2, <2>1
  <2> HIDE DEF g
  <2> QED BY <2>2, <2>3
<1>6. g[0] = f[1] /\ g[Len(rest)] = f[Len(queue)]
  <2>1. /\ 0 \in 0..Len(rest) /\ 0 + 1 = 1 /\ Len(rest) \in 0..Len(rest)
        /\ Len(rest) + 1 = Len(queue)
    BY <1>1
  <2> QED BY <2>1
<1>7. Sees(lost, rest, g)
  BY <1>4, <1>5 DEF Sees
<1> QED BY <1>3, <1>6, <1>7 DEF rest

\* What a step of a page may skip.
LeavesNoGap ==
    \A u \in Session : seen[u] > 0 /\ seen'[u] > 0 => \/ seen'[u] \in {seen[u], seen[u] + 1}
                                                      \/ seen'[u] <= lostAt[u] + 1

\* What a page takes next, and how far it has seen then.
LEMMA ReceiveLeavesNoGap ==
    ASSUME NumbersInv, NoGapIsSent, NEW s \in Session, Receive(s)
    PROVE  NoGapIsSent' /\ LeavesNoGap
<1> DEFINE m == Head(toClient[s])
           now == IF Reports(m) THEN Reported(m) ELSE seen[s]
           lost == lostAt[s]
<1>1. /\ BridgeTypeOK /\ ServerNumbers
      /\ toClient[s] # <<>> /\ toClient' = [toClient EXCEPT ![s] = Tail(@)]
      /\ subs' = subs /\ responseId' = responseId /\ lostAt' = lostAt
  BY DEF NumbersInv, Receive, serverVars
<1>2. PICK f : SentTo(s, f)
  BY DEF NoGapIsSent
<1>3. /\ Hears(lost, m, f[0], f[1]) /\ f[0] \in 0..MaxData /\ f[1] \in 0..MaxData
      /\ \E g : /\ Sees(lost, Tail(toClient[s]), g) /\ g[0] = f[1]
                /\ g[Len(Tail(toClient[s]))] = f[Len(toClient[s])]
  <2>1. toClient[s] \in Seq(Message)
    BY <1>1 DEF BridgeTypeOK
  <2> QED BY <1>1, <1>2, <2>1, SeesRest DEF SentTo
<1>4. seen' = [seen EXCEPT ![s] = now]
  <2>1. CASE HearData(s, m)
    <3>1. m.kind = "data" /\ seen' = IF m.target = "global" THEN [seen EXCEPT ![s] = m.call] ELSE seen
      BY <2>1 DEF HearData
    <3>2. now = IF m.target = "global" THEN m.call ELSE seen[s]
      BY <3>1 DEF Reports, Reported
    <3> HIDE DEF m, now
    <3> QED BY <1>1, <3>1, <3>2 DEF BridgeTypeOK
  <2>2. CASE HearAnswer(s, m)
    <3>1. m.kind = "answer" /\ seen' = IF m.call = 0 THEN [seen EXCEPT ![s] = 0] ELSE seen
      BY <2>2 DEF HearAnswer
    <3>2. now = IF m.call = 0 THEN 0 ELSE seen[s]
      BY <3>1 DEF Reports, Reported
    <3> HIDE DEF m, now
    <3> QED BY <1>1, <3>1, <3>2 DEF BridgeTypeOK
  <2> QED BY <2>1, <2>2 DEF Receive
<1>5. /\ seen[s] \in 0..MaxData /\ lost \in 0..MaxData /\ Near(lost, seen[s], f[0])
      /\ seen[s] <= responseId["global"] /\ responseId["global"] \in 0..MaxData
  BY <1>1, <1>2 DEF BridgeTypeOK, SentTo, NoGapIsSent, Target
<1>6. now <= responseId["global"] /\ now \in 0..MaxData
  <2>1. CASE Reports(m)
    <3>1. m \in Messages(toClient[s])
      <4>1. toClient \in [Session -> Seq(Message)]
        BY <1>1 DEF BridgeTypeOK
      <4> HIDE DEF Messages
      <4> QED BY <1>1, <4>1, TakeQueues
    <3> HIDE DEF m
    <3>2. m.kind = "data" => m.target = "global" /\ m.call \in 1..responseId["global"]
      BY <1>1, <2>1, <3>1 DEF ServerNumbers, Reports
    <3>3. Reported(m) \in 0..responseId["global"]
      BY <1>5, <3>2, BoundAssumption DEF Reported
    <3>4. now = Reported(m)
      BY <2>1
    <3> HIDE DEF now
    <3> QED BY <1>5, <3>3, <3>4, BoundAssumption
  <2>2. CASE ~Reports(m)
    BY <1>5, <2>2
  <2> QED BY <2>1, <2>2
<1> HIDE DEF m, lost
<1>7. /\ Near(lost, now, f[1])
      /\ seen[s] > 0 /\ now > 0 => now \in {seen[s], seen[s] + 1} \/ now <= lost + 1
  <2>1. CASE Reports(m)
    <3>1. /\ now = f[1] /\ now \in 0..MaxData
          /\ f[0] = 0 \/ now = 0 \/ now = f[0] + 1 \/ now <= lost + 1
      BY <1>3, <2>1 DEF Hears
    <3> HIDE DEF now
    <3> QED BY <1>3, <1>5, <3>1 DEF Near
  <2>2. CASE ~Reports(m)
    <3>1. now = seen[s] /\ Near(lost, f[0], f[1])
      BY <1>3, <2>2 DEF Hears
    <3> HIDE DEF now
    <3> QED BY <1>3, <1>5, <3>1 DEF Near
  <2> QED BY <2>1, <2>2
<1> HIDE DEF now
<1>8. seen'[s] = now /\ toClient'[s] = Tail(toClient[s])
      /\ \A u \in Session \ {s} : seen'[u] = seen[u] /\ toClient'[u] = toClient[u]
  BY <1>1, <1>4 DEF BridgeTypeOK
<1>9. ASSUME NEW u \in Session
      PROVE  seen'[u] <= responseId'["global"] /\ \E g : SentTo(u, g)'
  <2>1. CASE u = s
    <3>1. PICK g : /\ Sees(lost, Tail(toClient[s]), g) /\ g[0] = f[1]
                   /\ g[Len(Tail(toClient[s]))] = f[Len(toClient[s])]
      BY <1>3
    <3>2. SentTo(s, g)'
      BY <1>1, <1>2, <1>7, <1>8, <3>1 DEF SentTo, lost
    <3> QED BY <1>1, <1>6, <1>8, <2>1, <3>2
  <2>2. CASE u # s
    BY <1>1, <1>8, <2>2 DEF NoGapIsSent, SentTo
  <2> QED BY <2>1, <2>2
<1>10. LeavesNoGap
  <2> SUFFICES ASSUME NEW u \in Session, seen[u] > 0, seen'[u] > 0
               PROVE  seen'[u] \in {seen[u], seen[u] + 1} \/ seen'[u] <= lostAt[u] + 1
    BY DEF LeavesNoGap
  <2> QED BY <1>7, <1>8 DEF lost
<1> QED BY <1>9, <1>10 DEF NoGapIsSent

\* The server takes a message: a confirmation starts over.
LEMMA DispatchLeavesNoGap ==
    ASSUME NumbersInv, NoGapIsSent, NEW s \in Session, Dispatch(s)
    PROVE  NoGapIsSent'
<1> DEFINE m == Head(toServer[s])
<1>1. BridgeTypeOK /\ ServerNumbers /\ toServer[s] # <<>>
      /\ responseId' = responseId /\ seen' = seen /\ lostAt' = lostAt
  BY DEF NumbersInv, Dispatch, historyVars
<1>2. m \in Messages(toServer[s]) /\ m \in Message
  <2>1. toServer \in [Session -> Seq(Message)]
    BY <1>1 DEF BridgeTypeOK
  <2> HIDE DEF Messages
  <2> QED BY <1>1, <2>1, TakeQueues
<1>3. HandleData(s, m) \/ HandleSubscribe(s, m) \/ HandleAnswer(s, m)
  BY DEF Dispatch
<1> HIDE DEF m
<1>4. ASSUME NEW call \in Int, Tell({s}, [m EXCEPT !.kind = "answer", !.call = call]),
             subs' = subs \/ (call = 0 /\ subs' = subs \cup {s})
      PROVE  NoGapIsSent'
  <2> DEFINE reply == [m EXCEPT !.kind = "answer", !.call = call]
  <2>1. reply \in Message /\ reply.kind = "answer" /\ reply.call = call
    BY <1>2 DEF Message
  <2> HIDE DEF reply
  <2>2. ASSUME NEW u \in Session PROVE \E g : SentTo(u, g)'
    <3> DEFINE lost == lostAt[u]
    <3>1. CASE u # s
      <4>1. toClient'[u] = toClient[u]
        BY <1>4, <3>1 DEF Tell
      <4> QED BY <1>1, <1>4, <3>1, <4>1 DEF NoGapIsSent, SentTo
    <3>2. CASE u = s
      <4>1. toClient'[u] = Append(toClient[u], reply)
        BY <1>4, <3>2 DEF Tell, reply
      <4>2. PICK f : SentTo(u, f)
        BY DEF NoGapIsSent
      <4> DEFINE at == f[Len(toClient[u])]
      <4>3. toClient[u] \in Seq(Message) /\ at \in 0..MaxData /\ 0 \in 0..MaxData
        <5>1. toClient[u] \in Seq(Message)
          BY <1>1 DEF BridgeTypeOK
        <5>2. Len(toClient[u]) \in 0..Len(toClient[u])
          BY <5>1
        <5> QED BY <4>2, <5>1, <5>2, BoundAssumption DEF SentTo, Sees
      <4>4. PICK n \in 0..MaxData : /\ Hears(lost, reply, at, n)
                                    /\ call = 0 => n = 0
                                    /\ call # 0 => n = at
        <5>1. CASE call = 0
          BY <2>1, <4>3, <5>1 DEF Hears, Reports, Reported
        <5>2. CASE call # 0
          BY <2>1, <4>3, <5>2 DEF Hears, Reports, Near
        <5> QED BY <5>1, <5>2
      <4>5. \E g : /\ Sees(lost, Append(toClient[u], reply), g) /\ g[0] = f[0]
                   /\ g[Len(Append(toClient[u], reply))] = n
        BY <2>1, <4>2, <4>3, <4>4, SeesMore DEF SentTo
      <4>6. s \in subs' => UpToDate(lost, n, responseId["global"])
        BY <1>4, <3>2, <4>2, <4>4 DEF SentTo, UpToDate
      <4> QED BY <1>1, <3>2, <4>1, <4>2, <4>5, <4>6 DEF SentTo
    <3> QED BY <3>1, <3>2
  <2> QED BY <1>1, <2>2 DEF NoGapIsSent
<1>5. m.call \in Int /\ [m EXCEPT !.kind = "answer"] = [m EXCEPT !.kind = "answer", !.call = m.call]
  BY <1>2 DEF Message
<1>6. CASE HandleData(s, m)
  <2>1. Tell({s}, [m EXCEPT !.kind = "answer", !.call = m.call]) /\ subs' = subs
    BY <1>5, <1>6 DEF HandleData
  <2> QED BY <1>4, <1>5, <2>1
<1>7. CASE HandleSubscribe(s, m)
  <2>1. m.call = 0
    BY <1>1, <1>2, <1>7 DEF ServerNumbers, HandleSubscribe
  <2>2. \/ Tell({s}, [m EXCEPT !.kind = "answer", !.call = m.call]) /\ subs' = subs \cup {s}
        \/ Tell({s}, [m EXCEPT !.kind = "answer", !.call = -1]) /\ subs' = subs
    BY <1>5, <1>7 DEF HandleSubscribe
  <2>3. -1 \in Int
    OBVIOUS
  <2> QED BY <1>4, <1>5, <2>1, <2>2, <2>3
<1>8. CASE HandleAnswer(s, m)
  BY <1>1, <1>8 DEF HandleAnswer, NoGapIsSent, SentTo
<1> QED BY <1>3, <1>6, <1>7, <1>8

\* A bridge of the server sends: each subscriber gets the next number, or is
\* a subscriber no more.
LEMMA SendLeavesNoGap ==
    ASSUME NumbersInv, NoGapIsSent, NEW t \in Target, SendData(t)
    PROVE  NoGapIsSent'
<1> DEFINE n == responseId[t] + 1
           sent == [kind |-> "data", target |-> t, id |-> n, call |-> n]
<1>1. /\ BridgeTypeOK /\ NumbersInv' /\ seen' = seen /\ lostAt' = lostAt
      /\ responseId' = [responseId EXCEPT ![t] = @ + 1]
  BY SendKeepsNumbers DEF NumbersInv, SendData, historyVars
<1>2. responseId'[t] = n /\ n \in 0..MaxData /\ n \in Id
      /\ (t # "global" => responseId'["global"] = responseId["global"])
  <2>1. responseId'[t] = n /\ (t # "global" => responseId'["global"] = responseId["global"])
    BY <1>1 DEF BridgeTypeOK, Target
  <2>2. responseId'[t] \in 0..MaxData
    BY <1>1 DEF NumbersInv, BridgeTypeOK
  <2>3. n \in Id
    BY <2>1, <2>2, BoundAssumption DEF Id
  <2> QED BY <2>1, <2>2, <2>3
<1>3. sent \in Message
  BY <1>2 DEF Message
<1>4. PICK S : /\ Tell(S, sent)
               /\ t = "global" => subs' \subseteq S \cap subs /\ S \subseteq subs
               /\ t # "global" => subs' = subs
  <2>1. CASE t = "session"
    BY <1>2, <2>1 DEF SendData
  <2>2. CASE t # "session"
    BY <1>2, <2>2 DEF SendData, SendToSubscribers, Target
  <2> QED BY <2>1, <2>2
<1> HIDE DEF n
<1>5. responseId[t] \in Nat /\ n \in Nat /\ n = responseId[t] + 1
  BY <1>1 DEF n, BridgeTypeOK
<1>6. ASSUME NEW u \in Session PROVE \E g : SentTo(u, g)'
  <2> DEFINE lost == lostAt[u]
  <2>1. PICK f : SentTo(u, f)
    BY DEF NoGapIsSent
  <2> DEFINE at == f[Len(toClient[u])]
  <2>2. toClient[u] \in Seq(Message) /\ at \in 0..MaxData /\ lost \in Nat
    <3>1. toClient[u] \in Seq(Message) /\ lost \in Nat
      BY <1>1 DEF BridgeTypeOK
    <3>2. Len(toClient[u]) \in 0..Len(toClient[u])
      BY <3>1
    <3> QED BY <2>1, <3>1, <3>2 DEF SentTo, Sees
  <2>3. CASE u \notin S
    <3>1. toClient'[u] = toClient[u]
      BY <1>4, <2>3 DEF Tell
    <3>2. u \in subs' => u \in subs /\ responseId'["global"] = responseId["global"]
      BY <1>2, <1>4, <2>3
    <3> QED BY <1>1, <2>1, <3>1, <3>2 DEF SentTo
  <2>4. CASE u \in S
    <3>1. toClient'[u] = Append(toClient[u], sent)
      BY <1>4, <2>4 DEF Tell
    <3>2. PICK k \in 0..MaxData : /\ Hears(lost, sent, at, k)
                                  /\ k = IF t = "global" THEN n ELSE at
      <4>1. CASE t # "global"
        BY <2>2, <4>1 DEF Hears, Reports, Near
      <4>2. CASE t = "global"
        <5>1. UpToDate(lost, at, responseId[t])
          BY <1>4, <2>1, <2>4, <4>2 DEF SentTo
        <5>2. at = 0 \/ n = at + 1 \/ n <= lost + 1
          BY <1>5, <2>2, <5>1 DEF UpToDate
        <5>3. Reports(sent) /\ Reported(sent) = n
          BY <4>2 DEF Reports, Reported
        <5> HIDE DEF sent, at, lost
        <5> QED BY <1>2, <4>2, <5>2, <5>3 DEF Hears
      <4> QED BY <4>1, <4>2
    <3> HIDE DEF sent
    <3>3. \E g : /\ Sees(lost, Append(toClient[u], sent), g) /\ g[0] = f[0]
                 /\ g[Len(Append(toClient[u], sent))] = k
      BY <1>3, <2>1, <2>2, <3>2, SeesMore DEF SentTo
    <3>4. u \in subs' => UpToDate(lost, k, responseId'["global"])
      <4>1. CASE t = "global"
        BY <1>2, <3>2, <4>1 DEF UpToDate
      <4>2. CASE t # "global"
        BY <1>2, <1>4, <2>1, <3>2, <4>2 DEF SentTo
      <4> QED BY <4>1, <4>2
    <3> QED BY <1>1, <2>1, <3>1, <3>3, <3>4 DEF SentTo
  <2> QED BY <2>3, <2>4
<1>7. responseId["global"] \in Nat /\ responseId'["global"] \in Nat
      /\ responseId["global"] <= responseId'["global"]
  <2>1. CASE t = "global"
    BY <1>2, <1>5, <2>1
  <2>2. CASE t # "global"
    BY <1>1, <1>2, <2>2 DEF BridgeTypeOK, Target
  <2> QED BY <2>1, <2>2
<1>8. ASSUME NEW u \in Session PROVE seen'[u] <= responseId'["global"]
  <2>1. seen[u] \in Nat /\ seen[u] <= responseId["global"]
    BY <1>1 DEF BridgeTypeOK, NoGapIsSent
  <2> QED BY <1>1, <1>7, <2>1
<1> QED BY <1>6, <1>8 DEF NoGapIsSent

\* Messages for a page are lost: what remains is from before the loss.
LEMMA LossLeavesNoGap ==
    ASSUME NumbersInv, NumbersInv', NoGapIsSent, NEW s \in Session, LoseBatch(s)
    PROVE  NoGapIsSent'
<1> DEFINE now == responseId["global"]
           queue == toClient'[s]
           f == [i \in 0..Len(queue) |->
                    IF i > 0 /\ Reports(queue[i]) THEN Reported(queue[i]) ELSE now]
<1>1. /\ BridgeTypeOK /\ BridgeTypeOK' /\ ServerNumbers'
      /\ seen' = seen /\ subs' = subs /\ responseId' = responseId
  BY DEF NumbersInv, LoseBatch, serverVars
<1>2. \A u \in Session : IF u = s THEN lostAt'[u] = now
                         ELSE lostAt'[u] = lostAt[u] /\ toClient'[u] = toClient[u]
  <2> HIDE DEF queue, f
  <2> QED BY <1>1, BatchLeavesRest
<1>3. now \in 0..MaxData /\ queue \in Seq(Message) /\ Len(queue) \in Nat
  BY <1>1 DEF BridgeTypeOK, Target
<1>4. ASSUME NEW i \in 1..Len(queue), Reports(queue[i]) PROVE Reported(queue[i]) \in 0..now
  <2>1. queue[i] \in Messages(queue)
    <3> HIDE DEF queue
    <3> QED BY <1>3 DEF Messages
  <2>2. queue[i].kind = "data" => queue[i].call \in 1..responseId[queue[i].target]
    BY <1>1, <2>1 DEF ServerNumbers
  <2> HIDE DEF queue
  <2> QED BY <1>3, <1>4, <2>2 DEF Reports, Reported
<1> HIDE DEF queue
<1>5. ASSUME NEW i \in 0..Len(queue)
      PROVE  /\ f[i] = IF i > 0 /\ Reports(queue[i]) THEN Reported(queue[i]) ELSE now
             /\ f[i] \in 0..now
  <2>1. i > 0 => i \in 1..Len(queue)
    BY <1>3
  <2> QED BY <1>3, <1>4, <2>1
<1>6. f \in [0..Len(queue) -> 0..MaxData]
  <2>1. \A i \in 0..Len(queue) : f[i] \in 0..MaxData
    <3> HIDE DEF f
    <3> QED BY <1>3, <1>5, BoundAssumption
  <2> QED BY <2>1
<1>7. ASSUME NEW i \in 1..Len(queue) PROVE Hears(now, queue[i], f[i - 1], f[i])
  <2>1. i \in 0..Len(queue) /\ i - 1 \in 0..Len(queue) /\ i > 0
    BY <1>3
  <2>2. f[i] = (IF Reports(queue[i]) THEN Reported(queue[i]) ELSE now)
        /\ f[i] \in 0..now /\ f[i - 1] \in 0..now
    BY <1>5, <2>1
  <2> HIDE DEF f
  <2> QED BY <1>3, <2>2 DEF Hears, Near
<1>8. seen[s] \in 0..MaxData /\ seen[s] <= now
  BY <1>1 DEF BridgeTypeOK, NoGapIsSent
<1>9. f[0] = now /\ f[Len(queue)] \in 0..now
  BY <1>3, <1>5
<1>10. PICK g : Sees(now, queue, g) /\ g[0] = now /\ g[Len(queue)] \in 0..now
  <2> HIDE DEF f
  <2>1. Sees(now, queue, f)
    BY <1>6, <1>7 DEF Sees
  <2> QED BY <1>9, <2>1
<1>11. SentTo(s, g)'
  <2>1. Near(now, seen[s], g[0])
    BY <1>3, <1>8, <1>10 DEF Near
  <2>2. UpToDate(now, g[Len(queue)], now)
    BY <1>3, <1>10 DEF UpToDate
  <2>3. lostAt'[s] = now
    BY <1>2
  <2> QED BY <1>1, <1>10, <2>1, <2>2, <2>3 DEF SentTo, queue
<1> QED BY <1>1, <1>2, <1>11 DEF NoGapIsSent, SentTo

LEMMA NoGapAtFirst == BridgeInit => NoGapIsSent
<1> SUFFICES ASSUME BridgeInit, NEW s \in Session
             PROVE  seen[s] <= responseId["global"] /\ \E f : SentTo(s, f)
  BY DEF NoGapIsSent
<1> DEFINE f == [i \in 0..0 |-> 0]
<1>1. toClient[s] = <<>> /\ seen[s] = 0 /\ subs = {} /\ responseId["global"] = 0
  BY DEF BridgeInit, Target
<1>2. f \in [0..0 -> 0..MaxData] /\ f[0] = 0
  BY BoundAssumption
<1>3. Len(toClient[s]) = 0 /\ \A i \in 1..Len(toClient[s]) : FALSE
  BY <1>1
<1> HIDE DEF f
<1>4. Sees(lostAt[s], toClient[s], f)
  BY <1>2, <1>3 DEF Sees
<1>5. SentTo(s, f)
  BY <1>1, <1>2, <1>4 DEF SentTo, Near
<1> QED BY <1>1, <1>5

LEMMA NoGapKept ==
    ASSUME NumbersInv, NumbersInv', NoGapIsSent, [BridgeNext]_bridgeVars
    PROVE  NoGapIsSent' /\ LeavesNoGap
<1>1. CASE \E s \in Session : Receive(s)
  BY <1>1, ReceiveLeavesNoGap
<1>2. CASE ~\E s \in Session : Receive(s)
  <2>1. seen' = seen
    BY <1>2 DEF BridgeNext, bridgeVars, Subscribe, Call, Reload, Dispatch, Detach, Attach, LosePost,
                LoseBatch, SendData, historyVars
  <2>2. LeavesNoGap
    BY <2>1 DEF LeavesNoGap
  <2>3. CASE \E s \in Session : Dispatch(s)
    BY <2>2, <2>3, DispatchLeavesNoGap
  <2>4. CASE \E t \in Target : SendData(t)
    BY <2>2, <2>4, SendLeavesNoGap
  <2>5. CASE \E s \in Session : LoseBatch(s)
    BY <2>2, <2>5, LossLeavesNoGap
  <2>6. CASE /\ ~(\E s \in Session : Dispatch(s) \/ LoseBatch(s))
             /\ ~(\E t \in Target : SendData(t))
    <3>1. toClient' = toClient /\ subs' = subs /\ responseId' = responseId /\ lostAt' = lostAt
      BY <1>2, <2>6 DEF BridgeNext, bridgeVars, Subscribe, Call, Reload, Detach, Attach, LosePost,
                        serverVars, historyVars
    <3> QED BY <2>1, <2>2, <3>1 DEF NoGapIsSent, SentTo
  <2> QED BY <2>3, <2>4, <2>5, <2>6
<1> QED BY <1>1, <1>2

\* A page misses no data of the global bridge while it is subscribed, but what was
\* sent before messages for it were lost, for any number of sessions and messages,
\* whatever is detached, lost in either direction or loaded again.
THEOREM SubscribersMissNothing == BridgeSpec => NoGapWhileSubscribed
<1>1. NumbersInv /\ NumbersInv' /\ NoGapIsSent /\ [BridgeNext]_bridgeVars
        => NoGapIsSent' /\ LeavesNoGap
  BY NoGapKept
<1>2. LeavesNoGap => [\A s \in Session :
                        seen[s] > 0 /\ seen'[s] > 0 =>
                            \/ seen'[s] \in {seen[s], seen[s] + 1}
                            \/ seen'[s] <= lostAt[s] + 1]_bridgeVars
  BY DEF LeavesNoGap
<1> QED BY <1>1, <1>2, NumbersHold, NoGapAtFirst, PTL DEF BridgeSpec, NoGapWhileSubscribed

-----------------------------------------------------------------------------
(* Uploads *)

\* A set of naturals that is not empty has a smallest one.
LEMMA MinOfNaturals ==
    ASSUME NEW S \in SUBSET Nat, S # {}
    PROVE  Min(S) \in S /\ \A n \in S : Min(S) <= n
<1>1. \E n \in S : \A m \in S : ~(<<m, n>> \in OpToRel(<, Nat))
  <2> DEFINE Less == OpToRel(<, Nat)
  <2>1. IsWellFoundedOn(Less, Nat)
    BY NatLessThanWellFounded
  <2> HIDE DEF Less
  <2>2. \E n \in S : \A m \in S : ~(<<m, n>> \in Less)
    BY <2>1, WFMin
  <2>3. QED
    BY <2>2 DEF Less
<1>2. \E n \in S : \A m \in S : n <= m
  <2>1. PICK n \in S : \A m \in S : ~(<<m, n>> \in OpToRel(<, Nat))
    BY <1>1
  <2>2. ASSUME NEW m \in S PROVE n <= m
    <3>1. <<m, n>> \in Nat \X Nat /\ ~(m < n)
      BY <2>1 DEF OpToRel
    <3>2. QED
      BY <3>1
  <2>3. QED
    BY <2>2
<1>3. QED
  BY <1>2 DEF Min

\* What holds for the first number and is kept from each to the next holds for all.
LEMMA UpTo ==
    ASSUME NEW N \in Nat, NEW S, 0 \in S, \A n \in 0..N : n \in S /\ n < N => n + 1 \in S
    PROVE  \A n \in 0..N : n \in S
<1> SUFFICES ASSUME NEW m \in 0..N, m \notin S PROVE FALSE
  OBVIOUS
<1> DEFINE Bad == {n \in 0..N : n \notin S}
<1>1. Bad \in SUBSET Nat /\ Bad # {}
  OBVIOUS
<1>2. Min(Bad) \in Bad /\ \A n \in Bad : Min(Bad) <= n
  BY <1>1, MinOfNaturals
<1> DEFINE k == Min(Bad)
<1>3. k \in 0..N /\ k \notin S /\ \A n \in 0..N : n \notin S => k <= n
  BY <1>2
<1> HIDE DEF k
<1>4. k - 1 \in 0..N /\ k - 1 < N /\ ~(k <= k - 1)
  BY <1>3
<1>5. k - 1 \in S
  BY <1>3, <1>4
<1>6. (k - 1) + 1 \in S
  BY <1>4, <1>5
<1>7. QED
  BY <1>3, <1>6

\* A function with a first value and steps to the next ones.
Recursive(f, N, X, base, F) ==
    f \in [0..N -> X] /\ f[0] = base /\ \A n \in 1..N : f[n] = F[<<f[n - 1], n>>]

\* There is one if each step leads from a value to a value.
LEMMA Recursion ==
    ASSUME NEW N \in Nat, NEW X, NEW base \in X, NEW F \in [X \X (1..N) -> X]
    PROVE  \E f : Recursive(f, N, X, base, F)
<1> DEFINE Is(f, m) == f[0] = base /\ \A n \in 1..m : f[n] = F[<<f[n - 1], n>>]
           S == {m \in 0..N : \E f \in [0..m -> X] : Is(f, m)}
<1>1. 0 \in S
  <2> DEFINE f == [n \in 0..0 |-> base]
  <2>1. f \in [0..0 -> X]
    OBVIOUS
  <2>2. Is(f, 0)
    OBVIOUS
  <2> HIDE DEF f, Is
  <2>3. \E e \in [0..0 -> X] : Is(e, 0)
    BY <2>1, <2>2
  <2>4. QED
    BY <2>3
<1>2. ASSUME NEW m \in 0..N, m \in S, m < N PROVE m + 1 \in S
  <2>1. PICK f \in [0..m -> X] : Is(f, m)
    BY <1>2
  <2> DEFINE g == [n \in 0..(m + 1) |-> IF n = m + 1 THEN F[<<f[m], m + 1>>] ELSE f[n]]
  <2>2. F[<<f[m], m + 1>>] \in X
    <3>1. f[m] \in X /\ m + 1 \in 1..N
      BY <1>2, <2>1
    <3>2. QED
      BY <3>1
  <2>3. g \in [0..(m + 1) -> X]
    BY <2>2
  <2>4. g[0] = base
    <3>1. 0 \in 0..(m + 1) /\ 0 # m + 1
      OBVIOUS
    <3>2. QED
      BY <2>1, <3>1
  <2>5. ASSUME NEW n \in 1..(m + 1) PROVE g[n] = F[<<g[n - 1], n>>]
    <3>1. n - 1 \in 0..m /\ n - 1 # m + 1 /\ n \in 0..(m + 1) /\ n - 1 \in 0..(m + 1)
      OBVIOUS
    <3>2. g[n - 1] = f[n - 1]
      BY <3>1
    <3>3. CASE n = m + 1
      BY <3>1, <3>2, <3>3
    <3>4. CASE n # m + 1
      <4>1. n \in 1..m /\ g[n] = f[n]
        BY <3>1, <3>4
      <4>2. QED
        BY <2>1, <3>2, <4>1
    <3>5. QED
      BY <3>3, <3>4
  <2>6. m + 1 \in 0..N
    BY <1>2
  <2> HIDE DEF g
  <2>7. Is(g, m + 1)
    BY <2>4, <2>5
  <2> HIDE DEF Is
  <2>8. QED
    BY <2>3, <2>6, <2>7
<1> HIDE DEF S
<1>3. \A n \in 0..N : n \in S
  BY <1>1, <1>2, UpTo
<1>4. N \in S
  BY <1>3
<1>5. QED
  BY <1>4 DEF S, Recursive

TokenKind == {"dash", "b1", "b2", "h1", "h2", "data", "space", "end"}
Token == [kind : TokenKind, part : Nat]
Path == Seq(Nat)
Directories == UNION {[S -> Seq(Token)] : S \in SUBSET Path}
Entry == [name : Path, file : Path]

\* The states a parser may be in.
ParserStates ==
    [analyze : Seq(Token), target : Path, current : Path \ {<<>>}, fileId : Nat,
     parts : Seq(Entry), files : Directories, opens : SUBSET Path]

\* What a parser keeps while it handles a chunk: it writes to files of its own only,
\* and what it opens was not there, or has the time in its name.
KeepsToItself(st, files0, own, known) ==
    /\ st.target = NoFile \/ (st.target \in st.opens \cup own /\ Len(st.parts) < st.fileId)
    /\ Len(st.parts) <= st.fileId
    /\ \A i \in DOMAIN st.parts : st.parts[i].file \in st.opens \cup own
    /\ DOMAIN st.files = DOMAIN files0 \cup st.opens
    /\ \A f \in st.opens : Len(f) > 2 \/ f \notin known
    /\ \A f \in DOMAIN files0 \ (st.opens \cup own) : st.files[f] = files0[f]

\* A directory is a function from paths.
LEMMA DirectoryIsFunction ==
    ASSUME NEW d \in Directories
    PROVE  /\ d \in [DOMAIN d -> Seq(Token)] /\ DOMAIN d \in SUBSET Path
BY DEF Directories

\* And a function from paths is a directory.
LEMMA FunctionIsDirectory ==
    ASSUME NEW D \in SUBSET Path, NEW d \in [D -> Seq(Token)]
    PROVE  d \in Directories
BY DEF Directories

\* Sequences: without the last, the last, and a part of one.
LEMMA PieceOf ==
    ASSUME NEW S, NEW s \in Seq(S), NEW m \in Nat \ {0}, NEW n \in Nat, n <= Len(s)
    PROVE  /\ SubSeq(s, m, n) \in Seq(S)
           /\ Len(SubSeq(s, m, n)) = IF m <= n THEN n - m + 1 ELSE 0
           /\ \A i \in 1..(n - m + 1) : SubSeq(s, m, n)[i] = s[m + i - 1]
<1>1. \A i \in m..n : s[i] \in S
  BY LenProperties
<1>2. QED
  BY <1>1, SubSeqProperties

\* The last of a sequence, and what is in front of it.
LEMMA LastAndFront ==
    ASSUME NEW S, NEW s \in Seq(S), s # <<>>
    PROVE  /\ Len(s) \in Nat \ {0} /\ Last(s) = s[Len(s)] /\ Last(s) \in S
           /\ Front(s) \in Seq(S) /\ Len(Front(s)) = Len(s) - 1
           /\ \A i \in 1..(Len(s) - 1) : Front(s)[i] = s[i]
<1>1. Len(s) \in Nat \ {0} /\ \A i \in 1..Len(s) : s[i] \in S
  BY EmptySeq
<1>2. Last(s) = s[Len(s)] /\ Last(s) \in S
  BY <1>1 DEF Last
<1>3. Front(s) = SubSeq(s, 1, Len(s) - 1)
  BY DEF Front
<1>4. Len(s) - 1 \in Nat /\ Len(s) - 1 <= Len(s)
  BY <1>1
<1>5. /\ SubSeq(s, 1, Len(s) - 1) \in Seq(S)
      /\ Len(SubSeq(s, 1, Len(s) - 1)) = IF 1 <= Len(s) - 1 THEN Len(s) - 1 - 1 + 1 ELSE 0
      /\ \A i \in 1..(Len(s) - 1 - 1 + 1) : SubSeq(s, 1, Len(s) - 1)[i] = s[1 + i - 1]
  BY <1>4, PieceOf
<1>6. Front(s) \in Seq(S) /\ Len(Front(s)) = Len(s) - 1
  <2>1. Front(s) \in Seq(S)
    BY <1>3, <1>5
  <2> DEFINE n == Len(s)
             p == SubSeq(s, 1, n - 1)
  <2>2. n \in Nat \ {0} /\ Len(p) = IF 1 <= n - 1 THEN n - 1 - 1 + 1 ELSE 0
    BY <1>1, <1>5
  <2> HIDE DEF n, p
  <2>3. Len(p) = n - 1
    BY <2>2
  <2>4. QED
    BY <1>3, <2>1, <2>3 DEF n, p
<1>7. ASSUME NEW i \in 1..(Len(s) - 1) PROVE Front(s)[i] = s[i]
  <2>1. i \in 1..(Len(s) - 1 - 1 + 1) /\ 1 + i - 1 = i
    BY <1>1
  <2>2. QED
    BY <1>3, <1>5, <2>1
<1>8. QED
  BY <1>1, <1>2, <1>6, <1>7

\* findEndIndex leaves a sequence of tokens.
LEMMA WithoutDashType ==
    ASSUME NEW s \in Seq(Token) PROVE WithoutDash(s) \in Seq(Token)
BY LastAndFront DEF WithoutDash

\* The length of a header.
LEMMA HeaderFits ==
    ASSUME NEW s \in Seq(Token), s # <<>>
    PROVE  HeaderLength(s) \in 0..Len(s)
<1>1. Len(s) \in Nat \ {0} /\ DOMAIN s = 1..Len(s)
  BY EmptySeq
<1>2. CASE \E i \in DOMAIN s : s[i].kind = "h2"
  <2> DEFINE I == {i \in DOMAIN s : s[i].kind = "h2"}
  <2>1. I \in SUBSET Nat /\ I # {}
    BY <1>1, <1>2
  <2>2. PICK k \in I : \A i \in I : k <= i
    BY <2>1, MinOfNaturals
  <2>3. \A j \in 1..(k - 1) : s[j].kind # "h2"
    <3>1. ASSUME NEW j \in 1..(k - 1), s[j].kind = "h2" PROVE FALSE
      <4>1. j \in I
        BY <1>1, <2>2, <3>1
      <4>2. QED
        BY <1>1, <2>2, <4>1
    <3>2. QED
      BY <3>1
  <2>4. k \in DOMAIN s /\ s[k].kind = "h2"
    BY <2>2
  <2>5. HeaderLength(s) \in DOMAIN s
    BY <1>2, <2>3, <2>4 DEF HeaderLength
  <2>6. QED
    BY <1>1, <2>5
<1>3. CASE ~\E i \in DOMAIN s : s[i].kind = "h2"
  BY <1>1, <1>3 DEF HeaderLength
<1>4. QED
  BY <1>2, <1>3

\* The fields of a parser's state.
LEMMA ParserFields ==
    ASSUME NEW st \in ParserStates
    PROVE  /\ st.analyze \in Seq(Token) /\ st.target \in Path /\ st.current \in Path \ {<<>>}
           /\ st.fileId \in Nat /\ st.parts \in Seq(Entry) /\ st.files \in Directories
           /\ st.opens \in SUBSET Path
BY DEF ParserStates

\* A part is finished: its name and file are appended, and nothing is open.
LEMMA FinishFields ==
    ASSUME NEW st \in ParserStates
    PROVE  LET new == FinishCurrentPart(st)
           IN  /\ new \in ParserStates
               /\ new.target = NoFile /\ new.analyze = <<>>
               /\ new.parts = Append(st.parts, [name |-> st.current, file |-> st.target])
               /\ new.current = st.current /\ new.fileId = st.fileId
               /\ new.files = st.files /\ new.opens = st.opens
<1> DEFINE entry == [name |-> st.current, file |-> st.target]
           new == [st EXCEPT !.target = <<>>, !.analyze = <<>>, !.parts = Append(@, entry)]
<1>1. entry \in Entry
  BY ParserFields DEF Entry
<1>2. Append(st.parts, entry) \in Seq(Entry)
  BY <1>1, ParserFields, AppendProperties
<1>3. <<>> \in Seq(Token) /\ <<>> \in Path
  BY EmptySeq DEF Path
<1>4. FinishCurrentPart(st) = new
  BY DEF FinishCurrentPart, NoFile
<1> HIDE DEF entry
<1>5. new \in ParserStates
  BY <1>2, <1>3 DEF ParserStates
<1>6. /\ new.target = <<>> /\ new.analyze = <<>> /\ new.parts = Append(st.parts, entry)
      /\ new.current = st.current /\ new.fileId = st.fileId
      /\ new.files = st.files /\ new.opens = st.opens
  BY DEF ParserStates
<1>7. QED
  BY <1>4, <1>5, <1>6 DEF NoFile, entry

\* Finishing a part keeps to the parser's own files.
LEMMA FinishKeeps ==
    ASSUME NEW st \in ParserStates, NEW files0, NEW own, NEW known, st.target # NoFile,
           KeepsToItself(st, files0, own, known)
    PROVE  KeepsToItself(FinishCurrentPart(st), files0, own, known)
<1> DEFINE new == FinishCurrentPart(st)
<1>1. /\ st.parts \in Seq(Entry) /\ st.fileId \in Nat
      /\ st.target \in st.opens \cup own /\ Len(st.parts) < st.fileId
  BY ParserFields DEF KeepsToItself
<1>2. /\ new.target = NoFile /\ new.fileId = st.fileId /\ new.files = st.files /\ new.opens = st.opens
      /\ new.parts = Append(st.parts, [name |-> st.current, file |-> st.target])
      /\ new.parts \in Seq(Entry)
  BY FinishFields, ParserFields
<1>3. Len(new.parts) = Len(st.parts) + 1
  BY <1>1, <1>2
<1>4. ASSUME NEW i \in DOMAIN new.parts PROVE new.parts[i].file \in st.opens \cup own
  <2>1. i \in 1..(Len(st.parts) + 1)
    BY <1>2, <1>3
  <2>2. CASE i = Len(st.parts) + 1
    <3>1. new.parts[i] = [name |-> st.current, file |-> st.target]
      BY <1>1, <1>2, <2>2
    <3>2. QED
      BY <1>1, <3>1
  <2>3. CASE i # Len(st.parts) + 1
    <3>1. i \in DOMAIN st.parts /\ new.parts[i] = st.parts[i]
      BY <1>1, <1>2, <2>1, <2>3
    <3>2. QED
      BY <3>1 DEF KeepsToItself
  <2>4. QED
    BY <2>2, <2>3
<1>5. Len(new.parts) <= new.fileId
  BY <1>1, <1>2, <1>3
<1> HIDE DEF new
<1>6. KeepsToItself(new, files0, own, known)
  BY <1>2, <1>4, <1>5 DEF KeepsToItself
<1>7. QED
  BY <1>6 DEF new

\* The name of a part, and that the file is new or has the time in its name.
LEMMA NameIsNew ==
    ASSUME NEW st \in ParserStates, NEW name \in Path \ {<<>>}, NEW id \in Nat, NEW known,
           clock \in Nat
    PROVE  LET new == NameFor(st, name, id, known)
           IN  /\ new \in Path \ {<<>>} /\ <<id>> \o new \in Path /\ <<id>> \o new # NoFile
               /\ Last(new) = Last(name)
               /\ (<<id>> \o new)[1] = id
               /\ Len(<<id>> \o new) > 2 \/ <<id>> \o new \notin known
<1> DEFINE new == NameFor(st, name, id, known)
<1>1. name \in Seq(Nat) /\ Len(name) \in Nat \ {0}
  BY EmptySeq DEF Path
<1>2. new = name \/ new = <<clock>> \o name
  BY DEF NameFor
<1>3. /\ <<clock>> \o name \in Seq(Nat) /\ Len(<<clock>> \o name) = Len(name) + 1
      /\ (<<clock>> \o name)[Len(name) + 1] = name[Len(name)]
  BY <1>1
<1>4. new \in Seq(Nat) /\ Len(new) \in Nat \ {0} /\ new # <<>>
  <2>1. new \in Seq(Nat) /\ Len(new) \in Nat \ {0}
    <3> HIDE DEF new
    <3>1. CASE new = name
      BY <1>1, <3>1
    <3>2. CASE new = <<clock>> \o name
      BY <1>1, <1>3, <3>2
    <3>3. QED
      BY <1>2, <3>1, <3>2
  <2>2. QED
    BY <2>1, EmptySeq
<1>5. Last(new) = Last(name)
  BY <1>1, <1>2, <1>3 DEF Last
<1>6. /\ <<id>> \o new \in Seq(Nat) /\ Len(<<id>> \o new) = Len(new) + 1
      /\ (<<id>> \o new)[1] = id
  <2> HIDE DEF new
  <2>1. QED
    BY <1>4
<1>7. <<id>> \o new # <<>>
  <2> HIDE DEF new
  <2>1. QED
    BY <1>4, <1>6, EmptySeq
<1>8. Len(<<id>> \o new) > 2 \/ <<id>> \o new \notin known
  <2>1. CASE new = <<clock>> \o name
    <3> HIDE DEF new
    <3>1. Len(new) > 1
      BY <1>1, <1>3, <2>1
    <3>2. QED
      BY <1>4, <1>6, <3>1
  <2>2. CASE new # <<clock>> \o name
    BY <2>2 DEF NameFor
  <2>3. QED
    BY <2>1, <2>2
<1> HIDE DEF new
<1>9. QED
  BY <1>4, <1>5, <1>6, <1>7, <1>8 DEF new, Path, NoFile

\* The name in a header is a name.
LEMMA NameInType ==
    ASSUME NEW s \in Seq(Token), NEW before \in Path \ {<<>>}
    PROVE  NameIn(s, before) \in Path \ {<<>>}
<1>1. CASE Len(s) >= 2 /\ s[1].kind = "h1" /\ s[2].kind = "h2" /\ s[1].part \notin Colon
  <2>1. s[1] \in Token
    BY <1>1
  <2>2. s[1].part \in Nat
    BY <2>1 DEF Token
  <2>3. <<s[1].part>> \in Seq(Nat) /\ <<s[1].part>> # <<>>
    BY <2>2
  <2>4. QED
    BY <1>1, <2>3 DEF NameIn, Path
<1>2. CASE ~(Len(s) >= 2 /\ s[1].kind = "h1" /\ s[2].kind = "h2" /\ s[1].part \notin Colon)
  BY <1>2 DEF NameIn
<1>3. QED
  BY <1>1, <1>2

\* What a part is opened with: its header, its name, its file, its first data.
OpenedWith(st, all, isComplete, known) ==
    LET data == SubSeq(all, HeaderLength(all) + 1, Len(all))
        id == st.fileId + 1
        name == NameFor(st, NameIn(all, st.current), id, known)
        f == <<id>> \o name
        written == IF isComplete THEN WithoutDash(data) ELSE data
    IN  [st EXCEPT !.analyze = all, !.current = name, !.fileId = id, !.target = f,
                   !.opens = @ \cup {f},
                   !.files = [x \in DOMAIN @ \cup {f} |-> IF x # f THEN @[x] ELSE written]]

\* A part is opened, and finished at once when it is complete.
LEMMA OpenedIs ==
    ASSUME NEW st, NEW all, NEW isComplete, NEW known
    PROVE  OpenPart(st, all, isComplete, known) =
               IF isComplete THEN FinishCurrentPart(OpenedWith(st, all, isComplete, known))
               ELSE OpenedWith(st, all, isComplete, known)
BY DEF OpenPart, OpenedWith

\* What the state is after a part was opened.
LEMMA OpenedFields ==
    ASSUME NEW st \in ParserStates, NEW all \in Seq(Token), all # <<>>, NEW known,
           NEW isComplete \in BOOLEAN, clock \in Nat
    PROVE  LET new == OpenedWith(st, all, isComplete, known)
               data == SubSeq(all, HeaderLength(all) + 1, Len(all))
           IN  /\ new \in ParserStates
               /\ new.analyze = all /\ new.fileId = st.fileId + 1 /\ new.parts = st.parts
               /\ Last(new.current) = Last(NameIn(all, st.current))
               /\ new.target # NoFile /\ new.target[1] = new.fileId
               /\ Len(new.target) > 2 \/ new.target \notin known
               /\ new.opens = st.opens \cup {new.target}
               /\ DOMAIN new.files = DOMAIN st.files \cup {new.target}
               /\ new.files[new.target] = IF isComplete THEN WithoutDash(data) ELSE data
               /\ \A f \in DOMAIN st.files \ {new.target} : new.files[f] = st.files[f]
<1> DEFINE data == SubSeq(all, HeaderLength(all) + 1, Len(all))
           id == st.fileId + 1
           name == NameFor(st, NameIn(all, st.current), id, known)
           f == <<id>> \o name
           written == IF isComplete THEN WithoutDash(data) ELSE data
           dir == [x \in DOMAIN st.files \cup {f} |-> IF x # f THEN st.files[x] ELSE written]
           new == [st EXCEPT !.analyze = all, !.current = name, !.fileId = id, !.target = f,
                             !.opens = @ \cup {f}, !.files = dir]
<1>1. data \in Seq(Token) /\ written \in Seq(Token)
  <2>1. HeaderLength(all) \in 0..Len(all) /\ Len(all) \in Nat
    BY HeaderFits
  <2>2. HeaderLength(all) + 1 \in Nat \ {0} /\ Len(all) \in Nat /\ Len(all) <= Len(all)
    BY <2>1
  <2>3. data \in Seq(Token)
    BY <2>2, PieceOf
  <2> HIDE DEF data
  <2>4. QED
    BY <2>3, WithoutDashType
<1>2. id \in Nat /\ NameIn(all, st.current) \in Path \ {<<>>}
  BY ParserFields, NameInType
<1>3. /\ name \in Path \ {<<>>} /\ f \in Path /\ f # NoFile /\ f[1] = id
      /\ Last(name) = Last(NameIn(all, st.current))
      /\ Len(f) > 2 \/ f \notin known
  <2> HIDE DEF id
  <2>1. QED
    BY <1>2, NameIsNew
<1>4. OpenedWith(st, all, isComplete, known) = new
  BY DEF OpenedWith
<1> HIDE DEF data, id, name, f, written
<1>5. /\ dir \in Directories /\ DOMAIN dir = DOMAIN st.files \cup {f} /\ dir[f] = written
      /\ \A x \in DOMAIN st.files \ {f} : dir[x] = st.files[x]
  <2>1. st.files \in [DOMAIN st.files -> Seq(Token)] /\ DOMAIN st.files \in SUBSET Path
    BY ParserFields, DirectoryIsFunction
  <2>2. dir \in [DOMAIN st.files \cup {f} -> Seq(Token)]
    BY <1>1, <2>1
  <2>3. DOMAIN st.files \cup {f} \in SUBSET Path
    BY <1>3, <2>1
  <2>4. /\ DOMAIN dir = DOMAIN st.files \cup {f} /\ dir[f] = written
        /\ \A x \in DOMAIN st.files \ {f} : dir[x] = st.files[x]
    OBVIOUS
  <2> HIDE DEF dir
  <2>5. dir \in Directories
    BY <2>2, <2>3, FunctionIsDirectory
  <2>6. QED
    BY <2>4, <2>5
<1> HIDE DEF dir
<1>6. st.opens \cup {f} \in SUBSET Path
  BY <1>3, ParserFields
<1>7. new \in ParserStates
  BY <1>2, <1>3, <1>5, <1>6 DEF ParserStates
<1>8. /\ new.analyze = all /\ new.current = name /\ new.fileId = id /\ new.target = f
      /\ new.opens = st.opens \cup {f} /\ new.files = dir /\ new.parts = st.parts
  BY DEF ParserStates
<1> HIDE DEF new
<1>9. QED
  BY <1>3, <1>4, <1>5, <1>7, <1>8 DEF id, written, data

\* The file that is opened is new, or has the time in its name.
LEMMA OpenedKeeps ==
    ASSUME NEW st \in ParserStates, NEW all \in Seq(Token), all # <<>>, NEW known,
           NEW isComplete \in BOOLEAN, clock \in Nat, NEW files0, NEW own,
           KeepsToItself(st, files0, own, known)
    PROVE  KeepsToItself(OpenedWith(st, all, isComplete, known), files0, own, known)
<1> DEFINE new == OpenedWith(st, all, isComplete, known)
<1>1. /\ new \in ParserStates
      /\ new.fileId = st.fileId + 1 /\ new.parts = st.parts
      /\ new.target # NoFile
      /\ Len(new.target) > 2 \/ new.target \notin known
      /\ new.opens = st.opens \cup {new.target}
      /\ DOMAIN new.files = DOMAIN st.files \cup {new.target}
      /\ \A f \in DOMAIN st.files \ {new.target} : new.files[f] = st.files[f]
  BY OpenedFields
<1> HIDE DEF new
<1>2. st.fileId \in Nat /\ Len(st.parts) \in Nat
  BY ParserFields
<1>3. Len(new.parts) < new.fileId /\ Len(new.parts) <= new.fileId
  BY <1>1, <1>2 DEF KeepsToItself
<1>4. QED
  BY <1>1, <1>3 DEF new, KeepsToItself

\* More data of the part whose file is open.
Extended(st, s) == [st EXCEPT !.files = WriteTo(@, st.target, s)]

\* Data for the open file changes nothing but that file.
LEMMA ExtendedFields ==
    ASSUME NEW st \in ParserStates, st.target \in DOMAIN st.files, NEW s \in Seq(Token)
    PROVE  LET new == Extended(st, s)
           IN  /\ new \in ParserStates
               /\ new.analyze = st.analyze /\ new.target = st.target /\ new.current = st.current
               /\ new.fileId = st.fileId /\ new.parts = st.parts /\ new.opens = st.opens
               /\ DOMAIN new.files = DOMAIN st.files
               /\ new.files[st.target] = st.files[st.target] \o s
               /\ \A f \in DOMAIN st.files \ {st.target} : new.files[f] = st.files[f]
<1> DEFINE dir == WriteTo(st.files, st.target, s)
           new == [st EXCEPT !.files = dir]
<1>1. st.files \in [DOMAIN st.files -> Seq(Token)] /\ DOMAIN st.files \in SUBSET Path
  BY ParserFields, DirectoryIsFunction
<1>2. st.files[st.target] \o s \in Seq(Token)
  BY <1>1
<1>3. /\ DOMAIN dir = DOMAIN st.files /\ dir[st.target] = st.files[st.target] \o s
      /\ \A f \in DOMAIN st.files \ {st.target} : dir[f] = st.files[f]
      /\ dir \in [DOMAIN st.files -> Seq(Token)]
  BY <1>1, <1>2 DEF WriteTo
<1>4. Extended(st, s) = new
  BY DEF Extended
<1> HIDE DEF dir
<1>5. dir \in Directories
  BY <1>1, <1>3, FunctionIsDirectory
<1>6. /\ new \in ParserStates /\ new.analyze = st.analyze /\ new.target = st.target
      /\ new.current = st.current /\ new.fileId = st.fileId /\ new.parts = st.parts
      /\ new.opens = st.opens /\ new.files = dir
  BY <1>5 DEF ParserStates
<1> HIDE DEF new
<1>7. QED
  BY <1>3, <1>4, <1>6

\* Data for the open file goes to a file of the parser's own.
LEMMA ExtendedKeeps ==
    ASSUME NEW st \in ParserStates, st.target # NoFile, NEW s \in Seq(Token),
           NEW files0, NEW own, own \subseteq DOMAIN files0, NEW known,
           KeepsToItself(st, files0, own, known)
    PROVE  /\ st.target \in DOMAIN st.files
           /\ KeepsToItself(Extended(st, s), files0, own, known)
<1> DEFINE new == Extended(st, s)
<1>1. st.target \in DOMAIN st.files /\ st.target \in st.opens \cup own
  BY DEF KeepsToItself
<1>2. /\ new.target = st.target /\ new.fileId = st.fileId
      /\ new.parts = st.parts /\ new.opens = st.opens
      /\ DOMAIN new.files = DOMAIN st.files
      /\ \A f \in DOMAIN st.files \ {st.target} : new.files[f] = st.files[f]
  BY <1>1, ExtendedFields
<1> HIDE DEF new
<1>3. KeepsToItself(new, files0, own, known)
  BY <1>1, <1>2 DEF KeepsToItself
<1>4. QED
  BY <1>1, <1>3 DEF new

\* A header that waits for its data.
LEMMA WaitingFields ==
    ASSUME NEW st \in ParserStates, NEW all \in Seq(Token)
    PROVE  LET new == [st EXCEPT !.analyze = all]
           IN  /\ new \in ParserStates /\ new.analyze = all
               /\ new.target = st.target /\ new.current = st.current
               /\ new.fileId = st.fileId /\ new.parts = st.parts /\ new.opens = st.opens
               /\ new.files = st.files
BY DEF ParserStates

\* So does a header that waits for data.
LEMMA WaitingKeeps ==
    ASSUME NEW st \in ParserStates, NEW all \in Seq(Token), NEW files0, NEW own, NEW known,
           KeepsToItself(st, files0, own, known)
    PROVE  KeepsToItself([st EXCEPT !.analyze = all], files0, own, known)
<1> DEFINE new == [st EXCEPT !.analyze = all]
<1>1. /\ new.target = st.target /\ new.fileId = st.fileId /\ new.parts = st.parts
      /\ new.opens = st.opens /\ new.files = st.files
  BY WaitingFields
<1> HIDE DEF new
<1>2. KeepsToItself(new, files0, own, known)
  BY <1>1 DEF KeepsToItself
<1>3. QED
  BY <1>2 DEF new

\* Opening a part keeps to the parser's own files.
LEMMA OpenPartKeeps ==
    ASSUME NEW st \in ParserStates, NEW all \in Seq(Token), all # <<>>, NEW known,
           NEW isComplete \in BOOLEAN, clock \in Nat, NEW files0, NEW own,
           KeepsToItself(st, files0, own, known)
    PROVE  /\ OpenPart(st, all, isComplete, known) \in ParserStates
           /\ KeepsToItself(OpenPart(st, all, isComplete, known), files0, own, known)
<1> DEFINE new == OpenedWith(st, all, isComplete, known)
<1>1. new \in ParserStates /\ new.target # NoFile
  BY OpenedFields
<1>2. KeepsToItself(new, files0, own, known)
  BY OpenedKeeps
<1>3. OpenPart(st, all, isComplete, known) = IF isComplete THEN FinishCurrentPart(new) ELSE new
  BY OpenedIs
<1> HIDE DEF new
<1>4. FinishCurrentPart(new) \in ParserStates /\ KeepsToItself(FinishCurrentPart(new), files0, own, known)
  BY <1>1, <1>2, FinishFields, FinishKeeps
<1>5. QED
  BY <1>1, <1>2, <1>3, <1>4

\* So does writeDataToCurrentPart, whatever it is given.
LEMMA WriteDataKeeps ==
    ASSUME NEW st \in ParserStates, NEW s \in Seq(Token), NEW isComplete \in BOOLEAN, NEW known,
           clock \in Nat, NEW files0, NEW own, own \subseteq DOMAIN files0,
           KeepsToItself(st, files0, own, known)
    PROVE  /\ WriteData(st, s, isComplete, known) \in ParserStates
           /\ KeepsToItself(WriteData(st, s, isComplete, known), files0, own, known)
<1> DEFINE all == st.analyze \o s
<1>1. all \in Seq(Token)
  BY ParserFields
<1>2. CASE st.target # NoFile
  <2>1. WriteData(st, s, isComplete, known) = Extended(st, s)
    BY <1>2 DEF WriteData, Extended
  <2>2. QED
    BY <1>2, <2>1, ExtendedKeeps, ExtendedFields
<1>0. CASE st.target = NoFile /\ IsFull(st.analyze)
  BY <1>0 DEF WriteData
<1>3. CASE /\ st.target = NoFile /\ ~IsFull(st.analyze)
           /\ all = <<>> \/ HeaderLength(all) = Len(all)
  <2>1. WriteData(st, s, isComplete, known) = [st EXCEPT !.analyze = all]
    BY <1>3 DEF WriteData
  <2> HIDE DEF all
  <2>2. [st EXCEPT !.analyze = all] \in ParserStates
    BY <1>1, WaitingFields
  <2>3. KeepsToItself([st EXCEPT !.analyze = all], files0, own, known)
    BY <1>1, WaitingKeeps
  <2>4. QED
    BY <2>1, <2>2, <2>3
<1>4. CASE /\ st.target = NoFile /\ ~IsFull(st.analyze)
           /\ ~(all = <<>> \/ HeaderLength(all) = Len(all))
  <2>1. WriteData(st, s, isComplete, known) = OpenPart(st, all, isComplete, known)
    BY <1>4 DEF WriteData
  <2> HIDE DEF all
  <2>2. QED
    BY <1>1, <1>4, <2>1, OpenPartKeeps
<1>5. QED
  BY <1>0, <1>2, <1>3, <1>4

\* So does the end of a part.
LEMMA HandleFirstKeeps ==
    ASSUME NEW st \in ParserStates, NEW s \in Seq(Token), NEW known,
           NEW files0, NEW own, own \subseteq DOMAIN files0,
           KeepsToItself(st, files0, own, known)
    PROVE  /\ HandleFirst(st, s, known) \in ParserStates
           /\ KeepsToItself(HandleFirst(st, s, known), files0, own, known)
<1>1. CASE Blank(s) \/ st.target = NoFile
  BY <1>1 DEF HandleFirst, WriteLastBlock
<1>2. CASE ~Blank(s) /\ st.target # NoFile
  <2> DEFINE new == Extended(st, WithoutDash(s))
  <2>1. HandleFirst(st, s, known) = FinishCurrentPart(new)
    BY <1>2 DEF HandleFirst, WriteLastBlock, Extended
  <2>2. WithoutDash(s) \in Seq(Token)
    BY WithoutDashType
  <2>3. st.target \in DOMAIN st.files /\ KeepsToItself(new, files0, own, known)
    BY <1>2, <2>2, ExtendedKeeps
  <2>4. new \in ParserStates /\ new.target = st.target
    BY <2>2, <2>3, ExtendedFields
  <2> HIDE DEF new
  <2>5. QED
    BY <1>2, <2>1, <2>3, <2>4, FinishFields, FinishKeeps
<1>3. QED
  BY <1>1, <1>2

\* The complete parts, one after the other.
LEMMA PartsWritten ==
    ASSUME NEW st \in ParserStates, NEW between \in Seq(Seq(Token)), NEW known, clock \in Nat,
           NEW files0, NEW own, own \subseteq DOMAIN files0,
           KeepsToItself(st, files0, own, known)
    PROVE  \E written \in [0..Len(between) -> ParserStates] :
             /\ WriteParts(st, between, known) = written[Len(between)]
             /\ written[0] = st
             /\ \A n \in 1..Len(between) :
                   written[n] = WriteData(written[n - 1], between[n], TRUE, known)
             /\ \A n \in 0..Len(between) : KeepsToItself(written[n], files0, own, known)
<1> DEFINE N == Len(between)
           X == {e \in ParserStates : KeepsToItself(e, files0, own, known)}
           F == [v \in X \X (1..N) |-> WriteData(v[1], between[v[2]], TRUE, known)]
           Is(f) == f = [n \in 0..N |-> IF n = 0 THEN st
                                        ELSE WriteData(f[n - 1], between[n], TRUE, known)]
<1>1. N \in Nat /\ \A n \in 1..N : between[n] \in Seq(Token)
  BY LenProperties
<1>2. st \in X
  OBVIOUS
<1>3. \A e \in X : \A n \in 1..N : WriteData(e, between[n], TRUE, known) \in X
  <2> SUFFICES ASSUME NEW e \in X, NEW n \in 1..N
               PROVE  WriteData(e, between[n], TRUE, known) \in X
    OBVIOUS
  <2>1. e \in ParserStates /\ KeepsToItself(e, files0, own, known) /\ between[n] \in Seq(Token)
    BY <1>1
  <2>2. /\ WriteData(e, between[n], TRUE, known) \in ParserStates
        /\ KeepsToItself(WriteData(e, between[n], TRUE, known), files0, own, known)
    BY <2>1, WriteDataKeeps
  <2>3. QED
    BY <2>2
<1> HIDE DEF N, X
<1>4. /\ F \in [X \X (1..N) -> X]
      /\ \A e \in X : \A n \in 1..N : F[<<e, n>>] = WriteData(e, between[n], TRUE, known)
  <2>1. ASSUME NEW v \in X \X (1..N) PROVE WriteData(v[1], between[v[2]], TRUE, known) \in X
    <3>1. v[1] \in X /\ v[2] \in 1..N
      OBVIOUS
    <3>2. QED
      BY <1>3, <3>1
  <2>2. QED
    BY <2>1
<1> HIDE DEF F
<1>5. PICK g : Recursive(g, N, X, st, F)
  BY <1>1, <1>2, <1>4, Recursion
<1>6. g \in [0..N -> X] /\ g[0] = st /\ \A n \in 1..N : g[n] = F[<<g[n - 1], n>>]
  BY <1>5 DEF Recursive
<1>7. Is(g)
  <2> DEFINE h == [n \in 0..N |-> IF n = 0 THEN st
                                  ELSE WriteData(g[n - 1], between[n], TRUE, known)]
  <2>1. \A n \in 0..N : n # 0 => n - 1 \in 0..N /\ n \in 1..N
    BY <1>1
  <2>2. \A n \in 0..N : n # 0 => g[n] = WriteData(g[n - 1], between[n], TRUE, known)
    BY <1>4, <1>6, <2>1
  <2>3. \A n \in 0..N : g[n] = h[n]
    BY <1>6, <2>2
  <2>4. g = [n \in 0..N |-> g[n]] /\ h = [n \in 0..N |-> h[n]]
    BY <1>6
  <2> HIDE DEF h
  <2>5. g = h
    BY <2>3, <2>4
  <2>6. QED
    BY <2>5 DEF h
<1> DEFINE f == CHOOSE e : Is(e)
<1>8. Is(f)
  <2> HIDE DEF Is
  <2>1. QED
    BY <1>7
<1>9. WriteParts(st, between, known) = f[N]
  BY DEF WriteParts, N
<1> HIDE DEF f
<1>10. \A n \in 0..N : f[n] = IF n = 0 THEN st ELSE WriteData(f[n - 1], between[n], TRUE, known)
  BY <1>8
<1>11. DOMAIN f = 0..N /\ f = [n \in 0..N |-> f[n]]
  BY <1>8
<1> DEFINE S == {n \in 0..N : f[n] \in X}
<1>12. 0 \in S /\ f[0] = st
  <2>1. 0 \in 0..N
    BY <1>1
  <2>2. f[0] = st
    BY <1>10, <2>1
  <2>3. QED
    BY <1>2, <2>1, <2>2
<1>13. \A n \in 1..N : f[n] = WriteData(f[n - 1], between[n], TRUE, known)
  <2>1. \A n \in 1..N : n \in 0..N /\ n # 0
    BY <1>1
  <2>2. QED
    BY <1>10, <2>1
<1>14. ASSUME NEW n \in 0..N, n \in S, n < N PROVE n + 1 \in S
  <2>1. n + 1 \in 1..N /\ n + 1 \in 0..N /\ (n + 1) - 1 = n
    BY <1>1, <1>14
  <2>2. f[n + 1] = WriteData(f[n], between[n + 1], TRUE, known)
    BY <1>13, <2>1
  <2>3. f[n + 1] \in X
    BY <1>3, <1>14, <2>1, <2>2
  <2>4. QED
    BY <2>1, <2>3
<1> HIDE DEF S
<1>15. \A n \in 0..N : n \in S
  BY <1>1, <1>12, <1>14, UpTo
<1>16. \A n \in 0..N : f[n] \in ParserStates /\ KeepsToItself(f[n], files0, own, known)
  BY <1>15 DEF S, X
<1>17. f \in [0..N -> ParserStates]
  BY <1>11, <1>16
<1>18. QED
  BY <1>9, <1>12, <1>13, <1>16, <1>17 DEF N

\* A member that is not above any other is the smallest one.
LEMMA MinIs ==
    ASSUME NEW S \in SUBSET Nat, NEW x \in S, \A y \in S : x <= y
    PROVE  Min(S) = x
<1>1. Min(S) \in S /\ \A y \in S : Min(S) <= y
  BY MinOfNaturals
<1>2. Min(S) <= x /\ x <= Min(S) /\ Min(S) \in Nat /\ x \in Nat
  BY <1>1
<1>3. QED
  BY <1>2

\* A chunk without a boundary is not split, and one with boundaries between them.
LEMMA NothingToSplit ==
    ASSUME NEW c, {i \in DOMAIN c : HasBoundaryAt(c, i)} = {}
    PROVE  SplitChunk(c) = <<>>
<1>1. Cardinality({i \in DOMAIN c : HasBoundaryAt(c, i)}) = 0
  BY FS_EmptySet
<1>2. QED
  BY <1>1 DEF SplitChunk

SplitAt(c, n, b) ==
    [k \in 1..(n + 1) |-> SubSeq(c, IF k = 1 THEN 1 ELSE b[k - 1] + 2,
                                    IF k = n + 1 THEN Len(c) ELSE b[k] - 1)]

\* A chunk whose boundaries are at b[1] < b[2] < ... is split there.
LEMMA SplitShape ==
    ASSUME NEW c, NEW n \in Nat \ {0}, NEW b \in [1..n -> Nat],
           \A r \in 1..n : \A s \in 1..n : r < s => b[r] < b[s],
           {i \in DOMAIN c : HasBoundaryAt(c, i)} = {b[r] : r \in 1..n}
    PROVE  SplitChunk(c) = SplitAt(c, n, b)
<1> DEFINE boundaries == {i \in DOMAIN c : HasBoundaryAt(c, i)}
<1>1. boundaries \in SUBSET Nat /\ \A r \in 1..n : b[r] \in boundaries
  OBVIOUS
<1>2. \A i \in boundaries : \E r \in 1..n : i = b[r]
  OBVIOUS
<1>3. Cardinality(boundaries) = n
  <2>1. IsFiniteSet(1..n) /\ Cardinality(1..n) = n
    BY FS_Interval
  <2>2. b \in [1..n -> boundaries]
    BY <1>1
  <2>3. \A r, s \in 1..n : r # s => b[r] # b[s]
    <3>1. \A r, s \in 1..n : r # s => r < s \/ s < r
      OBVIOUS
    <3>2. QED
      BY <3>1
  <2> HIDE DEF boundaries
  <2>4. b \in Bijection(1..n, boundaries)
    BY <1>2, <2>2, <2>3 DEF Bijection, Injection, Surjection, IsInjective
  <2>5. ExistsBijection(1..n, boundaries)
    BY <2>4 DEF ExistsBijection
  <2>6. QED
    BY <2>1, <2>5, FS_Bijection
<1>4. ASSUME NEW k \in 1..n
      PROVE  b[k] = Min(IF k = 1 THEN boundaries ELSE {i \in boundaries : i > b[k - 1]})
  <2> HIDE DEF boundaries
  <2>1. CASE k = 1
    <3>1. \A y \in boundaries : b[1] <= y
      <4>1. ASSUME NEW y \in boundaries PROVE b[1] <= y
        <5>1. PICK r \in 1..n : y = b[r]
          BY <1>2
        <5>2. r = 1 \/ 1 < r
          OBVIOUS
        <5>3. b[1] \in Nat /\ b[r] \in Nat
          BY <2>1
        <5>4. QED
          BY <2>1, <5>1, <5>2, <5>3
      <4>2. QED
        BY <4>1
    <3>2. Min(boundaries) = b[1]
      BY <1>1, <2>1, <3>1, MinIs
    <3>3. QED
      BY <2>1, <3>2
  <2>2. CASE k # 1
    <3> DEFINE later == {i \in boundaries : i > b[k - 1]}
    <3>1. k - 1 \in 1..n /\ k - 1 < k
      BY <2>2
    <3>2. b[k] \in later
      <4>1. b[k - 1] < b[k] /\ b[k] \in boundaries /\ b[k] \in Nat /\ b[k - 1] \in Nat
        BY <1>1, <3>1
      <4>2. QED
        BY <4>1
    <3>3. ASSUME NEW y \in later PROVE b[k] <= y
      <4>1. PICK r \in 1..n : y = b[r]
        BY <1>2
      <4>2. b[r] \in Nat /\ b[k - 1] \in Nat /\ b[r] > b[k - 1] /\ b[k] \in Nat
        BY <3>1, <4>1
      <4>3. ~(r < k - 1) /\ r # k - 1
        BY <3>1, <4>2
      <4>4. r = k \/ k < r
        BY <4>3
      <4>5. QED
        BY <4>1, <4>2, <4>4
    <3>4. later \in SUBSET Nat
      BY <1>1
    <3> HIDE DEF later
    <3>5. Min(later) = b[k]
      BY <3>2, <3>3, <3>4, MinIs
    <3>6. QED
      BY <2>2, <3>5 DEF later
  <2>3. QED
    BY <2>1, <2>2
<1> DEFINE count == Cardinality(boundaries)
           Is(f) == f = [k \in 1..count |->
                           Min(IF k = 1 THEN boundaries ELSE {i \in boundaries : i > f[k - 1]})]
<1>5. Is(b)
  <2> DEFINE h == [k \in 1..count |->
                     Min(IF k = 1 THEN boundaries ELSE {i \in boundaries : i > b[k - 1]})]
  <2> HIDE DEF boundaries
  <2>1. \A k \in 1..n : b[k] = h[k]
    BY <1>3, <1>4
  <2>2. b = [k \in 1..n |-> b[k]] /\ h = [k \in 1..n |-> h[k]]
    BY <1>3
  <2> HIDE DEF h
  <2>3. b = h
    BY <2>1, <2>2
  <2>4. QED
    BY <2>3 DEF h
<1> DEFINE at == CHOOSE e : Is(e)
<1>6. Is(at)
  <2> HIDE DEF Is
  <2>1. QED
    BY <1>5
<1>7. SplitChunk(c) = IF count = 0 THEN <<>>
                      ELSE [k \in 1..(count + 1) |->
                              SubSeq(c, IF k = 1 THEN 1 ELSE at[k - 1] + 2,
                                        IF k = count + 1 THEN Len(c) ELSE at[k] - 1)]
  BY DEF SplitChunk
<1> HIDE DEF at
<1>8. \A k \in 1..n : at[k] = Min(IF k = 1 THEN boundaries ELSE {i \in boundaries : i > at[k - 1]})
  <2> HIDE DEF boundaries
  <2>1. QED
    BY <1>3, <1>6
<1> HIDE DEF boundaries
<1> DEFINE S == {k \in 0..(n - 1) : at[k + 1] = b[k + 1]}
<1>9. 0 \in S
  <2>1. 1 \in 1..n /\ 0 \in 0..(n - 1) /\ 0 + 1 = 1
    OBVIOUS
  <2>2. at[1] = b[1]
    BY <1>4, <1>8, <2>1
  <2>3. QED
    BY <2>1, <2>2
<1>10. ASSUME NEW k \in 0..(n - 1), k \in S, k < n - 1 PROVE k + 1 \in S
  <2>1. k + 2 \in 1..n /\ k + 2 # 1 /\ (k + 2) - 1 = k + 1 /\ (k + 1) + 1 = k + 2 /\ k + 1 \in 0..(n - 1)
    BY <1>10
  <2>2. at[k + 1] = b[k + 1]
    BY <1>10
  <2>3. at[k + 2] = Min({i \in boundaries : i > at[k + 1]})
    BY <1>8, <2>1
  <2>4. b[k + 2] = Min({i \in boundaries : i > b[k + 1]})
    BY <1>4, <2>1
  <2>5. at[(k + 1) + 1] = b[(k + 1) + 1]
    BY <2>1, <2>2, <2>3, <2>4
  <2>6. QED
    BY <2>1, <2>5
<1> HIDE DEF S
<1>11. \A k \in 0..(n - 1) : k \in S
  <2>1. n - 1 \in Nat
    OBVIOUS
  <2>2. QED
    BY <1>9, <1>10, <2>1, UpTo
<1>12. ASSUME NEW k \in 1..n PROVE at[k] = b[k]
  <2>1. k - 1 \in 0..(n - 1) /\ (k - 1) + 1 = k
    OBVIOUS
  <2>2. at[(k - 1) + 1] = b[(k - 1) + 1]
    BY <1>11, <2>1 DEF S
  <2>3. QED
    BY <2>1, <2>2
<1>13. ASSUME NEW k \in 1..(n + 1)
       PROVE  /\ (IF k = 1 THEN 1 ELSE at[k - 1] + 2) = (IF k = 1 THEN 1 ELSE b[k - 1] + 2)
              /\ (IF k = n + 1 THEN Len(c) ELSE at[k] - 1) = (IF k = n + 1 THEN Len(c) ELSE b[k] - 1)
  <2>1. k # 1 => k - 1 \in 1..n
    OBVIOUS
  <2>2. k # n + 1 => k \in 1..n
    OBVIOUS
  <2>3. QED
    BY <1>12, <2>1, <2>2
<1> HIDE DEF count
<1>14. SplitChunk(c) = [k \in 1..(n + 1) |->
                          SubSeq(c, IF k = 1 THEN 1 ELSE at[k - 1] + 2,
                                    IF k = n + 1 THEN Len(c) ELSE at[k] - 1)]
  <2>1. count = n /\ count # 0
    BY <1>3 DEF count
  <2>2. QED
    BY <1>7, <2>1
<1>15. QED
  BY <1>13, <1>14 DEF SplitAt

\* OnData, whatever is split: it keeps to itself.
LEMMA OnDataKeeps ==
    ASSUME NEW st \in ParserStates, NEW c \in Seq(Token), NEW known, clock \in Nat,
           NEW files0, NEW own, own \subseteq DOMAIN files0,
           KeepsToItself(st, files0, own, known),
           SplitChunk(c) = <<>> \/ (SplitChunk(c) \in Seq(Seq(Token)) /\ Len(SplitChunk(c)) > 1)
    PROVE  /\ OnData(st, c, known) \in ParserStates
           /\ KeepsToItself(OnData(st, c, known), files0, own, known)
<1>1. CASE SplitChunk(c) = <<>>
  <2>1. OnData(st, c, known) = WriteData(st, c, FALSE, known)
    BY <1>1 DEF OnData
  <2>2. QED
    BY <2>1, WriteDataKeeps
<1>2. CASE SplitChunk(c) \in Seq(Seq(Token)) /\ Len(SplitChunk(c)) > 1
  <2> DEFINE splits == SplitChunk(c)
             first == HandleFirst(st, Head(splits), known)
             st1 == [first EXCEPT !.analyze = <<>>]
             rest == Last(splits)
             st2 == IF Blank(rest) THEN st1 ELSE WriteData(st1, rest, FALSE, known)
             between == SubSeq(splits, 2, Len(splits) - 1)
  <2>1. splits # <<>>
    BY <1>2, EmptySeq
  <2>2. OnData(st, c, known) = WriteParts(st2, between, known)
    BY <2>1 DEF OnData
  <2> HIDE DEF splits
  <2>3. Head(splits) \in Seq(Token)
    BY <1>2, <2>1, HeadTailProperties DEF splits
  <2>4. rest \in Seq(Token)
    BY <1>2, <2>1, LastAndFront DEF splits
  <2>5. between \in Seq(Seq(Token))
    <3>1. Len(splits) \in Nat /\ Len(splits) > 1
      BY <1>2 DEF splits
    <3>2. Len(splits) - 1 \in Nat /\ Len(splits) - 1 <= Len(splits)
      BY <3>1
    <3>3. QED
      BY <1>2, <3>2, PieceOf DEF splits
  <2>6. first \in ParserStates /\ KeepsToItself(first, files0, own, known)
    BY <2>3, HandleFirstKeeps
  <2> HIDE DEF first, rest, between
  <2>7. st1 \in ParserStates /\ KeepsToItself(st1, files0, own, known)
    BY <2>6, EmptySeq, WaitingFields, WaitingKeeps
  <2> HIDE DEF st1
  <2>8. st2 \in ParserStates /\ KeepsToItself(st2, files0, own, known)
    BY <2>4, <2>7, WriteDataKeeps
  <2> HIDE DEF st2
  <2>9. PICK written \in [0..Len(between) -> ParserStates] :
          /\ WriteParts(st2, between, known) = written[Len(between)]
          /\ \A n \in 0..Len(between) : KeepsToItself(written[n], files0, own, known)
    BY <2>5, <2>8, PartsWritten
  <2>10. Len(between) \in 0..Len(between)
    BY <2>5
  <2>11. QED
    BY <2>2, <2>9, <2>10
<1>3. QED
  BY <1>1, <1>2

\* Where the parts of a body begin: the tokens before each of them, and before the end.
Shape(u, start) ==
    LET N == Len(Sizes[u])
        body == Body(u)
    IN  /\ start \in [1..(N + 1) -> Nat] /\ start[1] = 3
        /\ body \in Seq(Token) /\ Len(body) = start[N + 1] + 1
        /\ body[1] = Tok("dash", 0) /\ body[2] = Tok("b1", 0) /\ body[3] = Tok("b2", 0)
        /\ \A q \in 1..N :
              /\ start[q + 1] = start[q] + 5 + Sizes[u][q]
              /\ body[start[q] + 1] = Tok("h1", q) /\ body[start[q] + 2] = Tok("h2", q)
              /\ \A j \in 1..Sizes[u][q] : body[start[q] + 2 + j] = Datum(u, q, j)
              /\ body[start[q + 1] - 2] = Tok("dash", 0)
              /\ body[start[q + 1] - 1] = Tok("b1", 0) /\ body[start[q + 1]] = Tok("b2", 0)
        /\ body[start[N + 1] + 1] = Tok("end", 0)

\* An upload has so many parts of so many pieces of data.
LEMMA SizesAre ==
    ASSUME NEW u \in Upload
    PROVE  /\ Len(Sizes[u]) \in Nat /\ \A q \in 1..Len(Sizes[u]) : Sizes[u][q] \in Nat
BY PartsAssumption, LenProperties

\* What a token is made of.
LEMMA TokIs ==
    ASSUME NEW k \in TokenKind, NEW p \in Nat
    PROVE  Tok(k, p) \in Token /\ Tok(k, p).kind = k /\ Tok(k, p).part = p
BY DEF Tok, Token

\* A piece of data, which may be white space.
LEMMA DatumIs ==
    ASSUME NEW u, NEW q \in Nat, NEW j
    PROVE  /\ Datum(u, q, j) \in Token /\ Datum(u, q, j).kind \in {"data", "space"}
           /\ Datum(u, q, j).part = q
BY TokIs DEF Datum, TokenKind

\* The line break and the two halves of a boundary.
LEMMA SeparatorIs ==
    /\ Separator \in Seq(Token) /\ Len(Separator) = 3
    /\ Separator[1] = Tok("dash", 0) /\ Separator[2] = Tok("b1", 0) /\ Separator[3] = Tok("b2", 0)
<1>1. /\ Tok("dash", 0) \in Token /\ Tok("b1", 0) \in Token /\ Tok("b2", 0) \in Token
  BY TokIs DEF TokenKind
<1>2. Separator = <<Tok("dash", 0)>> \o <<Tok("b1", 0), Tok("b2", 0)>>
  BY DEF Separator, Boundary
<1>3. QED
  BY <1>1, <1>2

\* A part with the boundary that ends it.
Block(u, q) == PartOf(u, q) \o Separator

\* What a part and its boundary are made of.
LEMMA BlockIs ==
    ASSUME NEW u \in Upload, NEW q \in 1..Len(Sizes[u])
    PROVE  LET n == Sizes[u][q]
               b == Block(u, q)
           IN  /\ b \in Seq(Token) /\ Len(b) = 5 + n
               /\ b[1] = Tok("h1", q) /\ b[2] = Tok("h2", q)
               /\ \A j \in 1..n : b[2 + j] = Datum(u, q, j)
               /\ b[n + 3] = Tok("dash", 0) /\ b[n + 4] = Tok("b1", 0) /\ b[n + 5] = Tok("b2", 0)
<1> DEFINE n == Sizes[u][q]
           data == [i \in 1..n |-> Datum(u, q, i)]
           head == <<Tok("h1", q), Tok("h2", q)>>
           part == head \o data
<1>1. n \in Nat /\ q \in Nat
  BY SizesAre
<1>2. /\ Tok("h1", q) \in Token /\ Tok("h2", q) \in Token
      /\ \A i \in 1..n : Datum(u, q, i) \in Token
  BY <1>1, TokIs, DatumIs DEF TokenKind
<1> HIDE DEF n
<1>3. data \in Seq(Token) /\ Len(data) = n /\ \A i \in 1..n : data[i] = Datum(u, q, i)
  BY <1>1, <1>2
<1>4. head \in Seq(Token) /\ Len(head) = 2 /\ head[1] = Tok("h1", q) /\ head[2] = Tok("h2", q)
  BY <1>2
<1> HIDE DEF data, head
<1>5. /\ part \in Seq(Token) /\ Len(part) = 2 + n
      /\ \A i \in 1..(2 + n) : part[i] = IF i <= 2 THEN head[i] ELSE data[i - 2]
  <2>1. /\ part \in Seq(Token) /\ Len(part) = Len(head) + Len(data)
        /\ \A i \in 1..(Len(head) + Len(data)) :
              part[i] = IF i <= Len(head) THEN head[i] ELSE data[i - Len(head)]
    BY <1>3, <1>4, ConcatProperties
  <2> HIDE DEF part
  <2>2. QED
    BY <1>1, <1>3, <1>4, <2>1
<1>6. Block(u, q) = part \o Separator
  BY DEF Block, PartOf, part, head, data, n
<1> HIDE DEF part
<1> DEFINE b == part \o Separator
<1>7. /\ b \in Seq(Token) /\ Len(b) = 5 + n
      /\ \A i \in 1..(2 + n + 3) : b[i] = IF i <= 2 + n THEN part[i] ELSE Separator[i - (2 + n)]
  <2>1. 2 + n + 3 = 5 + n
    BY <1>1
  <2>2. /\ b \in Seq(Token) /\ Len(b) = Len(part) + Len(Separator)
        /\ \A i \in 1..(Len(part) + Len(Separator)) :
              b[i] = IF i <= Len(part) THEN part[i] ELSE Separator[i - Len(part)]
    BY <1>5, SeparatorIs, ConcatProperties
  <2> HIDE DEF b
  <2>3. QED
    BY <1>1, <1>5, <2>1, <2>2, SeparatorIs
<1> HIDE DEF b
<1>8. b[1] = Tok("h1", q) /\ b[2] = Tok("h2", q)
  BY <1>1, <1>4, <1>5, <1>7
<1>9. ASSUME NEW j \in 1..n PROVE b[2 + j] = Datum(u, q, j)
  <2>1. 2 + j \in 1..(2 + n) /\ 2 + j \in 1..(2 + n + 3) /\ ~(2 + j <= 2) /\ (2 + j) - 2 = j
    BY <1>1
  <2>2. QED
    BY <1>3, <1>5, <1>7, <2>1
<1>10. ASSUME NEW k \in 1..3 PROVE b[n + 2 + k] = Separator[k]
  <2> DEFINE i == n + 2 + k
  <2>1. i \in 1..(2 + n + 3) /\ ~(i <= 2 + n) /\ i - (2 + n) = k
    BY <1>1
  <2> HIDE DEF i
  <2>2. b[i] = Separator[k]
    BY <1>7, <2>1
  <2>3. QED
    BY <2>2 DEF i
<1>11. b[n + 3] = Tok("dash", 0) /\ b[n + 4] = Tok("b1", 0) /\ b[n + 5] = Tok("b2", 0)
  <2>1. n + 2 + 1 = n + 3 /\ n + 2 + 2 = n + 4 /\ n + 2 + 3 = n + 5
    BY <1>1
  <2>2. 1 \in 1..3 /\ 2 \in 1..3 /\ 3 \in 1..3
    OBVIOUS
  <2>3. b[n + 3] = Separator[1] /\ b[n + 4] = Separator[2] /\ b[n + 5] = Separator[3]
    BY <1>10, <2>1, <2>2
  <2>4. QED
    BY <2>3, SeparatorIs
<1>12. QED
  BY <1>6, <1>7, <1>8, <1>9, <1>11 DEF b, n

\* The body is built part by part.
LEMMA BodySoFar ==
    ASSUME NEW u \in Upload
    PROVE  \E f \in [0..Len(Sizes[u]) -> Seq(Token)] :
             /\ Body(u) = f[Len(Sizes[u])] \o <<Tok("end", 0)>>
             /\ f[0] = Separator
             /\ \A q \in 1..Len(Sizes[u]) : f[q] = f[q - 1] \o Block(u, q)
<1> DEFINE N == Len(Sizes[u])
           X == Seq(Token)
           F == [v \in X \X (1..N) |-> v[1] \o PartOf(u, v[2]) \o Separator]
           Is(f) == f = [p \in 0..N |-> IF p = 0 THEN Separator
                                        ELSE f[p - 1] \o PartOf(u, p) \o Separator]
<1>1. N \in Nat /\ Separator \in X
  BY SizesAre, SeparatorIs
<1>2. ASSUME NEW q \in 1..N, NEW s \in X
      PROVE  s \o PartOf(u, q) \o Separator = s \o Block(u, q) /\ s \o Block(u, q) \in X
  <2>1. PartOf(u, q) \in Seq(Token)
    <3>1. Sizes[u][q] \in Nat /\ q \in Nat
      BY SizesAre
    <3>2. /\ Tok("h1", q) \in Token /\ Tok("h2", q) \in Token
          /\ \A i \in 1..Sizes[u][q] : Datum(u, q, i) \in Token
      BY <3>1, TokIs, DatumIs DEF TokenKind
    <3>3. [i \in 1..Sizes[u][q] |-> Datum(u, q, i)] \in Seq(Token)
      BY <3>1, <3>2
    <3>4. <<Tok("h1", q), Tok("h2", q)>> \in Seq(Token)
      BY <3>2
    <3>5. QED
      BY <3>3, <3>4, ConcatProperties DEF PartOf
  <2>2. s \in Seq(Token) /\ Separator \in Seq(Token)
    BY <1>1
  <2>3. s \o PartOf(u, q) \o Separator = s \o Block(u, q)
    <3> DEFINE p == PartOf(u, q)
    <3>1. p \in Seq(Token)
      BY <2>1
    <3> HIDE DEF p
    <3>2. s \o p \o Separator = s \o (p \o Separator)
      BY <2>2, <3>1, ConcatAssociative
    <3>3. QED
      BY <3>2 DEF p, Block
  <2>4. Block(u, q) \in Seq(Token)
    BY <2>1, <2>2, ConcatProperties DEF Block
  <2> DEFINE c == Block(u, q)
  <2> HIDE DEF c
  <2>5. s \o c \in Seq(Token)
    BY <2>2, <2>4, ConcatProperties DEF c
  <2>6. QED
    BY <2>3, <2>5 DEF c
<1> HIDE DEF N, X
<1>3. ASSUME NEW q \in 1..N, NEW s \in X PROVE s \o PartOf(u, q) \o Separator \in X
  BY <1>2
<1>4. /\ F \in [X \X (1..N) -> X]
      /\ \A e \in X : \A n \in 1..N : F[<<e, n>>] = e \o PartOf(u, n) \o Separator
  <2>1. ASSUME NEW v \in X \X (1..N) PROVE v[1] \o PartOf(u, v[2]) \o Separator \in X
    <3>1. v[1] \in X /\ v[2] \in 1..N
      OBVIOUS
    <3>2. QED
      BY <1>3, <3>1
  <2>2. QED
    BY <2>1
<1> HIDE DEF F
<1>5. PICK g : Recursive(g, N, X, Separator, F)
  BY <1>1, <1>4, Recursion
<1>6. g \in [0..N -> X] /\ g[0] = Separator /\ \A n \in 1..N : g[n] = F[<<g[n - 1], n>>]
  BY <1>5 DEF Recursive
<1>7. Is(g)
  <2> DEFINE h == [p \in 0..N |-> IF p = 0 THEN Separator
                                  ELSE g[p - 1] \o PartOf(u, p) \o Separator]
  <2>1. \A n \in 0..N : n # 0 => n - 1 \in 0..N /\ n \in 1..N
    BY <1>1
  <2>2. \A n \in 0..N : n # 0 => g[n] = g[n - 1] \o PartOf(u, n) \o Separator
    BY <1>4, <1>6, <2>1
  <2>3. \A n \in 0..N : g[n] = h[n]
    BY <1>6, <2>2
  <2>4. g = [n \in 0..N |-> g[n]] /\ h = [n \in 0..N |-> h[n]]
    BY <1>6
  <2> HIDE DEF h
  <2>5. g = h
    BY <2>3, <2>4
  <2>6. QED
    BY <2>5 DEF h
<1> DEFINE f == CHOOSE e : Is(e)
<1>8. Is(f)
  <2> HIDE DEF Is
  <2>1. QED
    BY <1>7
<1>9. Body(u) = f[N] \o <<Tok("end", 0)>>
  BY DEF Body, N
<1> HIDE DEF f
<1>10. \A p \in 0..N : f[p] = IF p = 0 THEN Separator ELSE f[p - 1] \o PartOf(u, p) \o Separator
  BY <1>8
<1>11. DOMAIN f = 0..N /\ f = [p \in 0..N |-> f[p]]
  BY <1>8
<1> DEFINE S == {n \in 0..N : f[n] \in X}
<1>12. 0 \in S /\ f[0] = Separator
  <2>1. 0 \in 0..N
    BY <1>1
  <2>2. f[0] = Separator
    BY <1>10, <2>1
  <2>3. QED
    BY <1>1, <2>1, <2>2
<1>13. ASSUME NEW n \in 0..N, n \in S, n < N PROVE n + 1 \in S
  <2>1. n + 1 \in 1..N /\ n + 1 \in 0..N /\ n + 1 # 0 /\ (n + 1) - 1 = n
    BY <1>1, <1>13
  <2>2. f[n + 1] = f[n] \o PartOf(u, n + 1) \o Separator
    BY <1>10, <2>1
  <2>3. f[n + 1] \in X
    BY <1>3, <1>13, <2>1, <2>2
  <2>4. QED
    BY <2>1, <2>3
<1> HIDE DEF S
<1>14. \A n \in 0..N : n \in S
  BY <1>1, <1>12, <1>13, UpTo
<1>15. f \in [0..N -> X]
  BY <1>11, <1>14 DEF S
<1>16. ASSUME NEW q \in 1..N PROVE f[q] = f[q - 1] \o Block(u, q)
  <2>1. q \in 0..N /\ q # 0 /\ q - 1 \in 0..N
    BY <1>1
  <2>2. f[q] = f[q - 1] \o PartOf(u, q) \o Separator
    BY <1>10, <2>1
  <2>3. QED
    BY <1>2, <1>15, <2>1, <2>2
<1>17. QED
  BY <1>9, <1>12, <1>15, <1>16 DEF N, X

Start(u) == CHOOSE start : Shape(u, start)

\* A body has its parts where the sizes of those in front put them.
LEMMA ShapeExists ==
    ASSUME NEW u \in Upload PROVE \E start : Shape(u, start)
<1> DEFINE N == Len(Sizes[u])
           z == Sizes[u]
           end == <<Tok("end", 0)>>
<1>1. N \in Nat /\ \A q \in 1..N : z[q] \in Nat
  BY SizesAre
<1>2. PICK f \in [0..N -> Seq(Token)] :
        /\ Body(u) = f[N] \o end
        /\ f[0] = Separator
        /\ \A q \in 1..N : f[q] = f[q - 1] \o Block(u, q)
  BY BodySoFar
<1>3. end \in Seq(Token) /\ Len(end) = 1 /\ end[1] = Tok("end", 0)
  <2>1. Tok("end", 0) \in Token
    BY TokIs DEF TokenKind
  <2>2. QED
    BY <2>1
<1>4. \A q \in 1..N : /\ Block(u, q) \in Seq(Token) /\ Len(Block(u, q)) = 5 + z[q]
                      /\ Block(u, q)[1] = Tok("h1", q) /\ Block(u, q)[2] = Tok("h2", q)
                      /\ \A j \in 1..z[q] : Block(u, q)[2 + j] = Datum(u, q, j)
                      /\ Block(u, q)[z[q] + 3] = Tok("dash", 0)
                      /\ Block(u, q)[z[q] + 4] = Tok("b1", 0)
                      /\ Block(u, q)[z[q] + 5] = Tok("b2", 0)
  BY BlockIs
<1> HIDE DEF N, z, end
<1>5. \A q \in 0..N : f[q] \in Seq(Token) /\ Len(f[q]) \in Nat
  BY <1>2
<1>6. ASSUME NEW q \in 1..N
      PROVE  /\ Len(f[q]) = Len(f[q - 1]) + 5 + z[q] /\ q - 1 \in 0..N /\ q \in 0..N
             /\ \A i \in 1..Len(f[q]) :
                   f[q][i] = IF i <= Len(f[q - 1]) THEN f[q - 1][i]
                             ELSE Block(u, q)[i - Len(f[q - 1])]
  <2>1. q - 1 \in 0..N /\ q \in 0..N
    BY <1>1
  <2>2. f[q - 1] \in Seq(Token) /\ Block(u, q) \in Seq(Token) /\ f[q] = f[q - 1] \o Block(u, q)
    BY <1>2, <1>4, <1>5, <2>1
  <2>3. /\ Len(f[q]) = Len(f[q - 1]) + Len(Block(u, q))
        /\ \A i \in 1..(Len(f[q - 1]) + Len(Block(u, q))) :
              f[q][i] = IF i <= Len(f[q - 1]) THEN f[q - 1][i]
                        ELSE Block(u, q)[i - Len(f[q - 1])]
    BY <2>2, ConcatProperties
  <2>4. Len(f[q - 1]) \in Nat /\ z[q] \in Nat
    BY <1>1, <1>5, <2>1
  <2>5. Len(f[q]) = Len(f[q - 1]) + 5 + z[q]
    <3> DEFINE a == Len(f[q])
               b == Len(f[q - 1])
               c == Len(Block(u, q))
               m == z[q]
    <3>1. a = b + c /\ c = 5 + m /\ b \in Nat /\ m \in Nat
      BY <1>4, <2>3, <2>4
    <3> HIDE DEF a, b, c, m
    <3>2. a = b + 5 + m
      BY <3>1
    <3>3. QED
      BY <3>2 DEF a, b, m
  <2>6. QED
    BY <2>1, <2>3, <2>5
<1>7. \A p \in 0..N : \A i \in 1..Len(f[p]) : f[N][i] = f[p][i] /\ i <= Len(f[N])
  <2> DEFINE S == {q \in 0..N : \A p \in 0..q : \A i \in 1..Len(f[p]) :
                                   f[q][i] = f[p][i] /\ i <= Len(f[q])}
  <2>1. 0 \in S
    <3>1. 0 \in 0..N /\ \A p \in 0..0 : p = 0
      BY <1>1
    <3>2. Len(f[0]) \in Nat
      BY <1>5, <3>1
    <3>3. QED
      BY <3>1, <3>2
  <2>2. ASSUME NEW q \in 0..N, q \in S, q < N PROVE q + 1 \in S
    <3>1. q + 1 \in 1..N /\ (q + 1) - 1 = q /\ q + 1 \in 0..N
      BY <1>1, <2>2
    <3>2. /\ Len(f[q + 1]) = Len(f[q]) + 5 + z[q + 1]
          /\ \A i \in 1..Len(f[q + 1]) :
                f[q + 1][i] = IF i <= Len(f[q]) THEN f[q][i] ELSE Block(u, q + 1)[i - Len(f[q])]
      BY <1>6, <3>1
    <3>3. Len(f[q]) \in Nat /\ Len(f[q + 1]) \in Nat /\ z[q + 1] \in Nat
      BY <1>1, <1>5, <2>2, <3>1
    <3>4. ASSUME NEW p \in 0..(q + 1), NEW i \in 1..Len(f[p])
          PROVE  f[q + 1][i] = f[p][i] /\ i <= Len(f[q + 1])
      <4>1. CASE p = q + 1
        BY <3>3, <4>1
      <4>2. CASE p # q + 1
        <5>1. p \in 0..q
          BY <4>2
        <5>2. f[q][i] = f[p][i] /\ i <= Len(f[q])
          BY <2>2, <5>1
        <5>3. i \in Nat /\ i >= 1
          BY <1>1, <1>5, <5>1
        <5>4. i \in 1..Len(f[q + 1])
          BY <3>2, <3>3, <5>2, <5>3
        <5>5. QED
          BY <3>2, <5>2, <5>4
      <4>3. QED
        BY <4>1, <4>2
    <3>5. QED
      BY <3>1, <3>4
  <2> HIDE DEF S
  <2>3. N \in S
    <3>1. \A q \in 0..N : q \in S
      BY <1>1, <2>1, <2>2, UpTo
    <3>2. QED
      BY <1>1, <3>1
  <2>4. QED
    BY <2>3 DEF S
<1>8. /\ Body(u) \in Seq(Token) /\ Len(Body(u)) = Len(f[N]) + 1
      /\ \A i \in 1..Len(f[N]) : Body(u)[i] = f[N][i]
      /\ Body(u)[Len(f[N]) + 1] = Tok("end", 0)
  <2>1. f[N] \in Seq(Token) /\ Len(f[N]) \in Nat
    BY <1>1, <1>5
  <2>2. f[N] \o end \in Seq(Token) /\ Len(f[N] \o end) = Len(f[N]) + 1
    <3>1. f[N] \o end \in Seq(Token) /\ Len(f[N] \o end) = Len(f[N]) + Len(end)
      BY <1>3, <2>1, ConcatProperties
    <3>2. QED
      BY <1>3, <3>1
  <2>3. /\ \A i \in 1..(Len(f[N]) + Len(end)) :
              (f[N] \o end)[i] = IF i <= Len(f[N]) THEN f[N][i] ELSE end[i - Len(f[N])]
    BY <1>3, <2>1, ConcatProperties
  <2> DEFINE l == Len(f[N])
  <2>4. l \in Nat /\ Len(end) = 1
    BY <1>3, <2>1
  <2> HIDE DEF l
  <2>5. /\ \A i \in 1..l : i \in 1..(l + 1) /\ i <= l
        /\ l + 1 \in 1..(l + 1) /\ ~(l + 1 <= l) /\ (l + 1) - l = 1
    BY <2>4
  <2>6. \A i \in 1..(l + 1) : Body(u)[i] = IF i <= l THEN f[N][i] ELSE end[i - l]
    BY <1>2, <2>3, <2>4 DEF l
  <2>7. (\A i \in 1..l : Body(u)[i] = f[N][i]) /\ Body(u)[l + 1] = end[1]
    BY <2>5, <2>6
  <2>8. QED
    BY <1>2, <1>3, <2>2, <2>7 DEF l
<1>9. ASSUME NEW p \in 0..N, NEW i \in 1..Len(f[p]) PROVE Body(u)[i] = f[p][i]
  <2>1. f[N][i] = f[p][i] /\ i <= Len(f[N]) /\ Len(f[p]) \in Nat /\ Len(f[N]) \in Nat
    BY <1>1, <1>5, <1>7
  <2>2. i \in 1..Len(f[N])
    BY <2>1
  <2>3. QED
    BY <1>8, <2>1, <2>2
<1> DEFINE start == [q \in 1..(N + 1) |-> Len(f[q - 1])]
<1>10. start \in [1..(N + 1) -> Nat]
  <2>1. \A q \in 1..(N + 1) : q - 1 \in 0..N
    BY <1>1
  <2>2. QED
    BY <1>5, <2>1
<1>11. /\ start[1] = 3 /\ start[N + 1] = Len(f[N])
       /\ Body(u)[1] = Tok("dash", 0) /\ Body(u)[2] = Tok("b1", 0) /\ Body(u)[3] = Tok("b2", 0)
  <2>1. 1 \in 1..(N + 1) /\ 1 - 1 = 0 /\ N + 1 \in 1..(N + 1) /\ (N + 1) - 1 = N /\ 0 \in 0..N
    BY <1>1
  <2>2. Len(f[0]) = 3
    BY <1>2, SeparatorIs
  <2>3. start[1] = 3 /\ start[N + 1] = Len(f[N])
    BY <2>1, <2>2
  <2>4. 1 \in 1..Len(f[0]) /\ 2 \in 1..Len(f[0]) /\ 3 \in 1..Len(f[0])
    BY <2>2
  <2>5. Body(u)[1] = Separator[1] /\ Body(u)[2] = Separator[2] /\ Body(u)[3] = Separator[3]
    BY <1>2, <1>9, <2>1, <2>4
  <2>6. QED
    BY <2>3, <2>5, SeparatorIs
<1>12. ASSUME NEW q \in 1..N
       PROVE  /\ start[q + 1] = start[q] + 5 + z[q]
              /\ \A k \in 1..(5 + z[q]) : Body(u)[start[q] + k] = Block(u, q)[k]
  <2>1. q + 1 \in 1..(N + 1) /\ (q + 1) - 1 = q /\ q \in 1..(N + 1) /\ q \in 0..N
    BY <1>1
  <2>2. start[q + 1] = Len(f[q]) /\ start[q] = Len(f[q - 1]) /\ start[q] \in Nat
    BY <1>10, <2>1
  <2> HIDE DEF start
  <2>3. ASSUME NEW k \in 1..(5 + z[q]) PROVE Body(u)[start[q] + k] = Block(u, q)[k]
    <3> DEFINE i == start[q] + k
    <3>1. i \in 1..Len(f[q]) /\ ~(i <= Len(f[q - 1])) /\ i - Len(f[q - 1]) = k
      <4> DEFINE a == Len(f[q])
                 b == Len(f[q - 1])
                 s == start[q]
                 m == z[q]
      <4>1. a = b + 5 + m /\ s = b /\ s \in Nat /\ m \in Nat /\ k \in 1..(5 + m)
        BY <1>1, <1>6, <2>2
      <4> HIDE DEF a, b, s, m
      <4>2. s + k \in 1..a /\ ~(s + k <= b) /\ s + k - b = k
        BY <4>1
      <4>3. i = s + k
        BY DEF i, s
      <4> HIDE DEF i
      <4>4. i \in 1..a /\ ~(i <= b) /\ i - b = k
        BY <4>1, <4>2, <4>3
      <4>5. QED
        BY <4>4 DEF a, b
    <3> HIDE DEF i
    <3>2. Body(u)[i] = f[q][i]
      BY <1>9, <2>1, <3>1
    <3>3. f[q][i] = Block(u, q)[k]
      BY <1>6, <3>1
    <3>4. QED
      BY <3>2, <3>3 DEF i
  <2>4. QED
    BY <1>6, <2>2, <2>3
<1>13. ASSUME NEW q \in 1..N
       PROVE  /\ start[q + 1] = start[q] + 5 + z[q]
              /\ Body(u)[start[q] + 1] = Tok("h1", q) /\ Body(u)[start[q] + 2] = Tok("h2", q)
              /\ \A j \in 1..z[q] : Body(u)[start[q] + 2 + j] = Datum(u, q, j)
              /\ Body(u)[start[q + 1] - 2] = Tok("dash", 0)
              /\ Body(u)[start[q + 1] - 1] = Tok("b1", 0) /\ Body(u)[start[q + 1]] = Tok("b2", 0)
  <2>1. q \in 1..(N + 1)
    BY <1>1
  <2>2. start[q] \in Nat /\ z[q] \in Nat
    BY <1>1, <1>10, <2>1
  <2>3. /\ start[q + 1] = start[q] + 5 + z[q]
        /\ \A k \in 1..(5 + z[q]) : Body(u)[start[q] + k] = Block(u, q)[k]
    BY <1>12
  <2> HIDE DEF start
  <2> DEFINE s == start[q]
             t == start[q + 1]
             m == z[q]
  <2> HIDE DEF s, t, m
  <2>0. s \in Nat /\ m \in Nat /\ t = s + 5 + m
    BY <2>2, <2>3 DEF s, t, m
  <2>4. 1 \in 1..(5 + m) /\ 2 \in 1..(5 + m)
    BY <2>0
  <2>5. Body(u)[s + 1] = Tok("h1", q) /\ Body(u)[s + 2] = Tok("h2", q)
    BY <1>4, <2>3, <2>4 DEF s, m
  <2>6. ASSUME NEW j \in 1..m PROVE Body(u)[s + 2 + j] = Datum(u, q, j)
    <3>1. 2 + j \in 1..(5 + m) /\ s + (2 + j) = s + 2 + j
      BY <2>0
    <3>2. Body(u)[s + (2 + j)] = Block(u, q)[2 + j]
      BY <2>3, <3>1 DEF s, m
    <3>3. QED
      BY <1>4, <3>1, <3>2 DEF m
  <2>7. /\ m + 3 \in 1..(5 + m) /\ m + 4 \in 1..(5 + m) /\ m + 5 \in 1..(5 + m)
        /\ s + (m + 3) = t - 2 /\ s + (m + 4) = t - 1 /\ s + (m + 5) = t
    BY <2>0
  <2>8. /\ Body(u)[s + (m + 3)] = Block(u, q)[m + 3] /\ Body(u)[s + (m + 4)] = Block(u, q)[m + 4]
        /\ Body(u)[s + (m + 5)] = Block(u, q)[m + 5]
    BY <2>3, <2>7 DEF s, m
  <2>9. /\ Body(u)[t - 2] = Tok("dash", 0)
        /\ Body(u)[t - 1] = Tok("b1", 0) /\ Body(u)[t] = Tok("b2", 0)
    BY <1>4, <2>7, <2>8 DEF m
  <2>10. QED
    BY <2>3, <2>5, <2>6, <2>9 DEF s, t, m
<1> HIDE DEF start
<1>14. Shape(u, start)
  BY <1>8, <1>10, <1>11, <1>13 DEF Shape, N, z
<1>15. QED
  BY <1>14

\* So they begin at the places Start names.
LEMMA BodyShape ==
    ASSUME NEW u \in Upload PROVE Shape(u, Start(u))
BY ShapeExists DEF Start

\* Parts follow each other.
LEMMA Starts ==
    ASSUME NEW u \in Upload
    PROVE  LET N == Len(Sizes[u])
           IN  /\ N \in Nat /\ Body(u) \in Seq(Token) /\ Len(Body(u)) \in Nat
               /\ \A q \in 1..(N + 1) : Start(u)[q] \in Nat /\ 3 <= Start(u)[q] /\ Start(u)[q] < Len(Body(u))
               /\ Start(u)[1] = 3 /\ Start(u)[N + 1] + 1 = Len(Body(u))
               /\ \A q \in 1..N : /\ Sizes[u][q] \in Nat /\ q \in 1..(N + 1) /\ q + 1 \in 1..(N + 1)
                                  /\ Start(u)[q + 1] = Start(u)[q] + 5 + Sizes[u][q]
               /\ \A q \in 1..(N + 1) : \A r \in 1..(N + 1) : q < r => Start(u)[q] + 5 <= Start(u)[r]
<1> DEFINE N == Len(Sizes[u])
           s == Start(u)
           z == Sizes[u]
           B == Body(u)
<1>1. N \in Nat /\ \A q \in 1..N : z[q] \in Nat
  BY SizesAre
<1>2. /\ s \in [1..(N + 1) -> Nat] /\ s[1] = 3 /\ B \in Seq(Token) /\ Len(B) = s[N + 1] + 1
      /\ \A q \in 1..N : s[q + 1] = s[q] + 5 + z[q]
  BY BodyShape DEF Shape
<1> HIDE DEF N, s, z, B
<1>3. \A q \in 1..(N + 1) : s[q] \in Nat
  BY <1>1, <1>2
<1>4. ASSUME NEW q \in 1..N
      PROVE  z[q] \in Nat /\ q \in 1..(N + 1) /\ q + 1 \in 1..(N + 1) /\ s[q + 1] = s[q] + 5 + z[q]
  BY <1>1, <1>2
<1> DEFINE S == {d \in 0..N : \A q \in 1..(N + 1) : d >= 1 /\ q + d <= N + 1 => s[q] + 5 <= s[q + d]}
<1>5. 0 \in S
  BY <1>1
<1>6. ASSUME NEW d \in 0..N, d \in S, d < N PROVE d + 1 \in S
  <2>1. ASSUME NEW q \in 1..(N + 1), q + (d + 1) <= N + 1 PROVE s[q] + 5 <= s[q + (d + 1)]
    <3> DEFINE p == q + d
    <3>1. p \in 1..N /\ p + 1 = q + (d + 1) /\ p \in 1..(N + 1)
      BY <1>1, <2>1
    <3>2. s[p + 1] = s[p] + 5 + z[p] /\ z[p] \in Nat /\ s[p] \in Nat /\ s[p + 1] \in Nat
      BY <1>3, <1>4, <3>1
    <3>3. CASE d = 0
      <4>1. p = q
        BY <3>3
      <4>2. QED
        BY <3>1, <3>2, <4>1
    <3>4. CASE d # 0
      <4>1. s[q] + 5 <= s[p]
        BY <1>6, <2>1, <3>1, <3>4
      <4>2. s[q] \in Nat
        BY <1>3
      <4> HIDE DEF p
      <4>3. s[q] + 5 <= s[p + 1]
        BY <3>2, <4>1, <4>2
      <4>4. QED
        BY <3>1, <4>3
    <3>5. QED
      BY <3>3, <3>4
  <2>2. d + 1 \in 0..N
    BY <1>1, <1>6
  <2>3. QED
    BY <2>1, <2>2
<1> HIDE DEF S
<1>7. \A d \in 0..N : d \in S
  BY <1>1, <1>5, <1>6, UpTo
<1>8. ASSUME NEW q \in 1..(N + 1), NEW r \in 1..(N + 1), q < r PROVE s[q] + 5 <= s[r]
  <2>1. r - q \in 0..N /\ r - q >= 1 /\ q + (r - q) = r /\ q + (r - q) <= N + 1
    BY <1>1, <1>8
  <2> DEFINE d == r - q
  <2> HIDE DEF d
  <2>2. d \in S
    BY <1>7, <2>1 DEF d
  <2>3. s[q] + 5 <= s[q + d]
    BY <2>1, <2>2 DEF d, S
  <2>4. QED
    BY <2>1, <2>3 DEF d
<1>9. ASSUME NEW q \in 1..(N + 1) PROVE 3 <= s[q] /\ s[q] < Len(B)
  <2>1. 1 \in 1..(N + 1) /\ N + 1 \in 1..(N + 1) /\ (q = 1 \/ 1 < q) /\ (q = N + 1 \/ q < N + 1)
    BY <1>1
  <2>2. s[q] \in Nat /\ s[N + 1] \in Nat
    BY <1>3, <2>1
  <2>3. s[q] = 3 \/ s[1] + 5 <= s[q]
    BY <1>2, <1>8, <2>1
  <2>4. s[q] = s[N + 1] \/ s[q] + 5 <= s[N + 1]
    BY <1>8, <2>1
  <2>5. QED
    BY <1>2, <2>2, <2>3, <2>4
<1>10. Len(B) \in Nat
  BY <1>2
<1>11. QED
  BY <1>1, <1>2, <1>3, <1>4, <1>8, <1>9, <1>10 DEF N, s, z, B

\* Every place of a body is in its head, in a part with its boundary, or the end.
LEMMA PlaceIs ==
    ASSUME NEW u \in Upload, NEW i \in 1..Len(Body(u))
    PROVE  \/ i <= 3
           \/ i = Len(Body(u))
           \/ \E q \in 1..Len(Sizes[u]) : Start(u)[q] < i /\ i <= Start(u)[q + 1]
<1> DEFINE N == Len(Sizes[u])
           s == Start(u)
           R == {r \in 1..(N + 1) : i <= s[r]}
<1>1. /\ N \in Nat /\ Len(Body(u)) \in Nat /\ s[1] = 3 /\ s[N + 1] + 1 = Len(Body(u))
      /\ \A q \in 1..(N + 1) : s[q] \in Nat
  BY Starts
<1> SUFFICES ASSUME 3 < i, i # Len(Body(u))
             PROVE  \E q \in 1..N : s[q] < i /\ i <= s[q + 1]
  BY <1>1
<1> HIDE DEF N, s
<1>2. N + 1 \in R
  <2>1. N + 1 \in 1..(N + 1)
    BY <1>1
  <2>2. i <= s[N + 1]
    BY <1>1, <2>1
  <2>3. QED
    BY <2>1, <2>2
<1>3. R \in SUBSET Nat
  OBVIOUS
<1>4. PICK r \in R : \A p \in R : r <= p
  BY <1>2, <1>3, MinOfNaturals
<1>5. r # 1
  BY <1>1, <1>4
<1>6. r - 1 \in 1..N /\ r - 1 \in 1..(N + 1) /\ (r - 1) + 1 = r /\ ~(r <= r - 1)
  BY <1>1, <1>4, <1>5
<1>7. ~(i <= s[r - 1])
  BY <1>4, <1>6
<1>8. s[r - 1] < i
  <2>1. s[r - 1] \in Nat /\ i \in Nat
    BY <1>1, <1>6
  <2>2. QED
    BY <1>7, <2>1
<1>9. QED
  BY <1>4, <1>6, <1>8

\* The kinds of tokens of a part with its boundary.
LEMMA KindsOfPart ==
    ASSUME NEW u \in Upload, NEW q \in 1..Len(Sizes[u])
    PROVE  LET n == Sizes[u][q]
               b == Start(u)[q]
           IN  /\ n \in Nat /\ b \in Nat
               /\ Body(u)[b + 1].kind = "h1" /\ Body(u)[b + 2].kind = "h2"
               /\ \A j \in 1..n : Body(u)[b + 2 + j].kind \in {"data", "space"}
               /\ Body(u)[b + n + 3].kind = "dash" /\ Body(u)[b + n + 4].kind = "b1"
               /\ Body(u)[b + n + 5].kind = "b2"
<1> DEFINE n == Sizes[u][q]
           b == Start(u)[q]
           t == Start(u)[q + 1]
<1>1. n \in Nat /\ b \in Nat /\ t = b + 5 + n /\ q \in Nat
  BY Starts
<1>2. /\ Body(u)[b + 1] = Tok("h1", q) /\ Body(u)[b + 2] = Tok("h2", q)
      /\ \A j \in 1..n : Body(u)[b + 2 + j] = Datum(u, q, j)
      /\ Body(u)[t - 2] = Tok("dash", 0)
      /\ Body(u)[t - 1] = Tok("b1", 0) /\ Body(u)[t] = Tok("b2", 0)
  BY BodyShape DEF Shape
<1>3. /\ Tok("h1", q).kind = "h1" /\ Tok("h2", q).kind = "h2"
      /\ \A j \in 1..n : Datum(u, q, j).kind \in {"data", "space"}
      /\ Tok("dash", 0).kind = "dash" /\ Tok("b1", 0).kind = "b1" /\ Tok("b2", 0).kind = "b2"
  BY <1>1, DatumIs DEF Tok
<1> HIDE DEF n, b, t
<1>4. t - 2 = b + n + 3 /\ t - 1 = b + n + 4 /\ t = b + n + 5
  BY <1>1
<1>5. QED
  BY <1>1, <1>2, <1>3, <1>4 DEF n, b

\* Boundaries are where parts begin.
LEMMA BoundariesAre ==
    ASSUME NEW u \in Upload, NEW i \in 1..Len(Body(u)), Body(u)[i].kind = "b1"
    PROVE  \E q \in 1..(Len(Sizes[u]) + 1) : i = Start(u)[q] - 1
<1> DEFINE N == Len(Sizes[u])
           s == Start(u)
<1>1. N \in Nat /\ s[1] = 3 /\ s[N + 1] + 1 = Len(Body(u))
  BY Starts
<1>2. /\ Body(u)[1] = Tok("dash", 0) /\ Body(u)[3] = Tok("b2", 0)
      /\ Body(u)[s[N + 1] + 1] = Tok("end", 0)
  BY BodyShape DEF Shape
<1>3. i # 1 /\ i # 3 /\ i # Len(Body(u))
  BY <1>1, <1>2 DEF Tok
<1>4. CASE i <= 3
  <2>1. i = 2
    BY <1>3, <1>4
  <2>2. 1 \in 1..(N + 1) /\ i = s[1] - 1
    BY <1>1, <2>1
  <2>3. QED
    BY <2>2
<1>5. CASE \E q \in 1..N : s[q] < i /\ i <= s[q + 1]
  <2>1. PICK q \in 1..N : s[q] < i /\ i <= s[q + 1]
    BY <1>5
  <2> DEFINE n == Sizes[u][q]
             b == s[q]
             k == i - b
  <2>2. /\ n \in Nat /\ b \in Nat
        /\ Body(u)[b + 1].kind = "h1" /\ Body(u)[b + 2].kind = "h2"
        /\ \A j \in 1..n : Body(u)[b + 2 + j].kind \in {"data", "space"}
        /\ Body(u)[b + n + 3].kind = "dash"
        /\ Body(u)[b + n + 5].kind = "b2"
    BY KindsOfPart
  <2>3. s[q + 1] = b + 5 + n /\ q + 1 \in 1..(N + 1)
    BY Starts
  <2> HIDE DEF n, b
  <2>4. i \in Nat /\ b < i /\ i <= b + 5 + n
    BY <2>1, <2>3 DEF b
  <2>5. i # b + 1 /\ i # b + 2 /\ i # b + n + 3 /\ i # b + n + 5
    BY <2>2
  <2>6. ~(b + 2 < i /\ i <= b + 2 + n)
    <3>1. ASSUME b + 2 < i, i <= b + 2 + n PROVE FALSE
      <4> DEFINE j == i - (b + 2)
      <4>1. j \in 1..n /\ b + 2 + j = i
        BY <2>2, <2>4, <3>1
      <4> HIDE DEF j
      <4>2. Body(u)[b + 2 + j].kind \in {"data", "space"}
        BY <2>2, <4>1
      <4>3. QED
        BY <4>1, <4>2
    <3>2. QED
      BY <3>1
  <2>7. i = b + n + 4
    BY <2>2, <2>4, <2>5, <2>6
  <2>8. i = s[q + 1] - 1
    BY <2>2, <2>3, <2>7
  <2>9. QED
    BY <2>3, <2>8
<1>6. QED
  BY <1>3, <1>4, <1>5, PlaceIs

\* The boundaries of a body are followed by their second half.
LEMMA BoundaryAt ==
    ASSUME NEW u \in Upload, NEW q \in 1..(Len(Sizes[u]) + 1)
    PROVE  Body(u)[Start(u)[q] - 1].kind = "b1" /\ Body(u)[Start(u)[q]].kind = "b2"
<1> DEFINE N == Len(Sizes[u])
           s == Start(u)
<1>1. N \in Nat /\ s[1] = 3
  BY Starts
<1>2. Tok("b1", 0).kind = "b1" /\ Tok("b2", 0).kind = "b2"
  BY DEF Tok
<1>3. CASE q = 1
  <2>1. Body(u)[2] = Tok("b1", 0) /\ Body(u)[3] = Tok("b2", 0)
    BY BodyShape DEF Shape
  <2>2. s[q] - 1 = 2 /\ s[q] = 3
    BY <1>1, <1>3
  <2>3. QED
    BY <1>2, <2>1, <2>2
<1>4. CASE q # 1
  <2>1. q - 1 \in 1..N /\ (q - 1) + 1 = q
    BY <1>1, <1>4
  <2>2. Body(u)[s[(q - 1) + 1] - 1] = Tok("b1", 0) /\ Body(u)[s[(q - 1) + 1]] = Tok("b2", 0)
    BY <2>1, BodyShape DEF Shape
  <2>3. QED
    BY <1>2, <2>1, <2>2
<1>5. QED
  BY <1>3, <1>4

\* A piece of a body, by its places: after the first one, up to the second one.
Piece(u, a, e) == SubSeq(Body(u), a + 1, e)

\* The length and the tokens of a piece.
LEMMA PieceIs ==
    ASSUME NEW u \in Upload, NEW a \in Nat, NEW e \in Nat, e <= Len(Body(u))
    PROVE  /\ Piece(u, a, e) \in Seq(Token)
           /\ Len(Piece(u, a, e)) = IF a < e THEN e - a ELSE 0
           /\ \A i \in 1..(e - a) : Piece(u, a, e)[i] = Body(u)[a + i]
<1>1. Body(u) \in Seq(Token)
  BY Starts
<1>2. a + 1 \in Nat \ {0}
  OBVIOUS
<1>3. /\ Piece(u, a, e) \in Seq(Token)
      /\ Len(Piece(u, a, e)) = IF a + 1 <= e THEN e - (a + 1) + 1 ELSE 0
      /\ \A i \in 1..(e - (a + 1) + 1) : Piece(u, a, e)[i] = Body(u)[(a + 1) + i - 1]
  BY <1>1, <1>2, PieceOf DEF Piece
<1>4. Len(Piece(u, a, e)) = IF a < e THEN e - a ELSE 0
  BY <1>3
<1>5. ASSUME NEW i \in 1..(e - a) PROVE Piece(u, a, e)[i] = Body(u)[a + i]
  <2>1. i \in 1..(e - (a + 1) + 1) /\ (a + 1) + i - 1 = a + i
    OBVIOUS
  <2>2. QED
    BY <1>3, <2>1
<1>6. QED
  BY <1>3, <1>4, <1>5

\* SubSeq by a name: an equality of two sequences and not of all of their elements.
Cut(s, m, n) == SubSeq(s, m, n)

\* A piece of a piece.
LEMMA PieceOfPiece ==
    ASSUME NEW u \in Upload, NEW a \in Nat, NEW e \in Nat, a < e, e <= Len(Body(u)),
           NEW m \in Nat, NEW n \in Nat, n <= e - a
    PROVE  Cut(Piece(u, a, e), m + 1, n) = Piece(u, a + m, a + n)
<1> DEFINE c == Piece(u, a, e)
           p == SubSeq(c, m + 1, n)
           r == Piece(u, a + m, a + n)
<1>1. c \in Seq(Token) /\ Len(c) = e - a /\ \A i \in 1..(e - a) : c[i] = Body(u)[a + i]
  BY PieceIs
<1>2. a + m \in Nat /\ a + n \in Nat /\ a + n <= Len(Body(u))
  BY Starts
<1>3. /\ r \in Seq(Token) /\ Len(r) = IF a + m < a + n THEN (a + n) - (a + m) ELSE 0
      /\ \A i \in 1..((a + n) - (a + m)) : r[i] = Body(u)[(a + m) + i]
  <2> DEFINE x == a + m
             y == a + n
  <2>1. x \in Nat /\ y \in Nat /\ y <= Len(Body(u))
    BY <1>2
  <2> HIDE DEF x, y
  <2>2. /\ Piece(u, x, y) \in Seq(Token)
        /\ Len(Piece(u, x, y)) = IF x < y THEN y - x ELSE 0
        /\ \A i \in 1..(y - x) : Piece(u, x, y)[i] = Body(u)[x + i]
    BY <2>1, PieceIs
  <2>3. QED
    BY <2>2 DEF x, y
<1> HIDE DEF c
<1>4. /\ p \in Seq(Token) /\ Len(p) = IF m + 1 <= n THEN n - (m + 1) + 1 ELSE 0
      /\ \A i \in 1..(n - (m + 1) + 1) : p[i] = c[(m + 1) + i - 1]
  <2> DEFINE m1 == m + 1
  <2>1. m1 \in Nat \ {0} /\ n <= Len(c)
    BY <1>1
  <2> HIDE DEF m1
  <2>2. /\ SubSeq(c, m1, n) \in Seq(Token)
        /\ Len(SubSeq(c, m1, n)) = IF m1 <= n THEN n - m1 + 1 ELSE 0
        /\ \A i \in 1..(n - m1 + 1) : SubSeq(c, m1, n)[i] = c[m1 + i - 1]
    BY <1>1, <2>1, PieceOf
  <2>3. QED
    BY <2>2 DEF m1
<1> HIDE DEF p, r
<1>5. Len(p) = Len(r)
  BY <1>3, <1>4
<1>6. ASSUME NEW i \in 1..Len(p) PROVE p[i] = r[i]
  <2>1. m + 1 <= n /\ i \in 1..(n - m)
    BY <1>4, <1>6
  <2>2. /\ i \in 1..(n - (m + 1) + 1) /\ (m + 1) + i - 1 = m + i
        /\ i \in 1..((a + n) - (a + m)) /\ (a + m) + i = a + (m + i) /\ m + i \in 1..(e - a)
    BY <2>1
  <2>3. p[i] = c[m + i] /\ r[i] = Body(u)[a + (m + i)]
    BY <1>3, <1>4, <2>2
  <2>4. c[m + i] = Body(u)[a + (m + i)]
    BY <1>1, <2>2
  <2>5. QED
    BY <2>3, <2>4
<1>7. p = r
  BY <1>3, <1>4, <1>5, <1>6, SeqEqual
<1>8. QED
  BY <1>7 DEF p, r, c, Cut

\* The boundaries of a piece.
LEMMA BoundariesOfPiece ==
    ASSUME NEW u \in Upload, NEW a \in Nat, NEW e \in Nat, a < e, e <= Len(Body(u))
    PROVE  LET c == Piece(u, a, e)
               N == Len(Sizes[u])
           IN  /\ \A i \in DOMAIN c :
                     HasBoundaryAt(c, i) =>
                        \E q \in 1..(N + 1) : /\ a + 2 <= Start(u)[q] /\ Start(u)[q] <= e
                                              /\ i = Start(u)[q] - 1 - a
               /\ \A q \in 1..(N + 1) :
                     a + 2 <= Start(u)[q] /\ Start(u)[q] <= e =>
                        /\ Start(u)[q] - 1 - a \in DOMAIN c
                        /\ HasBoundaryAt(c, Start(u)[q] - 1 - a)
<1> DEFINE c == Piece(u, a, e)
           N == Len(Sizes[u])
           s == Start(u)
<1>1. /\ c \in Seq(Token) /\ Len(c) = e - a /\ DOMAIN c = 1..(e - a)
      /\ \A i \in 1..(e - a) : c[i] = Body(u)[a + i]
  BY PieceIs
<1>2. N \in Nat /\ Len(Body(u)) \in Nat /\ \A q \in 1..(N + 1) : s[q] \in Nat
  BY Starts
<1> HIDE DEF c, N, s
<1>3. ASSUME NEW i \in DOMAIN c, HasBoundaryAt(c, i)
      PROVE  \E q \in 1..(N + 1) : a + 2 <= s[q] /\ s[q] <= e /\ i = s[q] - 1 - a
  <2>1. i \in 1..(e - a) /\ i < e - a /\ c[i].kind = "b1"
    BY <1>1, <1>3 DEF HasBoundaryAt
  <2>2. a + i \in 1..Len(Body(u)) /\ Body(u)[a + i].kind = "b1"
    BY <1>1, <1>2, <2>1
  <2> DEFINE x == a + i
  <2> HIDE DEF x
  <2>3. PICK q \in 1..(N + 1) : x = s[q] - 1
    BY <2>2, BoundariesAre DEF x, N, s
  <2>4. s[q] \in Nat
    BY <1>2
  <2>5. a + 2 <= s[q] /\ s[q] <= e /\ i = s[q] - 1 - a
    BY <2>1, <2>3, <2>4 DEF x
  <2>6. QED
    BY <2>5
<1>4. ASSUME NEW q \in 1..(N + 1), a + 2 <= s[q], s[q] <= e
      PROVE  s[q] - 1 - a \in DOMAIN c /\ HasBoundaryAt(c, s[q] - 1 - a)
  <2> DEFINE i == s[q] - 1 - a
  <2>1. s[q] \in Nat
    BY <1>2
  <2>2. i \in 1..(e - a) /\ i + 1 \in 1..(e - a) /\ i < e - a /\ a + i = s[q] - 1 /\ a + (i + 1) = s[q]
    <3> DEFINE x == s[q]
    <3>1. x \in Nat /\ a + 2 <= x /\ x <= e /\ i = x - 1 - a
      BY <1>4, <2>1
    <3> HIDE DEF x, i
    <3>2. i \in 1..(e - a) /\ i + 1 \in 1..(e - a) /\ i < e - a /\ a + i = x - 1 /\ a + (i + 1) = x
      BY <3>1
    <3>3. QED
      BY <3>2 DEF x
  <2> HIDE DEF i
  <2>3. c[i] = Body(u)[s[q] - 1] /\ c[i + 1] = Body(u)[s[q]]
    BY <1>1, <2>2
  <2>4. c[i].kind = "b1" /\ c[i + 1].kind = "b2"
    BY <2>3, BoundaryAt DEF N, s
  <2>5. i \in DOMAIN c /\ HasBoundaryAt(c, i)
    BY <1>1, <2>2, <2>4 DEF HasBoundaryAt
  <2>6. QED
    BY <2>5 DEF i
<1>5. QED
  BY <1>3, <1>4 DEF c, N, s

\* What a chunk is split into: from boundary k to boundary m.
SplitFrom(u, a, e, k, m) ==
    [r \in 1..(m - k + 2) |->
        Piece(u, IF r = 1 THEN a ELSE Start(u)[k + r - 2],
                 IF r = m - k + 2 THEN e ELSE Start(u)[k + r - 1] - 2)]

\* A piece of a body is split at the boundaries that lie in it as a whole.
LEMMA ChunkIsSplit ==
    ASSUME NEW u \in Upload, NEW a \in Nat, NEW e \in Nat, a < e, e <= Len(Body(u))
    PROVE  LET N == Len(Sizes[u])
           IN  \/ /\ SplitChunk(Piece(u, a, e)) = <<>>
                  /\ \A q \in 1..(N + 1) : ~(a + 2 <= Start(u)[q] /\ Start(u)[q] <= e)
               \/ \E k \in 1..(N + 1) : \E m \in 1..(N + 1) :
                     /\ k <= m
                     /\ \A q \in 1..(N + 1) :
                          a + 2 <= Start(u)[q] /\ Start(u)[q] <= e <=> k <= q /\ q <= m
                     /\ SplitChunk(Piece(u, a, e)) = SplitFrom(u, a, e, k, m)
<1> DEFINE c == Piece(u, a, e)
           N == Len(Sizes[u])
           s == Start(u)
           Q == {q \in 1..(N + 1) : a + 2 <= s[q] /\ s[q] <= e}
           I == {i \in DOMAIN c : HasBoundaryAt(c, i)}
<1>1. /\ N \in Nat /\ Len(Body(u)) \in Nat /\ \A q \in 1..(N + 1) : s[q] \in Nat
      /\ \A q \in 1..(N + 1) : \A r \in 1..(N + 1) : q < r => s[q] + 5 <= s[r]
  BY Starts
<1>2. (\A i \in I : \E q \in Q : i = s[q] - 1 - a) /\ \A q \in Q : s[q] - 1 - a \in I
  <2>1. \A i \in DOMAIN c :
           HasBoundaryAt(c, i) =>
              \E q \in 1..(N + 1) : a + 2 <= s[q] /\ s[q] <= e /\ i = s[q] - 1 - a
    BY BoundariesOfPiece
  <2>2. \A q \in 1..(N + 1) : a + 2 <= s[q] /\ s[q] <= e =>
             s[q] - 1 - a \in DOMAIN c /\ HasBoundaryAt(c, s[q] - 1 - a)
    BY BoundariesOfPiece
  <2>3. QED
    BY <2>1, <2>2
<1>3. c \in Seq(Token) /\ Len(c) = e - a
  BY PieceIs
<1>0. \A i \in Nat : \A j \in Nat :
         j <= e - a => Cut(c, i + 1, j) = Piece(u, a + i, a + j)
  BY PieceOfPiece
<1> HIDE DEF c, N, s
<1>4. CASE Q = {}
  <2>1. I = {}
    BY <1>2, <1>4
  <2>2. SplitChunk(c) = <<>>
    BY <2>1, NothingToSplit
  <2>3. QED
    BY <1>4, <2>2 DEF c, N, s
<1>5. CASE Q # {}
  <2>1. Q \in SUBSET Nat /\ Q \in SUBSET (1..(N + 1))
    OBVIOUS
  <2>2. PICK k \in Q : \A q \in Q : k <= q
    BY <1>5, <2>1, MinOfNaturals
  <2>3. PICK m \in Q : \A q \in Q : q <= m
    <3> DEFINE D == {N + 1 - q : q \in Q}
    <3>1. D \in SUBSET Nat
      BY <1>1
    <3>2. D # {}
      BY <1>5
    <3>3. PICK d \in D : \A x \in D : d <= x
      BY <3>1, <3>2, MinOfNaturals
    <3>4. PICK m \in Q : d = N + 1 - m
      BY <3>3
    <3>5. ASSUME NEW q \in Q PROVE q <= m
      <4>1. N + 1 - q \in D
        OBVIOUS
      <4>2. d <= N + 1 - q
        BY <3>3, <4>1
      <4>3. QED
        BY <1>1, <3>4, <4>2
    <3>6. QED
      BY <3>5
  <2>4. k \in 1..(N + 1) /\ m \in 1..(N + 1) /\ k <= m
    BY <2>2, <2>3
  <2>5. ASSUME NEW q \in 1..(N + 1)
        PROVE  a + 2 <= s[q] /\ s[q] <= e <=> k <= q /\ q <= m
    <3>1. a + 2 <= s[q] /\ s[q] <= e => k <= q /\ q <= m
      BY <2>2, <2>3
    <3>2. ASSUME k <= q, q <= m PROVE a + 2 <= s[q] /\ s[q] <= e
      <4>1. (k = q \/ k < q) /\ (q = m \/ q < m)
        BY <2>4, <3>2
      <4>2. s[k] \in Nat /\ s[q] \in Nat /\ s[m] \in Nat /\ a + 2 <= s[k] /\ s[m] <= e
        BY <1>1, <2>2, <2>3
      <4>3. s[k] <= s[q] /\ s[q] <= s[m]
        <5>1. s[k] = s[q] \/ s[k] + 5 <= s[q]
          BY <1>1, <2>4, <4>1
        <5>2. s[q] = s[m] \/ s[q] + 5 <= s[m]
          BY <1>1, <2>4, <4>1
        <5>3. QED
          BY <4>2, <5>1, <5>2
      <4>4. QED
        BY <4>2, <4>3
    <3>3. QED
      BY <3>1, <3>2
  <2> DEFINE n == m - k + 1
             b == [r \in 1..n |-> s[k + r - 1] - 1 - a]
  <2>6. n \in Nat \ {0}
    BY <2>4
  <2>7. ASSUME NEW r \in 1..n
        PROVE  /\ k + r - 1 \in Q /\ k + r - 1 \in 1..(N + 1) /\ s[k + r - 1] \in Nat
               /\ b[r] = s[k + r - 1] - 1 - a /\ b[r] \in 1..(e - a) /\ b[r] \in I
    <3> DEFINE q == k + r - 1
    <3>1. q \in 1..(N + 1) /\ k <= q /\ q <= m
      BY <1>1, <2>4
    <3> HIDE DEF q
    <3>2. q \in Q
      BY <2>5, <3>1
    <3>3. s[q] \in Nat /\ a + 2 <= s[q] /\ s[q] <= e
      BY <1>1, <3>2
    <3>4. s[q] - 1 - a \in 1..(e - a)
      BY <3>3
    <3>5. s[q] - 1 - a \in I
      BY <1>2, <3>2
    <3>6. b[r] = s[q] - 1 - a
      BY DEF q
    <3> HIDE DEF b
    <3>7. QED
      BY <3>1, <3>2, <3>3, <3>4, <3>5, <3>6 DEF q
  <2>8. b \in [1..n -> Nat]
    <3>1. \A r \in 1..n : b[r] \in Nat
      <4>1. ASSUME NEW r \in 1..n PROVE b[r] \in Nat
        <5>1. b[r] \in 1..(e - a)
          BY <2>7
        <5> HIDE DEF b
        <5>2. QED
          BY <5>1
      <4>2. QED
        BY <4>1
    <3>2. QED
      BY <3>1
  <2>9. \A r \in 1..n : \A t \in 1..n : r < t => b[r] < b[t]
    <3>1. ASSUME NEW r \in 1..n, NEW t \in 1..n, r < t PROVE b[r] < b[t]
      <4> DEFINE x == k + r - 1
                 y == k + t - 1
      <4>1. /\ x \in 1..(N + 1) /\ y \in 1..(N + 1) /\ s[x] \in Nat /\ s[y] \in Nat
            /\ b[r] = s[x] - 1 - a /\ b[t] = s[y] - 1 - a
        BY <2>7
      <4>2. x < y
        BY <2>4, <3>1
      <4> HIDE DEF x, y
      <4>3. s[x] + 5 <= s[y]
        BY <1>1, <4>1, <4>2
      <4> DEFINE v == s[x]
                 w == s[y]
      <4>4. b[r] = v - 1 - a /\ b[t] = w - 1 - a /\ v \in Nat /\ w \in Nat /\ v + 5 <= w
        BY <4>1, <4>3
      <4> HIDE DEF b, v, w
      <4>5. QED
        BY <4>4
    <3>2. QED
      BY <3>1
  <2>10. I = {b[r] : r \in 1..n}
    <3>1. ASSUME NEW i \in I PROVE \E r \in 1..n : i = b[r]
      <4>1. PICK q \in Q : i = s[q] - 1 - a
        BY <1>2
      <4>2. k <= q /\ q <= m /\ q \in Nat
        BY <2>2, <2>3
      <4> DEFINE r == q - k + 1
      <4>3. r \in 1..n /\ k + r - 1 = q
        BY <2>4, <4>2
      <4> HIDE DEF r
      <4>4. b[r] = s[q] - 1 - a
        BY <4>3
      <4>5. QED
        BY <4>1, <4>3, <4>4
    <3>2. \A r \in 1..n : b[r] \in I
      BY <2>7
    <3> HIDE DEF b, I, n
    <3>3. QED
      BY <3>1, <3>2
  <2>11. SplitChunk(c) = SplitAt(c, n, b)
    <3> HIDE DEF b, n
    <3>1. QED
      BY <2>6, <2>8, <2>9, <2>10, SplitShape
  <2>12. ASSUME NEW r \in 1..(n + 1)
         PROVE  SubSeq(c, IF r = 1 THEN 1 ELSE b[r - 1] + 2, IF r = n + 1 THEN Len(c) ELSE b[r] - 1)
                = Piece(u, IF r = 1 THEN a ELSE s[k + r - 2],
                           IF r = n + 1 THEN e ELSE s[k + r - 1] - 2)
    <3> DEFINE x == IF r = 1 THEN 0 ELSE b[r - 1] + 1
               y == IF r = n + 1 THEN e - a ELSE b[r] - 1
    <3>1. /\ x \in Nat /\ x + 1 = (IF r = 1 THEN 1 ELSE b[r - 1] + 2)
          /\ a + x = IF r = 1 THEN a ELSE s[k + r - 2]
      <4>1. CASE r = 1
        BY <4>1
      <4>2. CASE r # 1
        <5> DEFINE p == r - 1
        <5>1. p \in 1..n /\ k + p - 1 = k + r - 2
          BY <2>4, <2>6, <4>2
        <5> HIDE DEF p
        <5>2. b[p] = s[k + r - 2] - 1 - a /\ b[p] \in 1..(e - a) /\ s[k + r - 2] \in Nat
          BY <2>7, <5>1
        <5>3. x = b[p] + 1
          BY <4>2 DEF p
        <5> DEFINE v == s[k + r - 2]
                   w == b[p]
        <5> HIDE DEF b, x
        <5>6. w = v - 1 - a /\ w \in 1..(e - a) /\ v \in Nat /\ x = w + 1
          BY <5>2, <5>3
        <5> HIDE DEF v, w
        <5>7. x \in Nat /\ x + 1 = w + 2 /\ a + x = v
          BY <5>6
        <5>4. x \in Nat /\ x + 1 = b[p] + 2 /\ a + x = s[k + r - 2]
          BY <5>7 DEF v, w
        <5>5. QED
          BY <4>2, <5>4 DEF p
      <4>3. QED
        BY <4>1, <4>2
    <3>2. /\ y \in Nat /\ y <= e - a /\ y = (IF r = n + 1 THEN Len(c) ELSE b[r] - 1)
          /\ a + y = IF r = n + 1 THEN e ELSE s[k + r - 1] - 2
      <4>1. CASE r = n + 1
        BY <1>3, <4>1
      <4>2. CASE r # n + 1
        <5>1. r \in 1..n
          BY <2>6, <4>2
        <5>2. b[r] = s[k + r - 1] - 1 - a /\ b[r] \in 1..(e - a) /\ s[k + r - 1] \in Nat
          BY <2>7, <5>1
        <5>3. y = b[r] - 1
          BY <4>2
        <5> DEFINE v == s[k + r - 1]
                   w == b[r]
        <5> HIDE DEF b, y
        <5>6. w = v - 1 - a /\ w \in 1..(e - a) /\ v \in Nat /\ y = w - 1
          BY <5>2, <5>3
        <5> HIDE DEF v, w
        <5>7. y \in Nat /\ y <= e - a /\ a + y = v - 2
          BY <5>6
        <5>4. y \in Nat /\ y <= e - a /\ a + y = s[k + r - 1] - 2
          BY <5>7 DEF v
        <5>5. QED
          BY <4>2, <5>3, <5>4
      <4>3. QED
        BY <4>1, <4>2
    <3>5. x \in Nat /\ y \in Nat /\ y <= e - a
      BY <3>1, <3>2
    <3> HIDE DEF x, y, b, n
    <3>3. Cut(c, x + 1, y) = Piece(u, a + x, a + y)
      BY <1>0, <3>5
    <3>4. QED
      BY <3>1, <3>2, <3>3 DEF Cut
  <2>13. SplitChunk(c) = SplitFrom(u, a, e, k, m)
    <3>1. n + 1 = m - k + 2
      BY <2>4
    <3> HIDE DEF n, b
    <3>2. SplitAt(c, n, b) = [r \in 1..(n + 1) |->
              Piece(u, IF r = 1 THEN a ELSE s[k + r - 2], IF r = n + 1 THEN e ELSE s[k + r - 1] - 2)]
      BY <2>12 DEF SplitAt
    <3>3. QED
      BY <2>11, <3>1, <3>2 DEF SplitFrom, s
  <2>14. QED
    BY <2>4, <2>5, <2>13 DEF c, N, s
<1>6. QED
  BY <1>4, <1>5

\* The files an upload opened.
Own(u) == {f \in DOMAIN files : u \in openedBy[f]}

UploadTypes ==
    /\ pos \in [Upload -> Nat] /\ chunk \in [Upload -> Seq(Token)]
    /\ listed \in [Upload -> SUBSET Path]
    /\ analyze \in [Upload -> Seq(Token)] /\ target \in [Upload -> Path]
    /\ current \in [Upload -> Path \ {<<>>}] /\ fileId \in [Upload -> Nat]
    /\ parts \in [Upload -> Seq(Entry)]
    /\ files \in Directories /\ openedBy \in [DOMAIN files -> SUBSET Upload]
    /\ clock \in 1..MaxClock /\ smooth \subseteq Upload /\ ended \subseteq Upload

\* A chunk is the piece of the body that comes next.
ChunksAreNext ==
    \A u \in Upload :
        /\ pos[u] + Len(chunk[u]) <= Len(Body(u))
        /\ chunk[u] # <<>> => chunk[u] = Piece(u, pos[u], pos[u] + Len(chunk[u]))

\* What a parser names is its own.
PathsAreOwn ==
    \A u \in Upload :
        /\ listed[u] \subseteq DOMAIN files
        /\ target[u] = NoFile \/ (target[u] \in Own(u) /\ Len(parts[u]) < fileId[u])
        /\ Len(parts[u]) <= fileId[u]
        /\ \A i \in DOMAIN parts[u] : parts[u][i].file \in Own(u)

\* Who opened a file that was not raced for.
OneOwner ==
    \A f \in DOMAIN files \ raced : \A v \in openedBy[f] : \A w \in openedBy[f] : v = w

UploadInv == UploadTypes /\ ChunksAreNext /\ PathsAreOwn /\ OneOwner

\* The state a chunk is handled in keeps to the files of the upload.
LEMMA ParserStateIs ==
    ASSUME UploadTypes, PathsAreOwn, NEW u \in Upload, NEW known
    PROVE  /\ ParserState(u) \in ParserStates
           /\ KeepsToItself(ParserState(u), files, Own(u), known)
<1>1. ParserState(u) \in ParserStates
  BY DEF ParserState, ParserStates, UploadTypes
<1>2. KeepsToItself(ParserState(u), files, Own(u), known)
  BY DEF ParserState, KeepsToItself, PathsAreOwn
<1>3. QED
  BY <1>1, <1>2

\* And so does the one after it.
LEMMA ChunkIsHandled ==
    ASSUME UploadInv, NEW u \in Upload, chunk[u] # <<>>
    PROVE  LET st == OnData(ParserState(u), chunk[u], listed[u])
           IN  st \in ParserStates /\ KeepsToItself(st, files, Own(u), listed[u])
<1>1. /\ ParserState(u) \in ParserStates
      /\ KeepsToItself(ParserState(u), files, Own(u), listed[u])
  BY ParserStateIs DEF UploadInv
<1>2. Own(u) \subseteq DOMAIN files /\ chunk[u] \in Seq(Token) /\ clock \in Nat
  BY DEF Own, UploadInv, UploadTypes
<1> DEFINE a == pos[u]
           e == pos[u] + Len(chunk[u])
<1>3. a \in Nat /\ e \in Nat /\ a < e /\ e <= Len(Body(u)) /\ chunk[u] = Piece(u, a, e)
  <2>1. Len(chunk[u]) \in Nat \ {0} /\ pos[u] \in Nat
    BY <1>2, EmptySeq DEF UploadInv, UploadTypes
  <2>2. e <= Len(Body(u)) /\ chunk[u] = Piece(u, a, e)
    BY DEF UploadInv, ChunksAreNext
  <2>3. QED
    BY <2>1, <2>2
<1> HIDE DEF a, e
<1>4. SplitChunk(chunk[u]) = <<>>
      \/ (SplitChunk(chunk[u]) \in Seq(Seq(Token)) /\ Len(SplitChunk(chunk[u])) > 1)
  <2>1. CASE SplitChunk(Piece(u, a, e)) = <<>>
    BY <1>3, <2>1
  <2>2. ASSUME NEW k \in 1..(Len(Sizes[u]) + 1), NEW m \in 1..(Len(Sizes[u]) + 1), k <= m,
               \A q \in 1..(Len(Sizes[u]) + 1) :
                  a + 2 <= Start(u)[q] /\ Start(u)[q] <= e <=> k <= q /\ q <= m,
               SplitChunk(Piece(u, a, e)) = SplitFrom(u, a, e, k, m)
        PROVE  SplitChunk(chunk[u]) \in Seq(Seq(Token)) /\ Len(SplitChunk(chunk[u])) > 1
    <3>1. /\ Len(Sizes[u]) \in Nat /\ Len(Body(u)) \in Nat
          /\ \A q \in 1..(Len(Sizes[u]) + 1) : /\ Start(u)[q] \in Nat /\ 3 <= Start(u)[q]
                                               /\ Start(u)[q] < Len(Body(u))
      BY Starts
    <3> DEFINE x(r) == IF r = 1 THEN a ELSE Start(u)[k + r - 2]
               y(r) == IF r = m - k + 2 THEN e ELSE Start(u)[k + r - 1] - 2
    <3>2. ASSUME NEW r \in 1..(m - k + 2) PROVE Piece(u, x(r), y(r)) \in Seq(Token)
      <4>1. x(r) \in Nat
        <5>1. r # 1 => k + r - 2 \in 1..(Len(Sizes[u]) + 1)
          BY <2>2, <3>1
        <5>2. QED
          BY <1>3, <3>1, <5>1
      <4>2. y(r) \in Nat /\ y(r) <= Len(Body(u))
        <5>1. r # m - k + 2 => k + r - 1 \in 1..(Len(Sizes[u]) + 1)
          BY <2>2, <3>1
        <5>2. CASE r = m - k + 2
          BY <1>3, <5>2
        <5>3. CASE r # m - k + 2
          <6> DEFINE v == Start(u)[k + r - 1]
          <6>1. v \in Nat /\ 3 <= v /\ v < Len(Body(u)) /\ y(r) = v - 2
            BY <3>1, <5>1, <5>3
          <6> HIDE DEF v, y
          <6>2. QED
            BY <3>1, <6>1
        <5>4. QED
          BY <5>2, <5>3
      <4> HIDE DEF x, y
      <4>3. QED
        BY <4>1, <4>2, PieceIs
    <3>3. m - k + 2 \in Nat /\ m - k + 2 > 1
      BY <2>2
    <3>4. SplitFrom(u, a, e, k, m) = [r \in 1..(m - k + 2) |-> Piece(u, x(r), y(r))]
      BY DEF SplitFrom
    <3> HIDE DEF x, y
    <3> DEFINE n == m - k + 2
    <3> HIDE DEF n
    <3>5. /\ [r \in 1..n |-> Piece(u, x(r), y(r))] \in Seq(Seq(Token))
          /\ Len([r \in 1..n |-> Piece(u, x(r), y(r))]) = n
      BY <3>2, <3>3 DEF n
    <3>6. QED
      BY <1>3, <2>2, <3>3, <3>4, <3>5 DEF n
  <2>3. \/ SplitChunk(Piece(u, a, e)) = <<>>
        \/ \E k \in 1..(Len(Sizes[u]) + 1) : \E m \in 1..(Len(Sizes[u]) + 1) :
              /\ k <= m
              /\ \A q \in 1..(Len(Sizes[u]) + 1) :
                   a + 2 <= Start(u)[q] /\ Start(u)[q] <= e <=> k <= q /\ q <= m
              /\ SplitChunk(Piece(u, a, e)) = SplitFrom(u, a, e, k, m)
    BY <1>3, ChunkIsSplit
  <2> HIDE DEF a, e
  <2>4. QED
    BY <2>1, <2>2, <2>3
<1>5. QED
  BY <1>1, <1>2, <1>4, OnDataKeeps

\* A chunk that arrives keeps the invariant.
LEMMA ReceiveKeepsUploadInv ==
    ASSUME UploadInv, NEW u \in Upload, NEW n \in 1..(Len(Body(u)) - pos[u]), ReceiveData(u, n)
    PROVE  UploadInv'
<1> DEFINE c == Piece(u, pos[u], pos[u] + n)
<1>1. /\ chunk' = [chunk EXCEPT ![u] = c] /\ listed' = [listed EXCEPT ![u] = DOMAIN files]
      /\ smooth' \subseteq smooth
      /\ UNCHANGED <<pos, analyze, target, current, fileId, parts, files, openedBy, clock, raced, ended>>
  BY DEF ReceiveData, Piece, parser
<1>2. /\ pos \in [Upload -> Nat] /\ chunk \in [Upload -> Seq(Token)]
      /\ listed \in [Upload -> SUBSET Path] /\ DOMAIN files \in SUBSET Path /\ smooth \subseteq Upload
  BY DirectoryIsFunction DEF UploadInv, UploadTypes
<1>3. c \in Seq(Token) /\ Len(c) = n /\ pos[u] + n <= Len(Body(u)) /\ pos[u] \in Nat /\ n \in Nat
  <2> DEFINE a == pos[u]
             e == pos[u] + n
  <2>1. a \in Nat /\ n \in Nat /\ n >= 1 /\ Len(Body(u)) \in Nat /\ n <= Len(Body(u)) - a
    BY <1>2, Starts
  <2>2. e \in Nat /\ e <= Len(Body(u)) /\ a < e /\ e - a = n
    BY <2>1
  <2> HIDE DEF a, e
  <2>3. Piece(u, a, e) \in Seq(Token) /\ Len(Piece(u, a, e)) = n
    BY <2>1, <2>2, PieceIs
  <2>4. QED
    BY <2>1, <2>2, <2>3 DEF a, e
<1> HIDE DEF c
<1>4. UploadTypes'
  <2>1. chunk' \in [Upload -> Seq(Token)] /\ listed' \in [Upload -> SUBSET Path]
    BY <1>1, <1>2, <1>3
  <2>2. smooth' \subseteq Upload
    BY <1>1, <1>2
  <2>3. QED
    BY <1>1, <2>1, <2>2 DEF UploadInv, UploadTypes
<1>5. ChunksAreNext'
  <2>1. ASSUME NEW v \in Upload
        PROVE  /\ pos'[v] + Len(chunk'[v]) <= Len(Body(v))
               /\ chunk'[v] # <<>> => chunk'[v] = Piece(v, pos'[v], pos'[v] + Len(chunk'[v]))
    <3>1. CASE v = u
      <4>1. chunk'[v] = c /\ pos'[v] = pos[u]
        BY <1>1, <1>2, <3>1
      <4>2. QED
        BY <1>3, <3>1, <4>1 DEF c
    <3>2. CASE v # u
      <4>1. chunk'[v] = chunk[v] /\ pos'[v] = pos[v]
        BY <1>1, <1>2, <3>2
      <4>2. QED
        BY <4>1 DEF UploadInv, ChunksAreNext
    <3>3. QED
      BY <3>1, <3>2
  <2>2. QED
    BY <2>1 DEF ChunksAreNext, Body, Piece
<1>6. PathsAreOwn'
  <2>1. ASSUME NEW v \in Upload PROVE listed'[v] \subseteq DOMAIN files
    BY <1>1, <1>2 DEF UploadInv, PathsAreOwn
  <2>2. \A v \in Upload : Own(v)' = Own(v)
    BY <1>1 DEF Own
  <2>3. QED
    BY <1>1, <2>1, <2>2 DEF UploadInv, PathsAreOwn
<1>7. OneOwner'
  BY <1>1 DEF UploadInv, OneOwner
<1>8. QED
  BY <1>4, <1>5, <1>6, <1>7 DEF UploadInv

\* Once a chunk is handled: what is opened belongs to the upload, and is new, or raced for.
LEMMA OwnAfterChunk ==
    ASSUME UploadInv, NEW u \in Upload, HandleChunk(u)
    PROVE  LET st == OnData(ParserState(u), chunk[u], listed[u])
           IN  /\ st \in ParserStates /\ KeepsToItself(st, files, Own(u), listed[u])
               /\ DOMAIN files' = DOMAIN files \cup st.opens /\ files' = st.files
               /\ openedBy' \in [DOMAIN files' -> SUBSET Upload]
               /\ Own(u)' = Own(u) \cup st.opens
               /\ \A v \in Upload : v # u => Own(v)' = Own(v)
               /\ raced \subseteq raced'
               /\ \A f \in st.opens : f \in DOMAIN files => f \in raced'
<1> DEFINE st == OnData(ParserState(u), chunk[u], listed[u])
<1>1. st \in ParserStates /\ KeepsToItself(st, files, Own(u), listed[u])
  BY ChunkIsHandled DEF HandleChunk
<1>2. /\ files' = st.files
      /\ openedBy' = [f \in DOMAIN st.files |->
                        (IF f \in DOMAIN openedBy THEN openedBy[f] ELSE {})
                        \cup (IF f \in st.opens THEN {u} ELSE {})]
      /\ raced' = raced \cup {f \in st.opens \cap DOMAIN files : f \notin listed[u] \/ Len(f) > 2}
  BY DEF HandleChunk
<1> HIDE DEF st
<1>3. DOMAIN st.files = DOMAIN files \cup st.opens /\ \A f \in st.opens : Len(f) > 2 \/ f \notin listed[u]
  BY <1>1 DEF KeepsToItself
<1>4. openedBy \in [DOMAIN files -> SUBSET Upload]
  BY DEF UploadInv, UploadTypes
<1>5. openedBy' \in [DOMAIN files' -> SUBSET Upload]
  BY <1>2, <1>4
<1>6. \A v \in Upload : \A f \in DOMAIN files' :
         v \in openedBy'[f] <=> (f \in DOMAIN files /\ v \in openedBy[f]) \/ (f \in st.opens /\ v = u)
  BY <1>2, <1>4
<1>7. Own(u)' = Own(u) \cup st.opens
  <2>1. Own(u)' = {f \in DOMAIN files' : u \in openedBy'[f]}
    BY DEF Own
  <2>2. QED
    BY <1>2, <1>3, <1>6, <2>1 DEF Own
<1>8. ASSUME NEW v \in Upload, v # u PROVE Own(v)' = Own(v)
  <2>1. Own(v)' = {f \in DOMAIN files' : v \in openedBy'[f]}
    BY DEF Own
  <2>2. QED
    BY <1>2, <1>3, <1>6, <1>8, <2>1 DEF Own
<1>9. raced \subseteq raced' /\ \A f \in st.opens : f \in DOMAIN files => f \in raced'
  BY <1>2, <1>3
<1>10. QED
  BY <1>1, <1>2, <1>3, <1>5, <1>7, <1>8, <1>9 DEF st

\* A chunk that is handled keeps the invariant.
LEMMA HandleKeepsUploadInv ==
    ASSUME UploadInv, NEW u \in Upload, HandleChunk(u)
    PROVE  UploadInv'
<1> DEFINE st == OnData(ParserState(u), chunk[u], listed[u])
<1>1. /\ st \in ParserStates /\ KeepsToItself(st, files, Own(u), listed[u])
      /\ DOMAIN files' = DOMAIN files \cup st.opens /\ files' = st.files
      /\ openedBy' \in [DOMAIN files' -> SUBSET Upload]
      /\ Own(u)' = Own(u) \cup st.opens
      /\ \A v \in Upload : v # u => Own(v)' = Own(v)
      /\ raced \subseteq raced'
      /\ \A f \in st.opens : f \in DOMAIN files => f \in raced'
  BY OwnAfterChunk
<1>2. /\ analyze' = [analyze EXCEPT ![u] = st.analyze] /\ target' = [target EXCEPT ![u] = st.target]
      /\ current' = [current EXCEPT ![u] = st.current] /\ fileId' = [fileId EXCEPT ![u] = st.fileId]
      /\ parts' = [parts EXCEPT ![u] = st.parts]
      /\ pos' = [pos EXCEPT ![u] = @ + Len(chunk[u])] /\ chunk' = [chunk EXCEPT ![u] = <<>>]
      /\ UNCHANGED <<listed, clock, smooth, ended>>
  BY DEF HandleChunk
<1> HIDE DEF st
<1>3. /\ st.analyze \in Seq(Token) /\ st.target \in Path /\ st.current \in Path \ {<<>>}
      /\ st.fileId \in Nat /\ st.parts \in Seq(Entry) /\ st.files \in Directories
  BY <1>1, ParserFields
<1>4. UploadTypes
  BY DEF UploadInv
<1>5. pos[u] \in Nat /\ Len(chunk[u]) \in Nat /\ pos[u] + Len(chunk[u]) <= Len(Body(u))
  BY <1>4 DEF UploadTypes, UploadInv, ChunksAreNext
<1>6. UploadTypes'
  <2>1. pos' \in [Upload -> Nat] /\ chunk' \in [Upload -> Seq(Token)]
    <3>1. pos[u] + Len(chunk[u]) \in Nat /\ <<>> \in Seq(Token)
      BY <1>5, EmptySeq
    <3>2. QED
      BY <1>2, <1>4, <3>1 DEF UploadTypes
  <2>2. /\ analyze' \in [Upload -> Seq(Token)] /\ target' \in [Upload -> Path]
        /\ current' \in [Upload -> Path \ {<<>>}] /\ fileId' \in [Upload -> Nat]
        /\ parts' \in [Upload -> Seq(Entry)]
    BY <1>2, <1>3, <1>4 DEF UploadTypes
  <2>3. files' \in Directories /\ openedBy' \in [DOMAIN files' -> SUBSET Upload]
    BY <1>1, <1>3
  <2>4. /\ listed' \in [Upload -> SUBSET Path]
        /\ clock' \in 1..MaxClock /\ smooth' \subseteq Upload /\ ended' \subseteq Upload
    BY <1>2, <1>4 DEF UploadTypes
  <2>5. QED
    BY <2>1, <2>2, <2>3, <2>4 DEF UploadTypes
<1>7. ChunksAreNext'
  <2>1. ASSUME NEW v \in Upload
        PROVE  /\ pos'[v] + Len(chunk'[v]) <= Len(Body(v))
               /\ chunk'[v] # <<>> => chunk'[v] = Piece(v, pos'[v], pos'[v] + Len(chunk'[v]))
    <3>1. CASE v = u
      <4>1. chunk'[v] = <<>> /\ pos'[v] = pos[u] + Len(chunk[u]) /\ Len(<<>>) = 0
        BY <1>2, <1>4, <3>1, EmptySeq DEF UploadTypes
      <4>2. QED
        BY <1>5, <3>1, <4>1
    <3>2. CASE v # u
      <4>1. chunk'[v] = chunk[v] /\ pos'[v] = pos[v]
        BY <1>2, <1>4, <3>2 DEF UploadTypes
      <4>2. QED
        BY <4>1 DEF UploadInv, ChunksAreNext
    <3>3. QED
      BY <3>1, <3>2
  <2>2. QED
    BY <2>1 DEF ChunksAreNext, Body, Piece
<1>8. PathsAreOwn'
  <2>1. ASSUME NEW v \in Upload
        PROVE  /\ listed'[v] \subseteq DOMAIN files'
               /\ target'[v] = NoFile \/ (target'[v] \in Own(v)' /\ Len(parts'[v]) < fileId'[v])
               /\ Len(parts'[v]) <= fileId'[v]
               /\ \A i \in DOMAIN parts'[v] : parts'[v][i].file \in Own(v)'
    <3>1. listed'[v] \subseteq DOMAIN files'
      BY <1>1, <1>2 DEF UploadInv, PathsAreOwn
    <3>2. CASE v = u
      <4>1. target'[v] = st.target /\ fileId'[v] = st.fileId /\ parts'[v] = st.parts
        BY <1>2, <1>4, <3>2 DEF UploadTypes
      <4>2. QED
        BY <1>1, <3>1, <3>2, <4>1 DEF KeepsToItself
    <3>3. CASE v # u
      <4>1. target'[v] = target[v] /\ fileId'[v] = fileId[v] /\ parts'[v] = parts[v]
        BY <1>2, <1>4, <3>3 DEF UploadTypes
      <4>2. Own(v)' = Own(v)
        BY <1>1, <3>3
      <4>3. QED
        BY <3>1, <4>1, <4>2 DEF UploadInv, PathsAreOwn
    <3>4. QED
      BY <3>2, <3>3
  <2>2. QED
    BY <2>1 DEF PathsAreOwn, NoFile
<1>9. OneOwner'
  <2>1. ASSUME NEW f \in DOMAIN files' \ raced', NEW v \in openedBy'[f], NEW w \in openedBy'[f]
        PROVE  v = w
    <3>1. v \in Upload /\ w \in Upload
      BY <1>1
    <3>2. /\ f \in Own(v)' /\ f \in Own(w)'
      BY <3>1 DEF Own
    <3>3. CASE f \in DOMAIN files
      <4>1. f \notin st.opens
        BY <1>1, <3>3
      <4>2. f \in Own(v) /\ f \in Own(w)
        BY <1>1, <3>1, <3>2, <4>1
      <4>3. QED
        BY <1>1, <3>3, <4>2 DEF Own, UploadInv, OneOwner
    <3>4. CASE f \notin DOMAIN files
      <4>1. f \notin Own(v) /\ f \notin Own(w)
        BY <3>4 DEF Own
      <4>2. v = u /\ w = u
        BY <1>1, <3>1, <3>2, <4>1
      <4>3. QED
        BY <4>2
    <3>5. QED
      BY <3>3, <3>4
  <2>2. QED
    BY <2>1 DEF OneOwner
<1>10. QED
  BY <1>6, <1>7, <1>8, <1>9 DEF UploadInv

\* The invariant holds at first.
LEMMA UploadInvInit == UploadInit => UploadInv
<1> SUFFICES ASSUME UploadInit PROVE UploadInv
  OBVIOUS
<1>1. /\ pos = [u \in Upload |-> 0] /\ chunk = [u \in Upload |-> <<>>] /\ listed = [u \in Upload |-> {}]
      /\ analyze = [u \in Upload |-> <<>>] /\ target = [u \in Upload |-> NoFile]
      /\ current = [u \in Upload |-> NoName] /\ fileId = [u \in Upload |-> 0]
      /\ parts = [u \in Upload |-> <<>>]
      /\ files = [f \in {} |-> <<>>] /\ openedBy = [f \in {} |-> {}]
      /\ clock = 1 /\ smooth = Upload /\ ended = {}
  BY DEF UploadInit
<1>2. DOMAIN files = {} /\ DOMAIN openedBy = {}
  BY <1>1
<1>3. UploadTypes
  <2>1. <<>> \in Seq(Token) /\ <<>> \in Path /\ NoFile \in Path /\ <<>> \in Seq(Entry)
    BY DEF Path, NoFile
  <2>2. NoName \in Path \ {<<>>}
    BY DEF Path, NoName
  <2>3. files \in Directories
    <3>1. files \in [{} -> Seq(Token)] /\ {} \in SUBSET Path
      BY <1>1
    <3>2. QED
      BY <3>1, FunctionIsDirectory
  <2>4. clock \in 1..MaxClock
    BY <1>1, ChunksAssumption
  <2>5. QED
    BY <1>1, <1>2, <2>1, <2>2, <2>3, <2>4 DEF UploadTypes
<1>4. ChunksAreNext
  <2>1. ASSUME NEW u \in Upload PROVE pos[u] + Len(chunk[u]) <= Len(Body(u)) /\ chunk[u] = <<>>
    <3>1. pos[u] = 0 /\ chunk[u] = <<>> /\ Len(<<>>) = 0 /\ Len(Body(u)) \in Nat
      BY <1>1, Starts, EmptySeq
    <3>2. QED
      BY <3>1
  <2>2. QED
    BY <2>1 DEF ChunksAreNext
<1>5. PathsAreOwn
  <2>1. ASSUME NEW u \in Upload
        PROVE  listed[u] = {} /\ target[u] = NoFile /\ Len(parts[u]) <= fileId[u] /\ DOMAIN parts[u] = {}
    <3>1. listed[u] = {} /\ target[u] = NoFile /\ parts[u] = <<>> /\ fileId[u] = 0
      BY <1>1
    <3>2. QED
      BY <3>1
  <2>2. QED
    BY <2>1 DEF PathsAreOwn
<1>6. OneOwner
  BY <1>2 DEF OneOwner
<1>7. QED
  BY <1>3, <1>4, <1>5, <1>6 DEF UploadInv

\* And every step keeps it.
LEMMA UploadInvKept == UploadInv /\ [UploadNext]_uploadVars => UploadInv'
<1> SUFFICES ASSUME UploadInv, [UploadNext]_uploadVars PROVE UploadInv'
  OBVIOUS
<1>1. ASSUME /\ UNCHANGED <<pos, chunk, listed, parser, files, openedBy, smooth, raced>>
             /\ clock' \in 1..MaxClock /\ ended' \subseteq Upload
      PROVE  UploadInv'
  BY <1>1 DEF UploadInv, UploadTypes, ChunksAreNext, PathsAreOwn, OneOwner, parser, Own
<1>2. CASE Tick
  <2>1. clock' \in 1..MaxClock
    BY <1>2, ChunksAssumption DEF Tick, UploadInv, UploadTypes
  <2>2. QED
    BY <1>1, <1>2, <2>1 DEF Tick, UploadInv, UploadTypes
<1>3. ASSUME NEW u \in Upload, End(u) PROVE UploadInv'
  BY <1>1, <1>3 DEF End, UploadInv, UploadTypes
<1>4. CASE UNCHANGED uploadVars
  BY <1>1, <1>4 DEF uploadVars, UploadInv, UploadTypes
<1>5. QED
  BY <1>2, <1>3, <1>4, ReceiveKeepsUploadInv, HandleKeepsUploadInv DEF UploadNext

\* Nobody writes to a file of another upload.
THEOREM FilesAreOwnCorrect == UploadSpec => []FilesAreOwn
<1>1. UploadInv => FilesAreOwn
  <2> SUFFICES ASSUME UploadInv, NEW f \in DOMAIN files \ raced PROVE Cardinality(openedBy[f]) <= 1
    BY DEF FilesAreOwn
  <2>1. CASE openedBy[f] = {}
    BY <2>1, FS_EmptySet
  <2>2. CASE openedBy[f] # {}
    <3>1. PICK v \in openedBy[f] : TRUE
      BY <2>2
    <3>2. openedBy[f] = {v}
      BY <3>1 DEF UploadInv, OneOwner
    <3>3. QED
      BY <3>2, FS_Singleton
  <2>3. QED
    BY <2>1, <2>2
<1>2. QED
  BY <1>1, UploadInvInit, UploadInvKept, PTL DEF UploadSpec

\* Part q has its name, unless that has a colon.
Named(name, q) == q \notin Colon => Last(name) = q

\* The parts that are finished, of the first q: their names, numbers and contents.
DoneParts(st, u, q, R) ==
    /\ Len(st.parts) = q
    /\ \A j \in 1..q : /\ Named(st.parts[j].name, j) /\ st.parts[j].file[1] = j
                       /\ st.parts[j].file \in DOMAIN st.files
                       /\ st.parts[j].file \notin R =>
                             st.files[st.parts[j].file]
                                = Piece(u, Start(u)[j] + 2, Start(u)[j] + 2 + Sizes[u][j])

\* Between two parts, waiting for the data of part q, or with the first j pieces of it.
Between(st, u, q, R) ==
    /\ st \in ParserStates /\ st.target = NoFile /\ st.analyze = <<>>
    /\ st.fileId = q /\ DoneParts(st, u, q, R)
Waiting(st, u, q, R) ==
    /\ st \in ParserStates /\ st.target = NoFile /\ q \notin Long
    /\ st.analyze = Piece(u, Start(u)[q], Start(u)[q] + 2)
    /\ st.fileId = q - 1 /\ DoneParts(st, u, q - 1, R)
Filling(st, u, q, j, R) ==
    /\ st \in ParserStates
    /\ st.target # NoFile /\ st.target[1] = q /\ st.target \in DOMAIN st.files
    /\ st.fileId = q /\ Named(st.current, q) /\ DoneParts(st, u, q - 1, R)
    /\ st.target \notin R => st.files[st.target] = Piece(u, Start(u)[q] + 2, Start(u)[q] + 2 + j)

\* Pieces that follow each other, and a piece without its last token.
LEMMA JoinPieces ==
    ASSUME NEW u \in Upload, NEW a \in Nat, NEW b \in Nat, NEW e \in Nat, a <= b, b <= e,
           e <= Len(Body(u))
    PROVE  Piece(u, a, b) \o Piece(u, b, e) = Piece(u, a, e)
<1>1. Body(u) \in Seq(Token) /\ Len(Body(u)) \in Nat
  BY Starts
<1> DEFINE a1 == a + 1
<1>2. a1 \in 1..(Len(Body(u)) + 1) /\ b \in (a1 - 1)..Len(Body(u)) /\ e \in b..Len(Body(u))
  BY <1>1
<1> HIDE DEF a1
<1>3. SubSeq(Body(u), a1, b) \o SubSeq(Body(u), b + 1, e) = SubSeq(Body(u), a1, e)
  BY <1>1, <1>2, ConcatAdjacentSubSeq
<1>4. QED
  BY <1>3 DEF Piece, a1

\* The last token of a piece, and the piece in front of it.
LEMMA EndOfPiece ==
    ASSUME NEW u \in Upload, NEW a \in Nat, NEW e \in Nat, a < e, e <= Len(Body(u))
    PROVE  /\ Piece(u, a, e) # <<>> /\ Last(Piece(u, a, e)) = Body(u)[e]
           /\ Front(Piece(u, a, e)) = Piece(u, a, e - 1)
<1> DEFINE c == Piece(u, a, e)
           d == Piece(u, a, e - 1)
<1>1. c \in Seq(Token) /\ Len(c) = e - a /\ \A i \in 1..(e - a) : c[i] = Body(u)[a + i]
  BY PieceIs
<1>2. d \in Seq(Token) /\ Len(d) = e - a - 1 /\ \A i \in 1..(e - a - 1) : d[i] = Body(u)[a + i]
  <2> DEFINE f == e - 1
  <2>1. f \in Nat /\ f <= Len(Body(u)) /\ a <= f /\ Len(Body(u)) \in Nat
    BY Starts
  <2> HIDE DEF f
  <2>2. /\ Piece(u, a, f) \in Seq(Token) /\ Len(Piece(u, a, f)) = IF a < f THEN f - a ELSE 0
        /\ \A i \in 1..(f - a) : Piece(u, a, f)[i] = Body(u)[a + i]
    BY <2>1, PieceIs
  <2>3. Len(Piece(u, a, f)) = f - a
    BY <2>1, <2>2
  <2>4. f - a = e - a - 1
    BY DEF f
  <2>5. QED
    BY <2>2, <2>3, <2>4 DEF f
<1> HIDE DEF c, d
<1>3. c # <<>>
  <2>1. Len(c) # 0
    BY <1>1
  <2>2. QED
    BY <2>1, EmptySeq
<1>4. /\ Last(c) = c[Len(c)] /\ Front(c) \in Seq(Token) /\ Len(Front(c)) = Len(c) - 1
      /\ \A i \in 1..(Len(c) - 1) : Front(c)[i] = c[i]
  BY <1>1, <1>3, LastAndFront
<1>5. Last(c) = Body(u)[e]
  <2>1. e - a \in 1..(e - a) /\ a + (e - a) = e
    OBVIOUS
  <2>2. QED
    BY <1>1, <1>4, <2>1
<1>6. ASSUME NEW i \in 1..Len(Front(c)) PROVE Front(c)[i] = d[i]
  <2>1. i \in 1..(Len(c) - 1) /\ i \in 1..(e - a - 1) /\ i \in 1..(e - a)
    BY <1>1, <1>4
  <2>2. QED
    BY <1>1, <1>2, <1>4, <2>1
<1>7. Front(c) = d
  BY <1>1, <1>2, <1>4, <1>6, SeqEqual
<1>8. QED
  BY <1>3, <1>5, <1>7 DEF c, d

\* Nothing is blank, a token of dashes is, and what has a token of a header is not.
LEMMA BlankIs ==
    ASSUME NEW s \in Seq(Token)
    PROVE  /\ Len(s) = 0 => Blank(s)
           /\ Len(s) = 1 /\ s[1].kind \in {"dash", "end"} => Blank(s)
           /\ \A i \in 1..Len(s) : s[i].kind \notin {"dash", "end", "space"} => ~Blank(s)
<1>1. Len(s) \in Nat /\ DOMAIN s = 1..Len(s)
  BY LenProperties
<1>2. ASSUME Len(s) = 0 PROVE Blank(s)
  BY <1>1, <1>2 DEF Blank
<1>3. ASSUME Len(s) = 1, s[1].kind \in {"dash", "end"} PROVE Blank(s)
  <2>1. \A i \in DOMAIN s : i = 1
    BY <1>1, <1>3
  <2>2. QED
    BY <1>3, <2>1 DEF Blank
<1>4. ASSUME NEW i \in 1..Len(s), s[i].kind \notin {"dash", "end", "space"} PROVE ~Blank(s)
  BY <1>1, <1>4 DEF Blank
<1>5. QED
  BY <1>2, <1>3, <1>4

\* The numbers of a part.
LEMMA PartNumbers ==
    ASSUME NEW u \in Upload, NEW q \in 1..Len(Sizes[u])
    PROVE  /\ Start(u)[q] \in Nat /\ Sizes[u][q] \in Nat /\ Len(Body(u)) \in Nat
           /\ Start(u)[q] + 5 + Sizes[u][q] < Len(Body(u))
           /\ Start(u)[q + 1] = Start(u)[q] + 5 + Sizes[u][q]
           /\ q \in Nat /\ q - 1 \in Nat
<1>1. /\ Len(Sizes[u]) \in Nat /\ Sizes[u][q] \in Nat /\ q \in 1..(Len(Sizes[u]) + 1) /\ q + 1 \in 1..(Len(Sizes[u]) + 1)
      /\ Start(u)[q + 1] = Start(u)[q] + 5 + Sizes[u][q]
      /\ Len(Body(u)) \in Nat
  BY Starts
<1>2. Start(u)[q] \in Nat /\ Start(u)[q + 1] < Len(Body(u))
  BY <1>1, Starts
<1>3. QED
  BY <1>1, <1>2

\* What a buffer has room for: nothing is in it, or a header that is not long.
LEMMA NotFull ==
    /\ ~IsFull(<<>>)
    /\ \A u \in Upload : \A q \in 1..Len(Sizes[u]) :
          q \notin Long => ~IsFull(Piece(u, Start(u)[q], Start(u)[q] + 2))
<1>1. ~IsFull(<<>>)
  BY DEF IsFull
<1>2. ASSUME NEW u \in Upload, NEW q \in 1..Len(Sizes[u]), q \notin Long
      PROVE  ~IsFull(Piece(u, Start(u)[q], Start(u)[q] + 2))
  <2> DEFINE b == Start(u)[q]
             e == b + 2
             c == Piece(u, b, e)
  <2>1. b \in Nat /\ Body(u)[b + 1] = Tok("h1", q) /\ Body(u)[b + 2] = Tok("h2", q)
    BY Starts, BodyShape DEF Shape
  <2>2. e \in Nat /\ e - b = 2 /\ b < e /\ e <= Len(Body(u))
    <3>1. b \in Nat /\ Sizes[u][q] \in Nat /\ Len(Body(u)) \in Nat
          /\ b + 5 + Sizes[u][q] < Len(Body(u))
      BY PartNumbers
    <3> HIDE DEF b
    <3>2. QED
      BY <3>1
  <2>3. /\ c \in Seq(Token) /\ Len(c) = IF b < e THEN e - b ELSE 0
        /\ \A i \in 1..(e - b) : c[i] = Body(u)[b + i]
    <3> HIDE DEF b, e
    <3>1. QED
      BY <2>1, <2>2, PieceIs
  <2> HIDE DEF c, b, e
  <2>4. DOMAIN c = 1..2 /\ c[1] = Tok("h1", q) /\ c[2] = Tok("h2", q)
    <3>1. Len(c) = 2 /\ c[1] = Body(u)[b + 1] /\ c[2] = Body(u)[b + 2]
      BY <2>2, <2>3
    <3>2. QED
      BY <2>1, <2>3, <3>1
  <2>5. \A i \in DOMAIN c : i = 1 \/ i = 2
    BY <2>4
  <2>6. ~IsFull(c)
    BY <1>2, <2>4, <2>5 DEF IsFull, Tok
  <2>7. QED
    BY <2>6 DEF c, e, b
<1>3. QED
  BY <1>1, <1>2

\* What begins with a header: how long it is, the name in it, and what is behind it.
LEMMA AfterHeader ==
    ASSUME NEW u \in Upload, NEW q \in 1..Len(Sizes[u]), NEW e \in Nat,
           Start(u)[q] + 2 <= e, e <= Len(Body(u)), NEW before
    PROVE  LET all == Piece(u, Start(u)[q], e)
           IN  /\ all \in Seq(Token) /\ all # <<>> /\ Len(all) = e - Start(u)[q]
               /\ HeaderLength(all) = 2 /\ Named(NameIn(all, before), q)
               /\ SubSeq(all, HeaderLength(all) + 1, Len(all)) = Piece(u, Start(u)[q] + 2, e)
<1> DEFINE b == Start(u)[q]
           all == Piece(u, b, e)
<1>1. b \in Nat /\ Body(u)[b + 1] = Tok("h1", q) /\ Body(u)[b + 2] = Tok("h2", q)
  <2>1. b \in Nat
    BY Starts
  <2>2. QED
    BY <2>1, BodyShape DEF Shape
<1>2. b + 2 <= e
  OBVIOUS
<1> HIDE DEF b
<1>3. b < e /\ 2 \in Nat /\ e - b \in Nat /\ e - b <= e - b /\ 1 \in 1..(e - b) /\ 2 \in 1..(e - b) /\ b + (e - b) = e
  BY <1>1, <1>2
<1>4. all \in Seq(Token) /\ Len(all) = e - b /\ \A i \in 1..(e - b) : all[i] = Body(u)[b + i]
  BY <1>1, <1>3, PieceIs
<1>5. all[1] = Tok("h1", q) /\ all[2] = Tok("h2", q)
  BY <1>1, <1>3, <1>4
<1>6. Cut(all, 2 + 1, e - b) = Piece(u, b + 2, b + (e - b))
  <2>1. \A i \in Nat : \A j \in Nat :
           j <= e - b => Cut(all, i + 1, j) = Piece(u, b + i, b + j)
    BY <1>1, <1>3, PieceOfPiece
  <2> HIDE DEF all
  <2>2. QED
    BY <1>3, <2>1
<1> HIDE DEF all
<1>7. all # <<>> /\ DOMAIN all = 1..Len(all)
  <2>1. Len(all) # 0
    BY <1>1, <1>2, <1>4
  <2>2. QED
    BY <1>4, <2>1, EmptySeq
<1>8. /\ Tok("h1", q).kind = "h1" /\ Tok("h2", q).kind = "h2" /\ Tok("h1", q).part = q
  BY DEF Tok
<1>9. HeaderLength(all) = 2
  <2>1. 2 \in DOMAIN all /\ all[2].kind = "h2" /\ all[1].kind # "h2"
    BY <1>3, <1>4, <1>5, <1>7, <1>8
  <2>2. \A j \in 1..(2 - 1) : all[j].kind # "h2"
    BY <2>1
  <2>3. ASSUME NEW i \in DOMAIN all, all[i].kind = "h2", \A j \in 1..(i - 1) : all[j].kind # "h2"
        PROVE  i = 2
    <3>1. i \in Nat /\ i >= 1 /\ i # 1
      BY <1>7, <2>1, <2>3
    <3>2. ~(i > 2)
      <4>1. i > 2 => 2 \in 1..(i - 1)
        BY <3>1
      <4>2. QED
        BY <2>1, <2>3, <4>1
    <3>3. QED
      BY <3>1, <3>2
  <2>4. HeaderLength(all) = CHOOSE i \in DOMAIN all :
                               all[i].kind = "h2" /\ \A j \in 1..(i - 1) : all[j].kind # "h2"
    BY <2>1 DEF HeaderLength
  <2> DEFINE h == HeaderLength(all)
  <2>5. h \in DOMAIN all /\ all[h].kind = "h2" /\ \A j \in 1..(h - 1) : all[j].kind # "h2"
    <3> HIDE DEF h
    <3>1. \E i \in DOMAIN all : all[i].kind = "h2" /\ \A j \in 1..(i - 1) : all[j].kind # "h2"
      BY <2>1, <2>2
    <3>2. QED
      BY <2>4, <3>1 DEF h
  <2> HIDE DEF h
  <2>6. h = 2
    BY <2>3, <2>5
  <2>7. QED
    BY <2>6 DEF h
<1>10. Named(NameIn(all, before), q)
  <2>1. Len(all) >= 2
    BY <1>1, <1>2, <1>4
  <2>2. q \notin Colon => NameIn(all, before) = <<q>>
    BY <1>5, <1>8, <2>1 DEF NameIn
  <2>3. Last(<<q>>) = q
    BY DEF Last
  <2>4. QED
    BY <2>2, <2>3 DEF Named
<1>11. SubSeq(all, HeaderLength(all) + 1, Len(all)) = Piece(u, b + 2, e)
  <2>1. HeaderLength(all) + 1 = 2 + 1 /\ Len(all) = e - b
    BY <1>4, <1>9
  <2>2. QED
    BY <1>3, <1>6, <2>1 DEF Cut
<1>12. QED
  BY <1>4, <1>7, <1>9, <1>10, <1>11 DEF all, b

\* The places in a part, one behind the other.
LEMMA InPart ==
    ASSUME NEW u \in Upload, NEW q \in 1..Len(Sizes[u]), NEW i \in 0..Sizes[u][q], NEW j \in i..Sizes[u][q]
    PROVE  LET b == Start(u)[q]
           IN  /\ b \in Nat /\ b + 2 \in Nat /\ i \in Nat /\ j \in Nat
               /\ b + 2 + i \in Nat /\ b + 2 + j \in Nat
               /\ b + 2 <= b + 2 + i /\ b + 2 + i <= b + 2 + j /\ b + 2 + j <= Len(Body(u))
               /\ b + 2 <= b + 2 + j /\ (j = 0 => b + 2 + j = b + 2) /\ (j # 0 => b + 2 < b + 2 + j)
<1> DEFINE b == Start(u)[q]
           n == Sizes[u][q]
           l == Len(Body(u))
<1>1. b \in Nat /\ n \in Nat /\ l \in Nat /\ b + 5 + n < l
  BY PartNumbers
<1>2. i \in 0..n /\ j \in i..n
  OBVIOUS
<1> HIDE DEF b, n, l
<1>3. /\ b \in Nat /\ b + 2 \in Nat /\ i \in Nat /\ j \in Nat
      /\ b + 2 + i \in Nat /\ b + 2 + j \in Nat
      /\ b + 2 <= b + 2 + i /\ b + 2 + i <= b + 2 + j /\ b + 2 + j <= l
      /\ b + 2 <= b + 2 + j /\ (j = 0 => b + 2 + j = b + 2) /\ (j # 0 => b + 2 < b + 2 + j)
  BY <1>1, <1>2
<1>4. QED
  BY <1>3 DEF b, l

\* What the files of the finished parts hold stays as it is.
LEMMA DoneStays ==
    ASSUME NEW u \in Upload, NEW q \in Nat, NEW R, NEW T, R \subseteq T,
           NEW st, DoneParts(st, u, q, R), NEW new, new.parts = st.parts,
           \A j \in 1..q : st.parts[j].file \in DOMAIN new.files,
           \A j \in 1..q : st.parts[j].file \notin T =>
                 new.files[st.parts[j].file] = st.files[st.parts[j].file]
    PROVE  DoneParts(new, u, q, T)
BY DEF DoneParts

\* What a file begins with: a complete part is without the dash at its end.
FirstData(s, isComplete) == IF isComplete THEN WithoutDash(s) ELSE s

\* Part q has a file of its own, with these data.
Opened(new, u, q, s, R) ==
    /\ new \in ParserStates
    /\ new.target # NoFile /\ new.target[1] = q /\ new.target \in DOMAIN new.files
    /\ new.fileId = q /\ Named(new.current, q) /\ DoneParts(new, u, q - 1, R)
    /\ new.files[new.target] = s

\* A part is opened: its number is in the name of the file, which no other part has.
LEMMA Opening ==
    ASSUME NEW u \in Upload, NEW q \in 1..Len(Sizes[u]), NEW R, NEW known, clock \in Nat,
           NEW st \in ParserStates, st.fileId = q - 1, DoneParts(st, u, q - 1, R),
           NEW e \in Nat, Start(u)[q] + 2 < e, e <= Len(Body(u)), NEW isComplete \in BOOLEAN
    PROVE  LET all == Piece(u, Start(u)[q], e)
               data == Piece(u, Start(u)[q] + 2, e)
               new == OpenedWith(st, all, isComplete, known)
           IN  /\ all # <<>> /\ HeaderLength(all) # Len(all)
               /\ Opened(new, u, q, FirstData(data, isComplete), R)
<1> DEFINE b == Start(u)[q]
           all == Piece(u, Start(u)[q], e)
           data == Piece(u, Start(u)[q] + 2, e)
           new == OpenedWith(st, all, isComplete, known)
<1>1. b \in Nat /\ q \in Nat /\ q - 1 \in Nat
  BY PartNumbers
<1>2. b + 2 < e /\ b + 2 <= e
  BY <1>1
<1>3. /\ all \in Seq(Token) /\ all # <<>> /\ Len(all) = e - b
      /\ HeaderLength(all) = 2 /\ Named(NameIn(all, st.current), q)
      /\ SubSeq(all, HeaderLength(all) + 1, Len(all)) = data
  <2>1. \A x : LET w == Piece(u, Start(u)[q], e)
               IN  /\ w \in Seq(Token) /\ w # <<>> /\ Len(w) = e - Start(u)[q]
                   /\ HeaderLength(w) = 2 /\ Named(NameIn(w, x), q)
                   /\ SubSeq(w, HeaderLength(w) + 1, Len(w)) = Piece(u, Start(u)[q] + 2, e)
    BY <1>2, AfterHeader, Zenon
  <2>2. QED
    BY <2>1, Zenon
<1> HIDE DEF all, data
<1>4. /\ new \in ParserStates
      /\ new.fileId = st.fileId + 1 /\ new.parts = st.parts
      /\ Last(new.current) = Last(NameIn(all, st.current))
      /\ new.target # NoFile /\ new.target[1] = new.fileId
      /\ DOMAIN new.files = DOMAIN st.files \cup {new.target}
      /\ new.files[new.target] =
            IF isComplete THEN WithoutDash(SubSeq(all, HeaderLength(all) + 1, Len(all)))
            ELSE SubSeq(all, HeaderLength(all) + 1, Len(all))
      /\ \A f \in DOMAIN st.files \ {new.target} : new.files[f] = st.files[f]
  <2>1. all \in Seq(Token) /\ all # <<>>
    BY <1>3
  <2>2. QED
    BY <2>1, OpenedFields
<1> HIDE DEF new
<1>5. new.fileId = q /\ Named(new.current, q)
  BY <1>1, <1>3, <1>4 DEF Named
<1>6. DoneParts(new, u, q - 1, R)
  <2>1. ASSUME NEW j \in 1..(q - 1)
        PROVE  /\ st.parts[j].file \in DOMAIN new.files
               /\ new.files[st.parts[j].file] = st.files[st.parts[j].file]
    <3>1. st.parts[j].file[1] = j /\ st.parts[j].file \in DOMAIN st.files
      BY DEF DoneParts
    <3>2. j # q
      BY <1>1
    <3>3. st.parts[j].file # new.target
      BY <1>4, <1>5, <3>1, <3>2
    <3>4. QED
      BY <1>4, <3>1, <3>3
  <2>2. QED
    BY <1>1, <1>4, <2>1, DoneStays
<1>7. HeaderLength(all) # Len(all)
  BY <1>1, <1>2, <1>3
<1>8. QED
  BY <1>3, <1>4, <1>5, <1>6, <1>7 DEF all, data, new, b, FirstData, Opened

\* A part whose file holds all of its data is finished.
LEMMA Finishing ==
    ASSUME NEW u \in Upload, NEW q \in 1..Len(Sizes[u]), NEW R, NEW st,
           Filling(st, u, q, Sizes[u][q], R)
    PROVE  Between(FinishCurrentPart(st), u, q, R)
<1> DEFINE new == FinishCurrentPart(st)
           entry == [name |-> st.current, file |-> st.target]
<1>1. /\ st \in ParserStates /\ st.target[1] = q /\ st.target \in DOMAIN st.files
      /\ st.fileId = q /\ Named(st.current, q) /\ DoneParts(st, u, q - 1, R)
      /\ st.target \notin R =>
            st.files[st.target] = Piece(u, Start(u)[q] + 2, Start(u)[q] + 2 + Sizes[u][q])
  BY DEF Filling
<1>2. /\ new \in ParserStates /\ new.target = NoFile /\ new.analyze = <<>>
      /\ new.parts = Append(st.parts, entry) /\ new.fileId = st.fileId /\ new.files = st.files
  BY <1>1, FinishFields
<1>3. q \in Nat /\ q >= 1 /\ st.parts \in Seq(Entry) /\ Len(st.parts) = q - 1
  BY <1>1, PartNumbers, ParserFields DEF DoneParts
<1> HIDE DEF new
<1>4. Len(new.parts) = q /\ new.parts[q] = entry /\ \A j \in 1..(q - 1) : new.parts[j] = st.parts[j]
  <2> HIDE DEF entry
  <2>1. /\ Len(Append(st.parts, entry)) = Len(st.parts) + 1
        /\ Append(st.parts, entry)[Len(st.parts) + 1] = entry
        /\ \A j \in 1..Len(st.parts) : Append(st.parts, entry)[j] = st.parts[j]
    BY <1>3
  <2>2. QED
    BY <1>2, <1>3, <2>1
<1>5. ASSUME NEW j \in 1..q
      PROVE  /\ Named(new.parts[j].name, j) /\ new.parts[j].file[1] = j
             /\ new.parts[j].file \in DOMAIN new.files
             /\ new.parts[j].file \notin R =>
                   new.files[new.parts[j].file]
                      = Piece(u, Start(u)[j] + 2, Start(u)[j] + 2 + Sizes[u][j])
  <2>1. CASE j = q
    BY <1>1, <1>2, <1>4, <2>1
  <2>2. CASE j # q
    <3>1. j \in 1..(q - 1)
      BY <1>3, <2>2
    <3>2. QED
      BY <1>1, <1>2, <1>4, <3>1 DEF DoneParts
  <2>3. QED
    BY <2>1, <2>2
<1>6. DoneParts(new, u, q, R)
  BY <1>4, <1>5 DEF DoneParts
<1>7. QED
  BY <1>1, <1>2, <1>6 DEF Between, new

\* The header comes, and with it some data or none.
LEMMA HeaderComes ==
    ASSUME NEW u \in Upload, NEW q \in 1..Len(Sizes[u]), NEW R, NEW known, clock \in Nat,
           NEW st, Between(st, u, q - 1, R), NEW j \in 0..Sizes[u][q], j = 0 => q \notin Long
    PROVE  LET new == WriteData(st, Piece(u, Start(u)[q], Start(u)[q] + 2 + j), FALSE, known)
           IN  IF j = 0 THEN Waiting(new, u, q, R) ELSE Filling(new, u, q, j, R)
<1> DEFINE b == Start(u)[q]
           e == Start(u)[q] + 2 + j
           all == Piece(u, b, e)
           new == WriteData(st, all, FALSE, known)
<1>1. /\ b \in Nat /\ e \in Nat /\ b + 2 <= e /\ e <= Len(Body(u)) /\ (j # 0 => b + 2 < e)
      /\ (j = 0 => e = b + 2) /\ j \in Nat
  <2>1. Sizes[u][q] \in Nat /\ j \in Nat /\ 0 \in 0..Sizes[u][q] /\ j \in 0..Sizes[u][q]
    BY PartNumbers
  <2>2. QED
    BY <2>1, InPart
<1>2. /\ st \in ParserStates /\ st.target = NoFile /\ st.analyze = <<>>
      /\ st.fileId = q - 1 /\ DoneParts(st, u, q - 1, R)
  BY DEF Between
<1> HIDE DEF e
<1>3. /\ all \in Seq(Token) /\ all # <<>> /\ HeaderLength(all) = 2 /\ Len(all) = e - b
  BY <1>1, AfterHeader
<1>4. <<>> \o all = all
  BY <1>3
<1> HIDE DEF all
<1>5. CASE j = 0
  <2>1. HeaderLength(all) = Len(all)
    BY <1>1, <1>3, <1>5
  <2>2. new = [st EXCEPT !.analyze = all]
    BY <1>2, <1>4, <2>1, NotFull DEF WriteData
  <2> HIDE DEF new
  <2>3. /\ new \in ParserStates /\ new.analyze = all
        /\ new.target = st.target /\ new.fileId = st.fileId /\ new.parts = st.parts
        /\ new.files = st.files
    BY <1>2, <1>3, <2>2, WaitingFields
  <2>4. DoneParts(new, u, q - 1, R)
    BY <1>2, <2>3 DEF DoneParts
  <2>5. Waiting(new, u, q, R)
    BY <1>1, <1>2, <1>5, <2>3, <2>4 DEF Waiting, all
  <2>6. QED
    BY <1>5, <2>5 DEF new, all, e
<1>6. CASE j # 0
  <2> DEFINE opened == OpenedWith(st, Piece(u, b, e), FALSE, known)
  <2>1. /\ Piece(u, b, e) # <<>> /\ HeaderLength(Piece(u, b, e)) # Len(Piece(u, b, e))
        /\ Opened(opened, u, q, FirstData(Piece(u, b + 2, e), FALSE), R)
    BY <1>1, <1>2, <1>6, Opening
  <2>2. new = opened
    <3>1. new = OpenPart(st, all, FALSE, known)
      BY <1>2, <1>4, <2>1, NotFull DEF WriteData, all
    <3>2. QED
      BY <3>1, OpenedIs DEF all
  <2> HIDE DEF opened
  <2>3. Filling(opened, u, q, j, R)
    BY <2>1 DEF Filling, Opened, FirstData, e, b
  <2>4. QED
    BY <1>6, <2>2, <2>3 DEF new, all, e
<1>7. QED
  BY <1>5, <1>6

\* The first data for a header that waits.
LEMMA DataComes ==
    ASSUME NEW u \in Upload, NEW q \in 1..Len(Sizes[u]), NEW R, NEW known, clock \in Nat,
           NEW st, Waiting(st, u, q, R), NEW j \in 1..Sizes[u][q]
    PROVE  Filling(WriteData(st, Piece(u, Start(u)[q] + 2, Start(u)[q] + 2 + j), FALSE, known), u, q, j, R)
<1> DEFINE b == Start(u)[q]
           e == Start(u)[q] + 2 + j
           new == WriteData(st, Piece(u, b + 2, e), FALSE, known)
           opened == OpenedWith(st, Piece(u, b, e), FALSE, known)
<1>1. b \in Nat /\ e \in Nat /\ b + 2 < e /\ e <= Len(Body(u)) /\ b + 2 \in Nat
  <2>1. Sizes[u][q] \in Nat /\ j \in Nat /\ j # 0 /\ 0 \in 0..Sizes[u][q] /\ j \in 0..Sizes[u][q]
    BY PartNumbers
  <2>2. QED
    BY <2>1, InPart
<1>2. /\ st \in ParserStates /\ st.target = NoFile /\ st.analyze = Piece(u, b, b + 2)
      /\ ~IsFull(st.analyze)
      /\ st.fileId = q - 1 /\ DoneParts(st, u, q - 1, R)
  BY NotFull DEF Waiting
<1> HIDE DEF b, e
<1>3. st.analyze \o Piece(u, b + 2, e) = Piece(u, b, e)
  <2> DEFINE x == b + 2
  <2>1. x \in Nat /\ b <= x /\ x <= e
    BY <1>1
  <2> HIDE DEF x
  <2>2. Piece(u, b, x) \o Piece(u, x, e) = Piece(u, b, e)
    BY <1>1, <2>1, JoinPieces
  <2>3. QED
    BY <1>2, <2>2 DEF x
<1>4. /\ Piece(u, b, e) # <<>> /\ HeaderLength(Piece(u, b, e)) # Len(Piece(u, b, e))
      /\ Opened(opened, u, q, FirstData(Piece(u, b + 2, e), FALSE), R)
  BY <1>1, <1>2, Opening DEF b
<1>5. new = opened
  <2>1. new = OpenPart(st, Piece(u, b, e), FALSE, known)
    BY <1>2, <1>3, <1>4 DEF WriteData
  <2>2. QED
    BY <2>1, OpenedIs
<1> HIDE DEF opened
<1>6. Filling(opened, u, q, j, R)
  BY <1>4 DEF Filling, Opened, FirstData, e, b
<1>7. QED
  BY <1>5, <1>6 DEF new, b, e

\* More data.
LEMMA MoreComes ==
    ASSUME NEW u \in Upload, NEW q \in 1..Len(Sizes[u]), NEW R, NEW known,
           NEW i \in 0..Sizes[u][q], NEW j \in i..Sizes[u][q], NEW st, Filling(st, u, q, i, R)
    PROVE  Filling(Extended(st, Piece(u, Start(u)[q] + 2 + i, Start(u)[q] + 2 + j)), u, q, j, R)
<1> DEFINE b == Start(u)[q] + 2
           s == Piece(u, b + i, b + j)
           new == Extended(st, s)
<1>1. b \in Nat /\ b + i \in Nat /\ b + j \in Nat /\ b <= b + i /\ b + i <= b + j /\ b + j <= Len(Body(u))
  BY InPart
<1>2. /\ st \in ParserStates /\ st.target # NoFile /\ st.target[1] = q /\ st.target \in DOMAIN st.files
      /\ st.fileId = q /\ Named(st.current, q) /\ DoneParts(st, u, q - 1, R)
      /\ st.target \notin R => st.files[st.target] = Piece(u, b, b + i)
  BY DEF Filling
<1> HIDE DEF b
<1>3. s \in Seq(Token) /\ Piece(u, b, b + i) \o s = Piece(u, b, b + j)
  <2> DEFINE x == b + i
             y == b + j
  <2>1. x \in Nat /\ y \in Nat /\ b <= x /\ x <= y /\ y <= Len(Body(u))
    BY <1>1
  <2> HIDE DEF x, y
  <2>2. Piece(u, b, x) \o Piece(u, x, y) = Piece(u, b, y) /\ Piece(u, x, y) \in Seq(Token)
    BY <1>1, <2>1, JoinPieces, PieceIs
  <2>3. QED
    BY <2>2 DEF x, y
<1> HIDE DEF s
<1>4. /\ new \in ParserStates
      /\ new.target = st.target /\ new.current = st.current
      /\ new.fileId = st.fileId /\ new.parts = st.parts
      /\ DOMAIN new.files = DOMAIN st.files
      /\ new.files[st.target] = st.files[st.target] \o s
      /\ \A f \in DOMAIN st.files \ {st.target} : new.files[f] = st.files[f]
  BY <1>2, <1>3, ExtendedFields
<1> HIDE DEF new
<1>5. DoneParts(new, u, q - 1, R)
  <2>1. ASSUME NEW k \in 1..(q - 1)
        PROVE  /\ st.parts[k].file \in DOMAIN new.files
               /\ new.files[st.parts[k].file] = st.files[st.parts[k].file]
    <3>1. st.parts[k].file[1] = k /\ st.parts[k].file \in DOMAIN st.files
      BY <1>2 DEF DoneParts
    <3>2. k # q
      BY PartNumbers
    <3>3. st.parts[k].file # st.target
      BY <1>2, <3>1, <3>2
    <3>4. QED
      BY <1>4, <3>1, <3>3
  <2>2. /\ q - 1 \in Nat /\ R \subseteq R /\ DoneParts(st, u, q - 1, R) /\ new.parts = st.parts
        /\ \A k \in 1..(q - 1) : st.parts[k].file \in DOMAIN new.files
        /\ \A k \in 1..(q - 1) : st.parts[k].file \notin R =>
              new.files[st.parts[k].file] = st.files[st.parts[k].file]
    BY <1>2, <1>4, <2>1, PartNumbers
  <2>3. QED
    BY <2>2, DoneStays
<1>6. new.target \notin R => new.files[new.target] = Piece(u, b, b + j)
  BY <1>2, <1>3, <1>4
<1>7. Filling(new, u, q, j, R)
  BY <1>2, <1>4, <1>5, <1>6 DEF Filling, b
<1>8. QED
  BY <1>7 DEF new, s, b

\* What is left of a part ends with the line break before the boundary.
LEMMA DashAtEnd ==
    ASSUME NEW u \in Upload, NEW q \in 1..Len(Sizes[u]), NEW i \in 0..Sizes[u][q]
    PROVE  LET b == Start(u)[q]
               n == Sizes[u][q]
               s == Piece(u, b + 2 + i, Start(u)[q + 1] - 2)
           IN  /\ Start(u)[q + 1] - 2 = b + 3 + n /\ b + 3 + n \in Nat /\ b + 3 + n <= Len(Body(u))
               /\ b + 2 < b + 3 + n
               /\ s \in Seq(Token) /\ Len(s) = n + 1 - i
               /\ WithoutDash(s) = Piece(u, b + 2 + i, b + 2 + n)
<1> DEFINE b == Start(u)[q]
           n == Sizes[u][q]
           l == Len(Body(u))
           x == b + 2 + i
           y == b + 3 + n
           s == Piece(u, x, y)
<1>1. /\ b \in Nat /\ n \in Nat /\ l \in Nat /\ b + 5 + n < l /\ Start(u)[q + 1] = b + 5 + n
  BY PartNumbers
<1>2. i \in 0..n
  OBVIOUS
<1>3. Body(u)[Start(u)[q + 1] - 2] = Tok("dash", 0)
  BY BodyShape DEF Shape
<1> HIDE DEF b, n, l
<1>4. Start(u)[q + 1] - 2 = y /\ y \in Nat /\ x \in Nat /\ x < y /\ y <= l /\ y - 1 = b + 2 + n /\ y - x = n + 1 - i
      /\ b + 2 < y
  <2>1. (b + 5 + n) - 2 = y
    BY <1>1
  <2>2. y \in Nat /\ y <= l /\ y - 1 = b + 2 + n /\ b + 2 < y
    BY <1>1
  <2>3. i \in Nat /\ i <= n
    BY <1>1, <1>2
  <2>4. x \in Nat /\ x < y
    BY <1>1, <2>3
  <2>5. y - x = n + 1 - i
    BY <1>1, <2>3
  <2>6. Start(u)[q + 1] - 2 = y
    BY <1>1, <2>1
  <2>7. QED
    BY <2>2, <2>4, <2>5, <2>6
<1>5. Body(u)[y].kind = "dash"
  BY <1>3, <1>4 DEF Tok
<1> HIDE DEF x, y
<1>6. s \in Seq(Token) /\ Len(s) = y - x
  BY <1>4, PieceIs DEF l
<1>7. s # <<>> /\ Last(s) = Body(u)[y] /\ Front(s) = Piece(u, x, y - 1)
  BY <1>4, EndOfPiece DEF l
<1>8. WithoutDash(s) = Piece(u, x, b + 2 + n)
  BY <1>4, <1>5, <1>7 DEF WithoutDash
<1>9. QED
  BY <1>4, <1>6, <1>8 DEF x, y, s, b, n, l

\* The end of a part: some data, not all, came before.
LEMMA FillsUp ==
    ASSUME NEW u \in Upload, NEW q \in 1..Len(Sizes[u]), NEW R, NEW known,
           NEW i \in 0..Sizes[u][q], NEW st, Filling(st, u, q, i, R),
           ~Blank(Piece(u, Start(u)[q] + 2 + i, Start(u)[q + 1] - 2))
    PROVE  Between(HandleFirst(st, Piece(u, Start(u)[q] + 2 + i, Start(u)[q + 1] - 2), known), u, q, R)
<1> DEFINE b == Start(u)[q]
           n == Sizes[u][q]
           s == Piece(u, b + 2 + i, Start(u)[q + 1] - 2)
           new == Extended(st, WithoutDash(s))
<1>1. WithoutDash(s) = Piece(u, b + 2 + i, b + 2 + n)
  BY DashAtEnd
<1>2. i \in 0..n /\ n \in i..n
  <2>1. n \in Nat
    BY PartNumbers
  <2>2. QED
    BY <2>1
<1>3. Filling(Extended(st, Piece(u, b + 2 + i, b + 2 + n)), u, q, n, R)
  BY <1>2, MoreComes
<1>4. Between(FinishCurrentPart(new), u, q, R)
  BY <1>1, <1>3, Finishing
<1>5. st.target # NoFile
  BY DEF Filling
<1>6. HandleFirst(st, s, known) = FinishCurrentPart(new)
  <2> HIDE DEF s
  <2>1. ~Blank(s)
    BY DEF s
  <2>2. QED
    BY <1>5, <2>1 DEF HandleFirst, WriteLastBlock, Extended
<1>7. QED
  BY <1>4, <1>6

\* A part from beginning to end.
LEMMA CompletePart ==
    ASSUME NEW u \in Upload, NEW q \in 1..Len(Sizes[u]), NEW R, NEW known, clock \in Nat,
           NEW st, Between(st, u, q - 1, R)
    PROVE  Between(WriteData(st, Piece(u, Start(u)[q], Start(u)[q + 1] - 2), TRUE, known), u, q, R)
<1> DEFINE b == Start(u)[q]
           n == Sizes[u][q]
           e == Start(u)[q + 1] - 2
           all == Piece(u, b, e)
           opened == OpenedWith(st, Piece(u, b, e), TRUE, known)
           new == WriteData(st, all, TRUE, known)
<1>1. b \in Nat /\ n \in Nat /\ 0 \in 0..n
  BY PartNumbers
<1>2. /\ e = b + 3 + n /\ e \in Nat /\ e <= Len(Body(u)) /\ b + 2 < e
      /\ WithoutDash(Piece(u, b + 2, e)) = Piece(u, b + 2, b + 2 + n)
  <2>1. b + 2 + 0 = b + 2
    BY <1>1
  <2>2. /\ e = b + 3 + n /\ b + 3 + n \in Nat /\ b + 3 + n <= Len(Body(u)) /\ b + 2 < b + 3 + n
        /\ WithoutDash(Piece(u, b + 2 + 0, e)) = Piece(u, b + 2 + 0, b + 2 + n)
    BY <1>1, DashAtEnd
  <2> HIDE DEF b, n, e
  <2>3. QED
    BY <2>1, <2>2
<1>3. /\ st \in ParserStates /\ st.target = NoFile /\ st.analyze = <<>>
      /\ st.fileId = q - 1 /\ DoneParts(st, u, q - 1, R)
  BY DEF Between
<1> HIDE DEF e
<1>4. /\ all # <<>> /\ HeaderLength(all) # Len(all)
      /\ Opened(opened, u, q, FirstData(Piece(u, b + 2, e), TRUE), R)
  BY <1>1, <1>2, <1>3, Opening
<1>5. all \in Seq(Token)
  BY <1>1, <1>2, PieceIs
<1> HIDE DEF b, n
<1>6. FirstData(Piece(u, b + 2, e), TRUE) = Piece(u, b + 2, b + 2 + n)
  BY <1>2 DEF FirstData
<1>7. new = FinishCurrentPart(opened)
  <2>1. <<>> \o all = all
    BY <1>5
  <2>2. new = OpenPart(st, all, TRUE, known)
    BY <1>3, <1>4, <2>1, NotFull DEF WriteData
  <2>3. QED
    BY <2>2, OpenedIs
<1> HIDE DEF opened
<1>8. Filling(opened, u, q, n, R)
  BY <1>4, <1>6 DEF Filling, Opened, b, n
<1>9. Between(FinishCurrentPart(opened), u, q, R)
  BY <1>8, Finishing DEF n
<1>10. QED
  BY <1>7, <1>9 DEF new, all, b, e

\* Where the handler may stand when a chunk was handled, and what it knows there.
AtPlace(st, u, i, R) ==
    \/ i = 0 /\ Between(st, u, 0, R)
    \/ \E q \in 1..(Len(Sizes[u]) + 1) : i = Start(u)[q] /\ Between(st, u, q - 1, R)
    \/ \E q \in 1..Len(Sizes[u]) : i = Start(u)[q] + 2 /\ Waiting(st, u, q, R)
    \/ \E q \in 1..Len(Sizes[u]) : \E j \in 1..Sizes[u][q] :
          i = Start(u)[q] + 2 + j /\ Filling(st, u, q, j, R)
    \/ i = Len(Body(u)) /\ Between(st, u, Len(Sizes[u]), R)

\* A cut in a part that leaves boundaries and headers whole is in or before its data.
LEMMA PlaceInPart ==
    ASSUME NEW u \in Upload, NEW q \in 1..Len(Sizes[u]), NEW e \in Nat,
           Start(u)[q] < e, e < Start(u)[q + 1], Body(u)[e].kind \notin {"dash", "b1", "h1"}
    PROVE  \E j \in 0..Sizes[u][q] : e = Start(u)[q] + 2 + j
<1> DEFINE b == Start(u)[q]
           n == Sizes[u][q]
           m == Start(u)[q + 1]
<1>1. b \in Nat /\ n \in Nat /\ m = b + 5 + n /\ b < e /\ e < m
  BY PartNumbers
<1>2. /\ Body(u)[b + 1] = Tok("h1", q) /\ Body(u)[m - 2] = Tok("dash", 0)
      /\ Body(u)[m - 1] = Tok("b1", 0)
  BY BodyShape DEF Shape
<1>3. /\ Tok("h1", q).kind = "h1" /\ Tok("dash", 0).kind = "dash" /\ Tok("b1", 0).kind = "b1"
  BY DEF Tok
<1> HIDE DEF b, n, m
<1>4. e # b + 1 /\ e # m - 2 /\ e # m - 1
  BY <1>2, <1>3
<1> DEFINE j == e - b - 2
<1>5. j \in 0..n /\ e = b + 2 + j
  BY <1>1, <1>4
<1> HIDE DEF j
<1>6. QED
  BY <1>5 DEF b, n

\* A cut right behind a header is not behind a long one.
LEMMA LongIsSeen ==
    ASSUME NEW u \in Upload, NEW q \in 1..Len(Sizes[u]), NEW j \in Nat, NEW e \in Nat,
           e = Start(u)[q] + 2 + j, Body(u)[e].kind = "h2" => Body(u)[e].part \notin Long
    PROVE  j = 0 => q \notin Long
<1>1. Start(u)[q] \in Nat /\ Body(u)[Start(u)[q] + 2] = Tok("h2", q)
  BY PartNumbers, BodyShape DEF Shape
<1>2. ASSUME j = 0 PROVE q \notin Long
  <2>1. e = Start(u)[q] + 2
    BY <1>1, <1>2
  <2>2. QED
    BY <1>1, <2>1 DEF Tok
<1>3. QED
  BY <1>2

\* A chunk without a boundary, cut where the handler can stand it.
LEMMA DataStep ==
    ASSUME NEW u \in Upload, NEW R, NEW known, clock \in Nat, NEW st,
           NEW a \in Nat, NEW e \in Nat, a < e, e <= Len(Body(u)), AtPlace(st, u, a, R),
           \A q \in 1..(Len(Sizes[u]) + 1) : ~(a + 2 <= Start(u)[q] /\ Start(u)[q] <= e),
           Body(u)[e].kind \notin {"dash", "b1", "h1", "end"},
           Body(u)[e].kind = "h2" => Body(u)[e].part \notin Long
    PROVE  AtPlace(WriteData(st, Piece(u, a, e), FALSE, known), u, e, R)
<1> DEFINE N == Len(Sizes[u])
           s == Start(u)
           l == Len(Body(u))
           c == Piece(u, a, e)
           new == WriteData(st, c, FALSE, known)
<1>1. /\ N \in Nat /\ l \in Nat /\ 1 \in 1..(N + 1) /\ s[1] = 3 /\ N + 1 \in 1..(N + 1)
      /\ l = s[N + 1] + 1 /\ \A q \in 1..(N + 1) : s[q] \in Nat
  BY Starts, BodyShape DEF Shape
<1>2. ASSUME NEW q \in 1..N, a < s[q + 1] - 1, s[q] < e
      PROVE  \E j \in 0..Sizes[u][q] : e = s[q] + 2 + j
  <2>1. q + 1 \in 1..(N + 1) /\ s[q + 1] \in Nat
    BY <1>1
  <2>2. ~(a + 2 <= s[q + 1] /\ s[q + 1] <= e)
    BY <2>1
  <2>3. e < s[q + 1]
    BY <1>2, <2>1, <2>2
  <2>4. QED
    BY <1>2, <2>3, PlaceInPart
<1>3. ASSUME a = 0 PROVE FALSE
  <2>1. ~(a + 2 <= s[1] /\ s[1] <= e)
    BY <1>1
  <2>2. e = 1 \/ e = 2
    BY <1>1, <1>3, <2>1
  <2>3. Body(u)[1] = Tok("dash", 0) /\ Body(u)[2] = Tok("b1", 0)
    BY BodyShape DEF Shape
  <2>4. Tok("dash", 0).kind = "dash" /\ Tok("b1", 0).kind = "b1"
    BY DEF Tok
  <2>5. QED
    BY <2>2, <2>3, <2>4
<1>4. ASSUME NEW q \in 1..(N + 1), a = s[q], Between(st, u, q - 1, R) PROVE AtPlace(new, u, e, R)
  <2>1. CASE q = N + 1
    <3>1. a + 1 = l /\ e = a + 1
      BY <1>1, <1>4, <2>1
    <3>2. Body(u)[e].kind = "end"
      <4>1. Body(u)[s[N + 1] + 1] = Tok("end", 0)
        BY BodyShape DEF Shape
      <4>2. QED
        BY <1>4, <2>1, <3>1, <4>1 DEF Tok
    <3>3. QED
      BY <3>2
  <2>2. CASE q # N + 1
    <3>1. q \in 1..N /\ q + 1 \in 1..(N + 1)
      BY <1>1, <2>2
    <3>2. a < s[q + 1] - 1 /\ s[q] < e
      <4> DEFINE v == s[q + 1]
                 w == s[q]
                 n == Sizes[u][q]
      <4>1. v = w + 5 + n /\ n \in Nat /\ w \in Nat /\ a = w
        BY <1>4, <3>1, PartNumbers
      <4> HIDE DEF v, w, n
      <4>2. a < v - 1 /\ w < e
        BY <4>1
      <4>3. QED
        BY <4>2 DEF v, w
    <3>3. PICK j \in 0..Sizes[u][q] : e = s[q] + 2 + j
      BY <1>2, <3>1, <3>2
    <3>8. j = 0 => q \notin Long
      BY <3>1, <3>3, LongIsSeen
    <3>4. IF j = 0 THEN Waiting(new, u, q, R) ELSE Filling(new, u, q, j, R)
      BY <1>4, <3>1, <3>3, <3>8, HeaderComes
    <3> HIDE DEF new
    <3>5. CASE j = 0
      <4>1. e = s[q] + 2
        BY <1>4, <3>3, <3>5
      <4>2. QED
        BY <3>1, <3>4, <3>5, <4>1 DEF AtPlace
    <3>6. CASE j # 0
      <4>1. j \in 1..Sizes[u][q]
        BY <3>6
      <4>2. QED
        BY <3>1, <3>3, <3>4, <3>6, <4>1 DEF AtPlace
    <3>7. QED
      BY <3>5, <3>6
  <2>3. QED
    BY <2>1, <2>2
<1>5. ASSUME NEW q \in 1..N, NEW i \in 0..Sizes[u][q], a = s[q] + 2 + i,
             \A j \in i..Sizes[u][q] : i < j /\ e = s[q] + 2 + j => Filling(new, u, q, j, R)
      PROVE  AtPlace(new, u, e, R)
  <2> DEFINE v == s[q + 1]
             w == s[q]
             n == Sizes[u][q]
  <2>1. v = w + 5 + n /\ n \in Nat /\ w \in Nat /\ i \in 0..n
    BY PartNumbers
  <2>2. a = w + 2 + i
    BY <1>5
  <2> HIDE DEF new, v, w, n
  <2>3. a < v - 1 /\ w < e
    BY <2>1, <2>2
  <2>4. PICK j \in 0..n : e = w + 2 + j
    BY <1>2, <2>3 DEF v, w, n
  <2>5. i < j /\ j \in i..n /\ j \in 1..n
    BY <2>1, <2>2, <2>4
  <2>6. Filling(new, u, q, j, R)
    BY <1>5, <2>4, <2>5 DEF w, n
  <2>7. QED
    BY <2>4, <2>5, <2>6 DEF AtPlace, w, n
<1>6. ASSUME NEW q \in 1..N, a = s[q] + 2, Waiting(st, u, q, R) PROVE AtPlace(new, u, e, R)
  <2>1. s[q] \in Nat /\ Sizes[u][q] \in Nat
    BY PartNumbers
  <2>2. 0 \in 0..Sizes[u][q] /\ a = s[q] + 2 + 0
    BY <1>6, <2>1
  <2>3. ASSUME NEW j \in 0..Sizes[u][q], 0 < j, e = s[q] + 2 + j PROVE Filling(new, u, q, j, R)
    <3>1. j \in 1..Sizes[u][q]
      BY <2>3
    <3>2. QED
      BY <1>6, <2>3, <3>1, DataComes
  <2> HIDE DEF new
  <2>4. QED
    BY <1>5, <2>2, <2>3
<1>7. ASSUME NEW q \in 1..N, NEW i \in 1..Sizes[u][q], a = s[q] + 2 + i, Filling(st, u, q, i, R)
      PROVE  AtPlace(new, u, e, R)
  <2>1. Sizes[u][q] \in Nat
    BY PartNumbers
  <2>2. i \in 0..Sizes[u][q]
    BY <2>1
  <2>3. ASSUME NEW j \in i..Sizes[u][q], i < j, e = s[q] + 2 + j PROVE Filling(new, u, q, j, R)
    <3>1. new = Extended(st, c)
      BY <1>7 DEF WriteData, Extended, Filling
    <3>2. Filling(Extended(st, Piece(u, s[q] + 2 + i, s[q] + 2 + j)), u, q, j, R)
      BY <1>7, <2>2, MoreComes
    <3>3. QED
      BY <1>7, <2>3, <3>1, <3>2
  <2> HIDE DEF new
  <2>4. QED
    BY <1>5, <1>7, <2>2, <2>3
<1>8. a # l
  BY <1>1
<1> HIDE DEF new
<1>9. \/ a = 0
      \/ \E q \in 1..(N + 1) : a = s[q] /\ Between(st, u, q - 1, R)
      \/ \E q \in 1..N : a = s[q] + 2 /\ Waiting(st, u, q, R)
      \/ \E q \in 1..N : \E j \in 1..Sizes[u][q] : a = s[q] + 2 + j /\ Filling(st, u, q, j, R)
      \/ a = l
  BY DEF AtPlace
<1>10. AtPlace(new, u, e, R)
  BY <1>3, <1>4, <1>6, <1>7, <1>8, <1>9
<1>11. QED
  BY <1>10 DEF new, c

\* What a chunk with a boundary begins with: afterwards the part before the boundary
\* is finished.
LEMMA FirstOfChunk ==
    ASSUME NEW u \in Upload, NEW R, NEW known, NEW st,
           NEW a \in Nat, NEW e \in Nat, a < e, e <= Len(Body(u)), AtPlace(st, u, a, R),
           NEW k \in 1..(Len(Sizes[u]) + 1), a + 2 <= Start(u)[k], Start(u)[k] <= e,
           \A q \in 1..(Len(Sizes[u]) + 1) : a + 2 <= Start(u)[q] /\ Start(u)[q] <= e => k <= q,
           st.target = NoFile => st.analyze = <<>>,
           st.target = NoFile <=> Blank(Piece(u, a, Start(u)[k] - 2))
    PROVE  LET first == HandleFirst(st, Piece(u, a, Start(u)[k] - 2), known)
           IN  Between(first, u, k - 1, R)
<1> DEFINE N == Len(Sizes[u])
           s == Start(u)
           l == Len(Body(u))
           c == Piece(u, a, s[k] - 2)
           first == HandleFirst(st, c, known)
<1>1. /\ N \in Nat /\ l \in Nat /\ 1 \in 1..(N + 1) /\ s[1] = 3
      /\ l = s[N + 1] + 1 /\ \A q \in 1..(N + 1) : s[q] \in Nat
      /\ \A q \in 1..(N + 1) : \A r \in 1..(N + 1) : q < r => s[q] + 5 <= s[r]
      /\ \A q \in 1..(N + 1) : s[q] < l
  <2>1. N \in Nat /\ l \in Nat /\ s[1] = 3 /\ l = s[N + 1] + 1
    BY Starts
  <2>2. 1 \in 1..(N + 1)
    BY <2>1
  <2>3. \A q \in 1..(N + 1) : s[q] \in Nat /\ s[q] < l
    BY Starts
  <2>4. \A q \in 1..(N + 1) : \A r \in 1..(N + 1) : q < r => s[q] + 5 <= s[r]
    BY Starts
  <2> HIDE DEF N, l, s
  <2>5. QED
    BY <2>1, <2>2, <2>3, <2>4
<1>2. ASSUME st.target = NoFile PROVE first = st
  BY <1>2 DEF HandleFirst, WriteLastBlock
<1>3. ASSUME a = 0, Between(st, u, 0, R) PROVE Between(first, u, k - 1, R)
  <2>1. k = 1
    <3>1. 3 <= s[k]
      <4>1. k = 1 \/ 1 < k
        OBVIOUS
      <4>2. 1 < k => s[1] + 5 <= s[k]
        BY <1>1
      <4>3. s[k] \in Nat
        BY <1>1
      <4>4. QED
        BY <1>1, <4>1, <4>2, <4>3
    <3>2. a + 2 <= s[1] /\ s[1] <= e
      BY <1>1, <1>3, <3>1
    <3>3. k <= 1
      BY <1>1, <3>2
    <3>4. QED
      BY <3>3
  <2>2. first = st /\ k - 1 = 0
    BY <1>2, <1>3, <2>1 DEF Between
  <2>3. QED
    BY <1>3, <2>2
<1>4. ASSUME NEW q \in 1..(N + 1), a = s[q], Between(st, u, q - 1, R) PROVE FALSE
  <2>1. ~(k <= q)
    <3>1. k < q => s[k] + 5 <= s[q]
      BY <1>1
    <3>2. s[k] \in Nat /\ s[q] \in Nat /\ a + 2 <= s[k]
      BY <1>1
    <3>3. k = q \/ k < q \/ q < k
      OBVIOUS
    <3>4. QED
      BY <1>4, <3>1, <3>2, <3>3
  <2> DEFINE x == s[q]
             y == s[k]
             f == y - 2
  <2>2. x + 5 <= y /\ y \in Nat /\ y < l /\ x \in Nat
    BY <1>1, <2>1
  <2>8. a = x /\ l \in Nat
    BY <1>1, <1>4
  <2> HIDE DEF x, y, l
  <2>3. f \in Nat /\ f <= l /\ a < f /\ f - a > 1
    BY <2>2, <2>8
  <2> HIDE DEF f
  <2>4. /\ Piece(u, a, f) \in Seq(Token) /\ Len(Piece(u, a, f)) = f - a
        /\ 1 \in 1..(f - a) /\ Piece(u, a, f)[1] = Body(u)[a + 1]
    BY <2>3, PieceIs DEF l
  <2>9. Body(u)[a + 1].kind = "h1"
    <3>1. q \in 1..N
      BY <1>1, <2>1
    <3>2. Body(u)[s[q] + 1] = Tok("h1", q)
      BY <3>1, BodyShape DEF Shape
    <3>3. QED
      BY <1>4, <3>2 DEF Tok
  <2>5. ~Blank(Piece(u, a, f))
    <3> DEFINE c1 == Piece(u, a, f)
    <3>1. c1 \in Seq(Token) /\ 1 \in 1..Len(c1) /\ c1[1].kind = "h1"
      BY <2>4, <2>9
    <3> HIDE DEF c1
    <3>2. ~Blank(c1)
      BY <3>1, BlankIs
    <3>3. QED
      BY <3>2 DEF c1
  <2>6. st.target = NoFile
    BY <1>4 DEF Between
  <2>7. QED
    BY <2>5, <2>6 DEF f, y
<1>5. ASSUME NEW q \in 1..N, Waiting(st, u, q, R) PROVE FALSE
  <2> DEFINE b == s[q]
             d == b + 2
  <2>1. b \in Nat /\ d \in Nat /\ b < d /\ d <= l
    <3> DEFINE n == Sizes[u][q]
    <3>1. b \in Nat /\ n \in Nat /\ l \in Nat /\ b + 5 + n < l
      BY PartNumbers
    <3> HIDE DEF b, n, l
    <3>2. QED
      BY <3>1
  <2>2. st.target = NoFile /\ st.analyze = Piece(u, b, d)
    BY <1>5 DEF Waiting
  <2> HIDE DEF b, d
  <2>3. Piece(u, b, d) # <<>>
    BY <2>1, EndOfPiece
  <2>4. QED
    BY <2>2, <2>3
<1>6. ASSUME NEW q \in 1..N, NEW i \in 1..Sizes[u][q], a = s[q] + 2 + i, Filling(st, u, q, i, R)
      PROVE  Between(first, u, k - 1, R)
  <2>1. /\ Sizes[u][q] \in Nat /\ s[q] \in Nat /\ s[q + 1] = s[q] + 5 + Sizes[u][q]
        /\ q \in 1..(N + 1) /\ q + 1 \in 1..(N + 1)
    <3>1. /\ Sizes[u][q] \in Nat /\ s[q] \in Nat /\ s[q + 1] = s[q] + 5 + Sizes[u][q]
      BY PartNumbers
    <3>2. N \in Nat
      BY <1>1
    <3> HIDE DEF N
    <3>3. q \in 1..(N + 1) /\ q + 1 \in 1..(N + 1)
      BY <3>2
    <3>4. QED
      BY <3>1, <3>3
  <2>2. k = q + 1
    <3> DEFINE b == s[q]
               d == s[q + 1]
               f == s[k]
               n == Sizes[u][q]
    <3>0. /\ f \in Nat /\ a + 2 <= f /\ f <= e /\ d \in Nat /\ b \in Nat /\ n \in Nat
          /\ d = b + 5 + n /\ a = b + 2 + i /\ i \in 1..n
      BY <1>1, <1>6, <2>1
    <3>1. s[k] \in Nat /\ a + 2 <= s[k] /\ s[k] <= e /\ s[q + 1] \in Nat
      BY <3>0
    <3>2. ~(k <= q)
      <4>1. k < q => s[k] + 5 <= s[q]
        BY <1>1, <2>1
      <4>2. k = q \/ k < q \/ q < k
        OBVIOUS
      <4>3. ~(f + 5 <= b) /\ f # b
        <5> HIDE DEF b, d, f, n
        <5>1. QED
          BY <3>0
      <4>4. QED
        BY <4>1, <4>2, <4>3
    <3>3. s[q + 1] <= s[k]
      <4>1. q + 1 = k \/ q + 1 < k
        BY <3>2
      <4>2. q + 1 < k => s[q + 1] + 5 <= s[k]
        BY <1>1, <2>1
      <4>3. QED
        BY <3>1, <4>1, <4>2
    <3>4. a + 2 <= s[q + 1] /\ s[q + 1] <= e
      <4>1. d <= f
        BY <3>3
      <4> HIDE DEF b, d, f, n
      <4>2. a + 2 <= d /\ d <= e
        BY <3>0, <4>1
      <4>3. QED
        BY <4>2 DEF d
    <3>5. k <= q + 1
      BY <2>1, <3>4
    <3>6. QED
      BY <3>2, <3>5
  <2>3. st.target # NoFile
    BY <1>6 DEF Filling
  <2>4. ~Blank(Piece(u, s[q] + 2 + i, s[q + 1] - 2))
    BY <1>6, <2>2, <2>3
  <2>5. i \in 0..Sizes[u][q]
    BY <2>1
  <2>6. Between(HandleFirst(st, Piece(u, s[q] + 2 + i, s[q + 1] - 2), known), u, q, R)
    BY <1>6, <2>4, <2>5, FillsUp
  <2>7. k - 1 = q
    BY <2>2
  <2>8. QED
    BY <1>6, <2>2, <2>6, <2>7
<1>7. a # l
  BY <1>1
<1> HIDE DEF first
<1>8. Between(first, u, k - 1, R)
  BY <1>3, <1>4, <1>5, <1>6, <1>7 DEF AtPlace, N, s, l
<1>9. QED
  BY <1>8 DEF first, c, s

\* What is left over when a chunk with boundaries ends, after the parts before it.
LEMMA RestOfChunk ==
    ASSUME NEW u \in Upload, NEW R, NEW known, clock \in Nat, NEW st,
           NEW e \in Nat, e <= Len(Body(u)), NEW m \in 1..(Len(Sizes[u]) + 1),
           Between(st, u, m - 1, R), Start(u)[m] <= e,
           m <= Len(Sizes[u]) => e < Start(u)[m + 1],
           Body(u)[e].kind \notin {"dash", "b1", "h1"},
           Body(u)[e].kind = "h2" => Body(u)[e].part \notin Long
    PROVE  LET rest == Piece(u, Start(u)[m], e)
           IN  AtPlace(IF Blank(rest) THEN st ELSE WriteData(st, rest, FALSE, known), u, e, R)
<1> DEFINE N == Len(Sizes[u])
           b == Start(u)[m]
           l == Len(Body(u))
           rest == Piece(u, b, e)
           wrote == WriteData(st, rest, FALSE, known)
<1>1. b \in Nat /\ N \in Nat /\ l \in Nat /\ l = Start(u)[N + 1] + 1 /\ b <= e /\ e <= l
  BY Starts, BodyShape DEF Shape
<1>2. /\ rest \in Seq(Token) /\ Len(rest) = IF b < e THEN e - b ELSE 0
      /\ \A i \in 1..(e - b) : rest[i] = Body(u)[b + i]
  <2>1. b \in Nat /\ e <= l
    BY <1>1
  <2> HIDE DEF b
  <2>2. rest \in Seq(Token)
    BY <2>1, PieceIs
  <2>3. Len(rest) = IF b < e THEN e - b ELSE 0
    BY <2>1, PieceIs
  <2>4. \A i \in 1..(e - b) : rest[i] = Body(u)[b + i]
    BY <2>1, PieceIs
  <2>5. QED
    BY <2>2, <2>3, <2>4
<1>3. CASE e = b
  <2>1. Blank(rest)
    <3>1. Len(rest) = 0
      BY <1>1, <1>2, <1>3
    <3> HIDE DEF rest
    <3>2. QED
      BY <1>2, <3>1, BlankIs
  <2>2. AtPlace(st, u, e, R)
    BY <1>3 DEF AtPlace
  <2>3. QED
    BY <2>1, <2>2
<1>4. CASE e # b /\ m = N + 1
  <2>1. e = l /\ e = b + 1
    BY <1>1, <1>4
  <2>2. Body(u)[b + 1].kind = "end"
    <3>1. Body(u)[Start(u)[N + 1] + 1] = Tok("end", 0)
      BY BodyShape DEF Shape
    <3>2. QED
      BY <1>4, <3>1 DEF Tok
  <2>3. Blank(rest)
    <3>1. b < e /\ e - b = 1 /\ 1 \in 1..(e - b)
      BY <1>1, <2>1
    <3>2. Len(rest) = 1 /\ rest[1].kind = "end"
      BY <1>2, <2>2, <3>1
    <3> HIDE DEF rest
    <3>3. QED
      BY <1>2, <3>2, BlankIs
  <2>4. m - 1 = N
    BY <1>1, <1>4
  <2>5. AtPlace(st, u, e, R)
    BY <2>1, <2>4 DEF AtPlace
  <2>6. QED
    BY <2>3, <2>5
<1>5. CASE e # b /\ m # N + 1
  <2>1. m \in 1..N /\ b < e
    BY <1>1, <1>5
  <2>2. PICK j \in 0..Sizes[u][m] : e = b + 2 + j
    BY <2>1, PlaceInPart
  <2>3. j \in Nat
    BY <2>1, PartNumbers
  <2>4. ~Blank(rest)
    <3>1. 1 \in 1..(e - b) /\ Body(u)[b + 1] = Tok("h1", m)
      BY <1>1, <2>1, BodyShape DEF Shape
    <3>2. 1 \in 1..Len(rest) /\ rest[1].kind = "h1"
      BY <1>2, <2>1, <3>1 DEF Tok
    <3> HIDE DEF rest
    <3>3. QED
      BY <1>2, <3>2, BlankIs
  <2>8. j = 0 => m \notin Long
    BY <2>1, <2>2, <2>3, LongIsSeen
  <2>5. IF j = 0 THEN Waiting(wrote, u, m, R) ELSE Filling(wrote, u, m, j, R)
    BY <2>1, <2>2, <2>8, HeaderComes
  <2> HIDE DEF wrote
  <2>6. AtPlace(wrote, u, e, R)
    <3>1. CASE j = 0
      <4>1. e = Start(u)[m] + 2
        BY <1>1, <2>2, <3>1
      <4>2. QED
        BY <2>1, <2>5, <3>1, <4>1 DEF AtPlace
    <3>2. CASE j # 0
      <4>1. j \in 1..Sizes[u][m]
        BY <3>2
      <4>2. QED
        BY <2>1, <2>2, <2>5, <3>2, <4>1 DEF AtPlace
    <3>3. QED
      BY <3>1, <3>2
  <2>7. QED
    BY <2>4, <2>6 DEF wrote
<1>6. QED
  BY <1>3, <1>4, <1>5

\* The complete parts of a chunk, one after the other.
LEMMA PartsComplete ==
    ASSUME NEW u \in Upload, NEW R, NEW known, clock \in Nat,
           NEW st \in ParserStates, NEW files0, NEW own, own \subseteq DOMAIN files0,
           KeepsToItself(st, files0, own, known),
           NEW k \in 1..(Len(Sizes[u]) + 1), NEW m \in k..(Len(Sizes[u]) + 1),
           Between(st, u, k - 1, R),
           NEW between \in Seq(Seq(Token)), Len(between) = m - k,
           \A r \in 1..(m - k) : between[r] = Piece(u, Start(u)[k + r - 1], Start(u)[k + r] - 2)
    PROVE  Between(WriteParts(st, between, known), u, m - 1, R)
<1> DEFINE d == m - k
<1>1. d \in Nat /\ Len(Sizes[u]) \in Nat /\ k \in Nat /\ m \in Nat /\ k >= 1 /\ m <= Len(Sizes[u]) + 1
  BY SizesAre
<1>2. PICK written \in [0..Len(between) -> ParserStates] :
        /\ WriteParts(st, between, known) = written[Len(between)]
        /\ written[0] = st
        /\ \A n \in 1..Len(between) : written[n] = WriteData(written[n - 1], between[n], TRUE, known)
        /\ \A n \in 0..Len(between) : KeepsToItself(written[n], files0, own, known)
  <2> HIDE DEF d
  <2>1. QED
    BY PartsWritten
<1> DEFINE S == {n \in 0..d : Between(written[n], u, k - 1 + n, R)}
<1>3. 0 \in S
  <2>1. 0 \in 0..d /\ k - 1 + 0 = k - 1
    BY <1>1
  <2>2. QED
    BY <1>2, <2>1
<1>4. ASSUME NEW n \in 0..d, n \in S, n < d PROVE n + 1 \in S
  <2> DEFINE q == k + n
  <2>1. /\ q \in 1..Len(Sizes[u]) /\ n + 1 \in 1..d /\ n + 1 \in 0..d /\ (n + 1) - 1 = n
        /\ k + (n + 1) - 1 = q /\ k + (n + 1) = q + 1
        /\ k - 1 + n = q - 1 /\ k - 1 + (n + 1) = q
    <3> DEFINE N == Len(Sizes[u])
    <3>1. d = m - k /\ n \in Nat /\ n < d
      BY <1>1, <1>4
    <3>2. N \in Nat /\ k \in Nat /\ m \in Nat /\ d \in Nat /\ k >= 1 /\ m <= N + 1
      BY <1>1
    <3> HIDE DEF N, d
    <3>3. /\ q \in 1..N /\ n + 1 \in 1..d /\ n + 1 \in 0..d /\ (n + 1) - 1 = n
          /\ k + (n + 1) - 1 = q /\ k + (n + 1) = q + 1
          /\ k - 1 + n = q - 1 /\ k - 1 + (n + 1) = q
      BY <3>1, <3>2
    <3>4. QED
      BY <3>3 DEF N
  <2>2. between[n + 1] = Piece(u, Start(u)[q], Start(u)[q + 1] - 2)
    BY <2>1
  <2>3. written[n + 1] = WriteData(written[n], between[n + 1], TRUE, known)
    BY <1>2, <2>1
  <2>4. Between(written[n], u, q - 1, R)
    BY <1>4, <2>1
  <2> HIDE DEF q
  <2>5. Between(written[n + 1], u, q, R)
    BY <2>1, <2>2, <2>3, <2>4, CompletePart
  <2>6. QED
    BY <2>1, <2>5
<1> HIDE DEF S
<1>5. \A n \in 0..d : n \in S
  BY <1>1, <1>3, <1>4, UpTo
<1>6. d \in 0..d /\ k - 1 + d = m - 1
  BY <1>1
<1>7. Between(written[d], u, k - 1 + d, R)
  BY <1>5, <1>6 DEF S
<1>8. QED
  BY <1>2, <1>6, <1>7

\* Without parts, nothing is written.
LEMMA NoPartsWritten ==
    ASSUME NEW st \in ParserStates, NEW between \in Seq(Seq(Token)), NEW known, clock \in Nat,
           NEW files0, NEW own, own \subseteq DOMAIN files0,
           KeepsToItself(st, files0, own, known)
    PROVE  Len(between) = 0 => WriteParts(st, between, known) = st
<1>1. PICK written \in [0..Len(between) -> ParserStates] :
        /\ WriteParts(st, between, known) = written[Len(between)]
        /\ written[0] = st
        /\ \A n \in 1..Len(between) : written[n] = WriteData(written[n - 1], between[n], TRUE, known)
        /\ \A n \in 0..Len(between) : KeepsToItself(written[n], files0, own, known)
  BY PartsWritten
<1>2. QED
  BY <1>1

\* A chunk is handled: cut where the handler can stand it, everything before the cut
\* is where it belongs.
LEMMA ChunkStep ==
    ASSUME NEW u \in Upload, NEW R, NEW known, clock \in Nat,
           NEW st \in ParserStates, NEW files0, NEW own, own \subseteq DOMAIN files0,
           KeepsToItself(st, files0, own, known), st.target = target[u], st.analyze = analyze[u],
           NEW a \in Nat, NEW e \in Nat, a < e, e <= Len(Body(u)), AtPlace(st, u, a, R),
           StandsCut(u, Piece(u, a, e))
    PROVE  AtPlace(OnData(st, Piece(u, a, e), known), u, e, R)
<1> DEFINE N == Len(Sizes[u])
           s == Start(u)
           c == Piece(u, a, e)
           splits == SplitChunk(c)
<1>1. /\ N \in Nat /\ \A q \in 1..(N + 1) : s[q] \in Nat /\ s[q] < Len(Body(u)) /\ Len(Body(u)) \in Nat
      /\ \A q \in 1..(N + 1) : \A r \in 1..(N + 1) : q < r => s[q] + 5 <= s[r]
  BY Starts
<1>2. Last(c) = Body(u)[e] /\ c # <<>> /\ c \in Seq(Token)
  BY EndOfPiece, PieceIs
<1>3. /\ Body(u)[e].kind \notin {"dash", "b1", "h1"}
      /\ Body(u)[e].kind = "h2" => Body(u)[e].part \notin Long
      /\ splits = <<>> => Body(u)[e].kind # "end"
      /\ splits # <<>> => /\ st.target = NoFile => st.analyze = <<>>
                          /\ st.target = NoFile <=> Blank(Head(splits))
                          /\ Blank(Last(splits)) \/ Len(splits) = 2
  BY <1>2 DEF StandsCut
<1>4. \/ /\ splits = <<>>
         /\ \A q \in 1..(N + 1) : ~(a + 2 <= s[q] /\ s[q] <= e)
      \/ \E k \in 1..(N + 1) : \E m \in 1..(N + 1) :
            /\ k <= m
            /\ \A q \in 1..(N + 1) : a + 2 <= s[q] /\ s[q] <= e <=> k <= q /\ q <= m
            /\ splits = SplitFrom(u, a, e, k, m)
  BY ChunkIsSplit
<1>5. CASE splits = <<>> /\ \A q \in 1..(N + 1) : ~(a + 2 <= s[q] /\ s[q] <= e)
  <2>1. OnData(st, c, known) = WriteData(st, c, FALSE, known)
    BY <1>5 DEF OnData
  <2>2. Body(u)[e].kind \notin {"dash", "b1", "h1", "end"}
    BY <1>3, <1>5
  <2>3. AtPlace(WriteData(st, c, FALSE, known), u, e, R)
    BY <1>3, <1>5, <2>2, DataStep
  <2>4. QED
    BY <2>1, <2>3
<1>6. ASSUME NEW k \in 1..(N + 1), NEW m \in 1..(N + 1), k <= m,
             \A q \in 1..(N + 1) : a + 2 <= s[q] /\ s[q] <= e <=> k <= q /\ q <= m,
             splits = SplitFrom(u, a, e, k, m)
      PROVE  AtPlace(OnData(st, c, known), u, e, R)
  <2> DEFINE n == m - k + 2
             x(r) == IF r = 1 THEN a ELSE s[k + r - 2]
             y(r) == IF r = n THEN e ELSE s[k + r - 1] - 2
             head == Piece(u, a, s[k] - 2)
             rest == Piece(u, s[m], e)
             between == SubSeq(splits, 2, n - 1)
  <2>1. n \in Nat /\ n > 1 /\ n - 1 \in Nat /\ n - 1 <= n /\ k \in Nat /\ m \in Nat /\ m - k \in Nat
        /\ k <= m /\ N \in Nat /\ k >= 1 /\ m <= N + 1
    <3>1. N \in Nat /\ k \in 1..(N + 1) /\ m \in 1..(N + 1) /\ k <= m
      BY <1>1, <1>6
    <3> HIDE DEF N
    <3>2. QED
      BY <3>1
  <2>2. a + 2 <= s[k] /\ s[k] <= e /\ s[m] <= e /\ s[k] \in Nat /\ s[m] \in Nat
    BY <1>1, <1>6
  <2>3. ASSUME NEW r \in 1..n PROVE Piece(u, x(r), y(r)) \in Seq(Token)
    <3>1. x(r) \in Nat
      <4>1. r # 1 => k + r - 2 \in 1..(N + 1)
        BY <2>1
      <4>2. QED
        BY <1>1, <4>1
    <3>2. y(r) \in Nat /\ y(r) <= Len(Body(u))
      <4>1. r # n => k + r - 1 \in 1..(N + 1) /\ k <= k + r - 1 /\ k + r - 1 <= m
        BY <2>1
      <4>2. CASE r = n
        BY <4>2
      <4>3. CASE r # n
        <5> DEFINE v == s[k + r - 1]
        <5>1. v \in Nat /\ a + 2 <= v /\ v < Len(Body(u)) /\ y(r) = v - 2 /\ Len(Body(u)) \in Nat
          BY <1>1, <1>6, <4>1, <4>3
        <5> HIDE DEF v, y
        <5>2. QED
          BY <5>1
      <4>4. QED
        BY <4>2, <4>3
    <3> HIDE DEF x, y
    <3>3. QED
      BY <3>1, <3>2, PieceIs
  <2>4. splits = [r \in 1..n |-> Piece(u, x(r), y(r))]
    BY <1>6 DEF SplitFrom
  <2> HIDE DEF splits
  <2>5. splits \in Seq(Seq(Token)) /\ Len(splits) = n /\ \A r \in 1..n : splits[r] = Piece(u, x(r), y(r))
    <3> HIDE DEF x, y, n
    <3>1. QED
      BY <2>1, <2>3, <2>4
  <2>6. splits # <<>>
    <3>1. Len(splits) # 0
      BY <2>1, <2>5
    <3>2. QED
      BY <3>1, EmptySeq
  <2>7. Head(splits) = head
    <3>1. 1 \in 1..n /\ 1 # n /\ k + 1 - 1 = k
      BY <2>1
    <3>2. splits[1] = head
      BY <2>5, <3>1
    <3> HIDE DEF n, head
    <3>3. QED
      BY <2>5, <2>6, <3>2, HeadTailProperties
  <2>8. Last(splits) = rest
    <3>1. n \in 1..n /\ n # 1 /\ k + n - 2 = m
      BY <2>1
    <3>2. splits[n] = rest
      BY <2>5, <3>1
    <3>3. QED
      BY <2>5, <2>6, <3>2, LastAndFront
  <2>9. /\ between \in Seq(Seq(Token)) /\ Len(between) = m - k
        /\ \A r \in 1..(m - k) : between[r] = Piece(u, s[k + r - 1], s[k + r] - 2)
    <3> HIDE DEF x, y
    <3>1. /\ between \in Seq(Seq(Token))
          /\ Len(between) = IF 2 <= n - 1 THEN n - 1 - 2 + 1 ELSE 0
          /\ \A i \in 1..(n - 1 - 2 + 1) : between[i] = splits[2 + i - 1]
      <4> HIDE DEF n
      <4> DEFINE f == n - 1
      <4>1. f \in Nat /\ f <= Len(splits) /\ 2 \in Nat \ {0}
        BY <2>1, <2>5
      <4> HIDE DEF f
      <4>2. /\ SubSeq(splits, 2, f) \in Seq(Seq(Token))
            /\ Len(SubSeq(splits, 2, f)) = IF 2 <= f THEN f - 2 + 1 ELSE 0
            /\ \A i \in 1..(f - 2 + 1) : SubSeq(splits, 2, f)[i] = splits[2 + i - 1]
        BY <2>5, <4>1, PieceOf
      <4>3. QED
        BY <4>2 DEF f
    <3> HIDE DEF between
    <3>2. Len(between) = m - k
      BY <2>1, <3>1
    <3>3. ASSUME NEW r \in 1..(m - k) PROVE between[r] = Piece(u, s[k + r - 1], s[k + r] - 2)
      <4>1. /\ r \in 1..(n - 1 - 2 + 1) /\ 2 + r - 1 = r + 1 /\ r + 1 \in 1..n /\ r + 1 # 1 /\ r + 1 # n
            /\ k + (r + 1) - 2 = k + r - 1 /\ k + (r + 1) - 1 = k + r
        BY <2>1
      <4>2. between[r] = splits[r + 1]
        BY <3>1, <4>1
      <4>3. splits[r + 1] = Piece(u, x(r + 1), y(r + 1))
        BY <2>5, <4>1
      <4>4. x(r + 1) = s[k + r - 1] /\ y(r + 1) = s[k + r] - 2
        BY <4>1 DEF x, y
      <4>5. QED
        BY <4>2, <4>3, <4>4
    <3>4. QED
      BY <3>1, <3>2, <3>3
  <2> HIDE DEF x, y
  <2> DEFINE first == HandleFirst(st, head, known)
             st1 == [first EXCEPT !.analyze = <<>>]
             st2 == IF Blank(rest) THEN st1 ELSE WriteData(st1, rest, FALSE, known)
  <2>10. OnData(st, c, known) = WriteParts(st2, between, known)
    BY <2>5, <2>6, <2>7, <2>8 DEF OnData, splits
  <2>11. /\ st.target = NoFile => st.analyze = <<>>
         /\ st.target = NoFile <=> Blank(head)
         /\ Blank(rest) \/ k = m
    <3>1. n = 2 => k = m
      <4>1. ASSUME m - k + 2 = 2 PROVE k = m
        BY <2>1, <4>1
      <4>2. QED
        BY <4>1
    <3>2. QED
      BY <1>3, <2>5, <2>6, <2>7, <2>8, <3>1 DEF splits
  <2>12. Between(first, u, k - 1, R)
    <3>1. \A q \in 1..(N + 1) : a + 2 <= s[q] /\ s[q] <= e => k <= q
      BY <1>6
    <3> HIDE DEF rest, between
    <3>2. QED
      BY <2>2, <2>11, <3>1, FirstOfChunk
  <2>13. head \in Seq(Token) /\ rest \in Seq(Token)
    <3> DEFINE f == s[k] - 2
    <3>1. f \in Nat /\ f <= Len(Body(u))
      BY <1>1, <2>2
    <3> HIDE DEF f
    <3>2. Piece(u, a, f) \in Seq(Token)
      BY <3>1, PieceIs
    <3>3. QED
      BY <2>2, <3>2, PieceIs DEF f
  <2>14. first \in ParserStates /\ KeepsToItself(first, files0, own, known)
    <3> HIDE DEF head
    <3>1. QED
      BY <2>13, HandleFirstKeeps
  <2> HIDE DEF first, head
  <2>15. st1 \in ParserStates /\ KeepsToItself(st1, files0, own, known)
    BY <2>14, EmptySeq, WaitingFields, WaitingKeeps
  <2>16. Between(st1, u, k - 1, R)
    <3>1. /\ st1.analyze = <<>> /\ st1.target = first.target /\ st1.fileId = first.fileId
          /\ st1.parts = first.parts /\ st1.files = first.files
      BY <2>14, EmptySeq, WaitingFields
    <3> HIDE DEF st1
    <3>2. QED
      BY <2>12, <2>15, <3>1 DEF Between, DoneParts
  <2> HIDE DEF st1, between, n
  <2>17. m <= N => e < s[m + 1]
    <3>1. ASSUME m <= N PROVE e < s[m + 1]
      <4>1. m + 1 \in 1..(N + 1) /\ ~(m + 1 <= m) /\ m < m + 1
        BY <1>1, <3>1
      <4>2. ~(a + 2 <= s[m + 1] /\ s[m + 1] <= e)
        BY <1>6, <4>1
      <4>3. a + 2 <= s[m] /\ s[m] + 5 <= s[m + 1] /\ s[m + 1] \in Nat
        BY <1>1, <1>6, <4>1
      <4>4. QED
        BY <2>2, <4>2, <4>3
    <3>2. QED
      BY <3>1
  <2>18. CASE Blank(rest)
    <3>1. m \in k..(N + 1) /\ st2 = st1
      BY <1>6, <2>18
    <3>2. Between(WriteParts(st1, between, known), u, m - 1, R)
      BY <2>9, <2>15, <2>16, <3>1, PartsComplete
    <3> DEFINE done == WriteParts(st1, between, known)
    <3> HIDE DEF done
    <3>3. AtPlace(IF Blank(rest) THEN done ELSE WriteData(done, rest, FALSE, known), u, e, R)
      BY <1>3, <2>2, <2>17, <3>2, RestOfChunk DEF done
    <3>4. AtPlace(done, u, e, R)
      BY <2>18, <3>3
    <3>5. QED
      BY <2>10, <3>1, <3>4 DEF done
  <2>19. CASE ~Blank(rest)
    <3>1. k = m
      BY <2>11, <2>19
    <3>2. AtPlace(st2, u, e, R)
      BY <1>3, <2>2, <2>16, <2>17, <3>1, RestOfChunk
    <3>3. st2 \in ParserStates /\ KeepsToItself(st2, files0, own, known)
      <4>1. st2 = WriteData(st1, rest, FALSE, known)
        BY <2>19
      <4> HIDE DEF st2, rest
      <4>2. QED
        BY <2>13, <2>15, <4>1, WriteDataKeeps
    <3> HIDE DEF st2
    <3>4. WriteParts(st2, between, known) = st2
      <4>1. Len(between) = 0
        BY <2>1, <2>9, <3>1
      <4>2. between \in Seq(Seq(Token))
        BY <2>9
      <4> HIDE DEF between
      <4>3. QED
        BY <3>3, <4>1, <4>2, NoPartsWritten
    <3>5. QED
      BY <2>10, <3>2, <3>4
  <2>20. QED
    BY <2>18, <2>19
<1>7. QED
  BY <1>4, <1>5, <1>6

\* What is known of a parser is about its own files: it stays true while these stay as
\* they are, or are raced for.
LEMMA PlaceStays ==
    ASSUME NEW u \in Upload, NEW i, NEW R, NEW T, R \subseteq T, NEW st, AtPlace(st, u, i, R),
           NEW new \in ParserStates, new.target = st.target, new.analyze = st.analyze,
           new.current = st.current, new.fileId = st.fileId, new.parts = st.parts,
           NEW own, own \subseteq DOMAIN new.files, st.target = NoFile \/ st.target \in own,
           \A j \in DOMAIN st.parts : st.parts[j].file \in own,
           \A f \in own : f \notin T => new.files[f] = st.files[f]
    PROVE  AtPlace(new, u, i, T)
<1> DEFINE N == Len(Sizes[u])
<1>1. ASSUME NEW q \in Nat, DoneParts(st, u, q, R) PROVE DoneParts(new, u, q, T)
  <2>1. ASSUME NEW j \in 1..q
        PROVE  /\ st.parts[j].file \in DOMAIN new.files
               /\ st.parts[j].file \notin T =>
                     new.files[st.parts[j].file] = st.files[st.parts[j].file]
    <3>1. Len(st.parts) = q /\ st.parts \in Seq(Entry)
      BY <1>1, ParserFields DEF DoneParts
    <3>2. j \in DOMAIN st.parts
      BY <3>1
    <3>3. QED
      BY <3>2
  <2>2. QED
    BY <1>1, <2>1, DoneStays
<1>2. ASSUME NEW q \in Nat, Between(st, u, q, R) PROVE Between(new, u, q, T)
  BY <1>1, <1>2 DEF Between
<1>3. ASSUME NEW q \in 1..N, Waiting(st, u, q, R) PROVE Waiting(new, u, q, T)
  <2>1. q - 1 \in Nat
    BY PartNumbers
  <2>2. DoneParts(new, u, q - 1, T)
    BY <1>1, <1>3, <2>1 DEF Waiting
  <2>3. QED
    BY <1>3, <2>2 DEF Waiting
<1>4. ASSUME NEW q \in 1..N, NEW j \in 1..Sizes[u][q], Filling(st, u, q, j, R)
      PROVE  Filling(new, u, q, j, T)
  <2>1. q - 1 \in Nat
    BY PartNumbers
  <2>2. DoneParts(new, u, q - 1, T)
    BY <1>1, <1>4, <2>1 DEF Filling
  <2>3. new.target \notin T => new.files[new.target] = st.files[st.target]
    BY <1>4 DEF Filling
  <2>4. new.target \in DOMAIN new.files
    BY <1>4 DEF Filling
  <2>5. QED
    BY <1>4, <2>2, <2>3, <2>4 DEF Filling
<1>5. N \in Nat /\ 0 \in Nat /\ \A q \in 1..(N + 1) : q - 1 \in Nat
  BY SizesAre
<1>6. \/ i = 0 /\ Between(st, u, 0, R)
      \/ \E q \in 1..(N + 1) : i = Start(u)[q] /\ Between(st, u, q - 1, R)
      \/ \E q \in 1..N : i = Start(u)[q] + 2 /\ Waiting(st, u, q, R)
      \/ \E q \in 1..N : \E j \in 1..Sizes[u][q] :
            i = Start(u)[q] + 2 + j /\ Filling(st, u, q, j, R)
      \/ i = Len(Body(u)) /\ Between(st, u, N, R)
  BY DEF AtPlace
<1>7. \/ i = 0 /\ Between(new, u, 0, T)
      \/ \E q \in 1..(N + 1) : i = Start(u)[q] /\ Between(new, u, q - 1, T)
      \/ \E q \in 1..N : i = Start(u)[q] + 2 /\ Waiting(new, u, q, T)
      \/ \E q \in 1..N : \E j \in 1..Sizes[u][q] :
            i = Start(u)[q] + 2 + j /\ Filling(new, u, q, j, T)
      \/ i = Len(Body(u)) /\ Between(new, u, N, T)
  BY <1>2, <1>3, <1>4, <1>5, <1>6
<1>8. QED
  BY <1>7 DEF AtPlace

\* An upload that was cut well is where it should be, and one that ended was handled.
SmoothAreRight ==
    /\ \A u \in smooth : /\ AtPlace(ParserState(u), u, pos[u], raced)
                         /\ chunk[u] # <<>> => StandsCut(u, chunk[u])
    /\ \A u \in ended : chunk[u] = <<>> /\ pos[u] = Len(Body(u))

PartsInv == UploadInv /\ SmoothAreRight

\* It holds at first.
LEMMA PartsInvInit == UploadInit => PartsInv
<1> SUFFICES ASSUME UploadInit PROVE PartsInv
  OBVIOUS
<1>1. UploadInv
  BY UploadInvInit
<1>2. ASSUME NEW u \in smooth
      PROVE  AtPlace(ParserState(u), u, pos[u], raced) /\ chunk[u] = <<>>
  <2>1. /\ u \in Upload /\ pos[u] = 0 /\ chunk[u] = <<>> /\ target[u] = NoFile /\ analyze[u] = <<>>
        /\ fileId[u] = 0 /\ parts[u] = <<>>
    BY <1>2 DEF UploadInit
  <2> DEFINE st == ParserState(u)
  <2>2. /\ st \in ParserStates /\ st.target = NoFile /\ st.analyze = <<>> /\ st.fileId = 0
        /\ st.parts = <<>>
    BY <1>1, <2>1, ParserStateIs DEF UploadInv, ParserState
  <2> HIDE DEF st
  <2>3. DoneParts(st, u, 0, raced)
    BY <2>2 DEF DoneParts
  <2>4. Between(st, u, 0, raced)
    BY <2>2, <2>3 DEF Between
  <2>5. AtPlace(st, u, pos[u], raced)
    BY <2>1, <2>4 DEF AtPlace
  <2>6. QED
    BY <2>1, <2>5 DEF st
<1>3. ended = {}
  BY DEF UploadInit
<1>4. QED
  BY <1>1, <1>2, <1>3 DEF PartsInv, SmoothAreRight

\* A chunk that arrives keeps it: an upload whose chunk is cut badly is let go.
LEMMA ReceiveKeepsParts ==
    ASSUME PartsInv, NEW u \in Upload, NEW n \in 1..(Len(Body(u)) - pos[u]), ReceiveData(u, n)
    PROVE  SmoothAreRight'
<1>1. /\ chunk \in [Upload -> Seq(Token)] /\ smooth \subseteq Upload /\ ended \subseteq Upload
      /\ pos[u] \in Nat /\ Len(Body(u)) \in Nat
  BY Starts DEF PartsInv, UploadInv, UploadTypes
<1>2. /\ chunk' = [chunk EXCEPT ![u] = SubSeq(Body(u), pos[u] + 1, pos[u] + n)]
      /\ smooth' = IF StandsCut(u, chunk'[u]) THEN smooth ELSE smooth \ {u}
      /\ pos[u] < Len(Body(u))
      /\ UNCHANGED <<pos, analyze, target, current, fileId, parts, files, openedBy, clock, raced, ended>>
  BY DEF ReceiveData, parser
<1>3. ASSUME NEW v \in smooth'
      PROVE  /\ AtPlace(ParserState(v), v, pos[v], raced)'
             /\ chunk'[v] # <<>> => StandsCut(v, chunk[v])'
  <2>1. v \in smooth /\ v \in Upload
    BY <1>1, <1>2
  <2>2. AtPlace(ParserState(v), v, pos[v], raced)
    BY <2>1 DEF PartsInv, SmoothAreRight
  <2>3. ParserState(v)' = ParserState(v)
    BY <1>2 DEF ParserState
  <2>4. AtPlace(ParserState(v), v, pos[v], raced)'
    BY <1>2, <2>2, <2>3
  <2>5. CASE v = u
    <3>1. StandsCut(u, chunk'[u])
      BY <1>2, <2>5
    <3>2. StandsCut(u, chunk[u])'
      BY <1>2, <3>1 DEF StandsCut
    <3>3. QED
      BY <2>4, <2>5, <3>2
  <2>6. CASE v # u
    <3>1. chunk'[v] = chunk[v]
      BY <1>1, <1>2, <2>1, <2>6
    <3>2. chunk[v] # <<>> => StandsCut(v, chunk[v])
      BY <2>1 DEF PartsInv, SmoothAreRight
    <3>3. StandsCut(v, chunk[v]) => StandsCut(v, chunk[v])'
      BY <1>2, <3>1 DEF StandsCut
    <3>4. QED
      BY <2>4, <3>1, <3>2, <3>3
  <2>7. QED
    BY <2>5, <2>6
<1>4. ASSUME NEW v \in ended' PROVE chunk'[v] = <<>> /\ pos'[v] = Len(Body(v))
  <2>1. v \in ended /\ v \in Upload /\ chunk[v] = <<>> /\ pos[v] = Len(Body(v))
    BY <1>1, <1>2 DEF PartsInv, SmoothAreRight
  <2>2. v # u
    BY <1>1, <1>2, <2>1
  <2>3. QED
    BY <1>1, <1>2, <2>1, <2>2
<1>5. QED
  BY <1>3, <1>4 DEF SmoothAreRight

\* A chunk that is handled keeps it, for its own upload and for the others.
LEMMA HandleKeepsParts ==
    ASSUME PartsInv, NEW u \in Upload, HandleChunk(u)
    PROVE  SmoothAreRight'
<1> DEFINE st == OnData(ParserState(u), chunk[u], listed[u])
<1>1. /\ st \in ParserStates /\ KeepsToItself(st, files, Own(u), listed[u])
      /\ DOMAIN files' = DOMAIN files \cup st.opens /\ files' = st.files
      /\ Own(u)' = Own(u) \cup st.opens
      /\ \A v \in Upload : v # u => Own(v)' = Own(v)
      /\ raced \subseteq raced'
      /\ \A f \in st.opens : f \in DOMAIN files => f \in raced'
  BY OwnAfterChunk DEF PartsInv
<1>2. /\ chunk[u] # <<>>
      /\ analyze' = [analyze EXCEPT ![u] = st.analyze] /\ target' = [target EXCEPT ![u] = st.target]
      /\ current' = [current EXCEPT ![u] = st.current] /\ fileId' = [fileId EXCEPT ![u] = st.fileId]
      /\ parts' = [parts EXCEPT ![u] = st.parts]
      /\ pos' = [pos EXCEPT ![u] = @ + Len(chunk[u])] /\ chunk' = [chunk EXCEPT ![u] = <<>>]
      /\ smooth' = smooth /\ ended' = ended
  BY DEF HandleChunk
<1>3. UploadInv /\ UploadInv' /\ UploadTypes /\ PathsAreOwn /\ UploadTypes' /\ PathsAreOwn'
  <2>1. UploadInv /\ UploadInv'
    BY HandleKeepsUploadInv DEF PartsInv
  <2>2. QED
    BY <2>1 DEF UploadInv
<1>4. smooth \subseteq Upload /\ ended \subseteq Upload
  BY <1>3 DEF UploadTypes
<1>5. ASSUME NEW v \in Upload
      PROVE  /\ ParserState(v)' \in ParserStates
             /\ ParserState(v)'.target = target'[v] /\ ParserState(v)'.analyze = analyze'[v]
             /\ ParserState(v)'.current = current'[v] /\ ParserState(v)'.fileId = fileId'[v]
             /\ ParserState(v)'.parts = parts'[v] /\ ParserState(v)'.files = files'
  <2>1. ParserState(v)' \in ParserStates
    BY <1>3, ParserStateIs DEF ParserState, ParserStates, UploadTypes
  <2>2. QED
    BY <2>1 DEF ParserState
<1>6. ASSUME u \in smooth PROVE AtPlace(ParserState(u)', u, pos'[u], raced')
  <2> DEFINE a == pos[u]
             e == pos[u] + Len(chunk[u])
             old == ParserState(u)
  <2>1. a \in Nat /\ e \in Nat /\ a < e /\ e <= Len(Body(u)) /\ chunk[u] = Piece(u, a, e)
    <3>1. Len(chunk[u]) \in Nat \ {0} /\ pos[u] \in Nat
      BY <1>2, <1>3, EmptySeq DEF UploadTypes
    <3>2. e <= Len(Body(u)) /\ chunk[u] = Piece(u, a, e)
      BY <1>2, <1>3 DEF UploadInv, ChunksAreNext
    <3>3. QED
      BY <3>1, <3>2
  <2>2. /\ old \in ParserStates /\ KeepsToItself(old, files, Own(u), listed[u])
        /\ old.target = target[u] /\ old.analyze = analyze[u]
    BY <1>3, ParserStateIs DEF ParserState
  <2>3. AtPlace(old, u, a, raced) /\ StandsCut(u, Piece(u, a, e))
    BY <1>2, <1>6, <2>1 DEF PartsInv, SmoothAreRight
  <2>4. Own(u) \subseteq DOMAIN files /\ clock \in Nat
    BY <1>3 DEF Own, UploadTypes
  <2> HIDE DEF old, a, e
  <2>5. AtPlace(OnData(old, Piece(u, a, e), listed[u]), u, e, raced)
    BY <2>1, <2>2, <2>3, <2>4, ChunkStep
  <2>6. AtPlace(st, u, e, raced)
    BY <2>1, <2>5 DEF old
  <2> HIDE DEF st
  <2>7. /\ analyze'[u] = st.analyze /\ target'[u] = st.target /\ current'[u] = st.current
        /\ fileId'[u] = st.fileId /\ parts'[u] = st.parts /\ pos'[u] = e
    BY <1>2, <1>3 DEF UploadTypes, e
  <2> DEFINE new == ParserState(u)'
             own == st.opens \cup Own(u)
  <2>8. /\ new \in ParserStates /\ new.target = st.target /\ new.analyze = st.analyze
        /\ new.current = st.current /\ new.fileId = st.fileId /\ new.parts = st.parts
        /\ new.files = st.files
    BY <1>1, <1>5, <2>7
  <2>9. /\ own \subseteq DOMAIN new.files /\ (st.target = NoFile \/ st.target \in own)
        /\ \A j \in DOMAIN st.parts : st.parts[j].file \in own
    BY <1>1, <2>4, <2>8 DEF KeepsToItself
  <2> HIDE DEF new, own
  <2>10. AtPlace(new, u, e, raced')
    BY <1>1, <2>6, <2>8, <2>9, PlaceStays
  <2>11. QED
    BY <2>7, <2>10 DEF new
<1> HIDE DEF st
<1>7. ASSUME NEW v \in smooth, v # u PROVE AtPlace(ParserState(v)', v, pos'[v], raced')
  <2> DEFINE old == ParserState(v)
             new == ParserState(v)'
             own == Own(v)
  <2>1. v \in Upload /\ AtPlace(old, v, pos[v], raced)
    BY <1>4, <1>7 DEF PartsInv, SmoothAreRight
  <2>2. /\ analyze'[v] = analyze[v] /\ target'[v] = target[v] /\ current'[v] = current[v]
        /\ fileId'[v] = fileId[v] /\ parts'[v] = parts[v] /\ pos'[v] = pos[v]
    BY <1>2, <1>3, <1>7, <2>1 DEF UploadTypes
  <2>3. /\ old.target = target[v] /\ old.analyze = analyze[v] /\ old.current = current[v]
        /\ old.fileId = fileId[v] /\ old.parts = parts[v] /\ old.files = files
    BY DEF ParserState
  <2>4. /\ new \in ParserStates /\ new.target = old.target /\ new.analyze = old.analyze
        /\ new.current = old.current /\ new.fileId = old.fileId /\ new.parts = old.parts
        /\ new.files = st.files
    BY <1>1, <1>5, <2>1, <2>2, <2>3
  <2>5. /\ old.target = NoFile \/ old.target \in own
        /\ \A j \in DOMAIN old.parts : old.parts[j].file \in own
    BY <1>3, <2>1, <2>3 DEF PathsAreOwn
  <2>6. ASSUME NEW f \in own
        PROVE  /\ f \in DOMAIN st.files
               /\ f \notin raced' => st.files[f] = files[f]
    <3>1. f \in DOMAIN files /\ v \in openedBy[f]
      BY DEF Own
    <3>2. ASSUME f \notin raced' PROVE f \notin st.opens \cup Own(u)
      <4>1. f \notin st.opens /\ f \notin raced
        BY <1>1, <3>1, <3>2
      <4>2. u \notin openedBy[f]
        BY <1>3, <1>7, <3>1, <4>1 DEF UploadInv, OneOwner
      <4>3. QED
        BY <4>1, <4>2 DEF Own
    <3>3. QED
      BY <1>1, <3>1, <3>2 DEF KeepsToItself
  <2> HIDE DEF old, new, own
  <2>7. own \subseteq DOMAIN new.files /\ \A f \in own : f \notin raced' => new.files[f] = old.files[f]
    BY <2>3, <2>4, <2>6 DEF old
  <2>8. AtPlace(new, v, pos[v], raced')
    <3> DEFINE T == raced'
               i == pos[v]
    <3>1. raced \subseteq T /\ AtPlace(old, v, i, raced)
      BY <1>1, <2>1
    <3>2. \A f \in own : f \notin T => new.files[f] = old.files[f]
      BY <2>7
    <3> HIDE DEF T, i
    <3>3. /\ v \in Upload /\ new \in ParserStates /\ new.target = old.target
          /\ new.analyze = old.analyze /\ new.current = old.current
          /\ new.fileId = old.fileId /\ new.parts = old.parts
      BY <2>1, <2>4
    <3>4. /\ own \subseteq DOMAIN new.files /\ (old.target = NoFile \/ old.target \in own)
          /\ \A j \in DOMAIN old.parts : old.parts[j].file \in own
      BY <2>5, <2>7
    <3>5. AtPlace(new, v, i, T)
      BY <3>1, <3>2, <3>3, <3>4, PlaceStays
    <3>6. QED
      BY <3>5 DEF T, i
  <2>9. QED
    BY <2>2, <2>8 DEF new
<1>8. ASSUME NEW v \in smooth'
      PROVE  /\ AtPlace(ParserState(v), v, pos[v], raced)'
             /\ chunk'[v] # <<>> => StandsCut(v, chunk[v])'
  <2>1. v \in smooth /\ v \in Upload
    BY <1>2, <1>4
  <2>2. AtPlace(ParserState(v), v, pos[v], raced)'
    <3>1. AtPlace(ParserState(v)', v, pos'[v], raced')
      BY <1>6, <1>7, <2>1
    <3>2. QED
      BY <3>1
  <2>3. CASE v = u
    <3>1. chunk'[v] = <<>>
      BY <1>2, <1>3, <2>1, <2>3 DEF UploadTypes
    <3>2. QED
      BY <2>2, <3>1
  <2>4. CASE v # u
    <3>1. chunk'[v] = chunk[v] /\ target'[v] = target[v] /\ analyze'[v] = analyze[v]
      BY <1>2, <1>3, <2>1, <2>4 DEF UploadTypes
    <3>2. chunk[v] # <<>> => StandsCut(v, chunk[v])
      BY <2>1 DEF PartsInv, SmoothAreRight
    <3>3. StandsCut(v, chunk[v]) => StandsCut(v, chunk[v])'
      BY <3>1 DEF StandsCut
    <3>4. QED
      BY <2>2, <3>1, <3>2, <3>3
  <2>5. QED
    BY <2>3, <2>4
<1>9. ASSUME NEW v \in ended' PROVE chunk'[v] = <<>> /\ pos'[v] = Len(Body(v))
  <2>1. v \in ended /\ v \in Upload /\ chunk[v] = <<>> /\ pos[v] = Len(Body(v))
    BY <1>2, <1>4 DEF PartsInv, SmoothAreRight
  <2>2. v # u
    BY <1>2, <2>1
  <2>3. QED
    BY <1>2, <1>3, <2>1, <2>2 DEF UploadTypes
<1>10. QED
  BY <1>8, <1>9 DEF SmoothAreRight

\* Every step keeps what is known of the uploads.
LEMMA PartsInvKept == PartsInv /\ [UploadNext]_uploadVars => PartsInv'
<1> SUFFICES ASSUME PartsInv, [UploadNext]_uploadVars PROVE PartsInv'
  OBVIOUS
<1>1. UploadInv'
  BY UploadInvKept DEF PartsInv
<1>2. ASSUME UNCHANGED <<pos, chunk, listed, parser, files, openedBy, smooth, raced>>,
             \A u \in ended' : chunk[u] = <<>> /\ pos[u] = Len(Body(u))
      PROVE  SmoothAreRight'
  <2>1. UNCHANGED <<pos, chunk, analyze, target, current, fileId, parts, files, smooth, raced>>
    BY <1>2 DEF parser
  <2>2. ASSUME NEW v \in smooth'
        PROVE  /\ AtPlace(ParserState(v), v, pos[v], raced)'
               /\ chunk'[v] # <<>> => StandsCut(v, chunk[v])'
    <3>1. ParserState(v)' = ParserState(v)
      BY <2>1 DEF ParserState
    <3>2. /\ AtPlace(ParserState(v), v, pos[v], raced)
          /\ chunk[v] # <<>> => StandsCut(v, chunk[v])
      BY <2>1, <2>2 DEF PartsInv, SmoothAreRight
    <3>3. AtPlace(ParserState(v), v, pos[v], raced)'
      BY <2>1, <3>1, <3>2
    <3>4. StandsCut(v, chunk[v]) => StandsCut(v, chunk[v])'
      BY <2>1 DEF StandsCut
    <3>5. QED
      BY <2>1, <3>2, <3>3, <3>4
  <2>3. QED
    BY <1>2, <2>1, <2>2 DEF SmoothAreRight
<1>3. CASE Tick
  <2>1. /\ UNCHANGED <<pos, chunk, listed, parser, files, openedBy, smooth, raced>>
        /\ ended' = ended
    BY <1>3 DEF Tick
  <2>2. SmoothAreRight'
    BY <1>2, <2>1 DEF PartsInv, SmoothAreRight
  <2>3. QED
    BY <1>1, <2>2 DEF PartsInv
<1>4. ASSUME NEW u \in Upload, End(u) PROVE PartsInv'
  <2>1. /\ UNCHANGED <<pos, chunk, listed, parser, files, openedBy, smooth, raced>>
        /\ ended' = ended \cup {u} /\ chunk[u] = <<>> /\ pos[u] = Len(Body(u))
    BY <1>4 DEF End
  <2>2. SmoothAreRight'
    BY <1>2, <2>1 DEF PartsInv, SmoothAreRight
  <2>3. QED
    BY <1>1, <2>2 DEF PartsInv
<1>5. CASE UNCHANGED uploadVars
  <2>1. /\ UNCHANGED <<pos, chunk, listed, parser, files, openedBy, smooth, raced>>
        /\ ended' = ended
    BY <1>5 DEF uploadVars
  <2>2. SmoothAreRight'
    BY <1>2, <2>1 DEF PartsInv, SmoothAreRight
  <2>3. QED
    BY <1>1, <2>2 DEF PartsInv
<1>6. ASSUME NEW u \in Upload, NEW n \in 1..(Len(Body(u)) - pos[u]), ReceiveData(u, n) PROVE PartsInv'
  BY <1>1, <1>6, ReceiveKeepsParts DEF PartsInv
<1>7. ASSUME NEW u \in Upload, HandleChunk(u) PROVE PartsInv'
  BY <1>1, <1>7, HandleKeepsParts DEF PartsInv
<1>8. QED
  BY <1>3, <1>4, <1>5, <1>6, <1>7 DEF UploadNext

\* The data of a part lies behind its header.
LEMMA DataIsThere ==
    ASSUME NEW u \in Upload, NEW q \in 1..Len(Sizes[u])
    PROVE  Piece(u, Start(u)[q] + 2, Start(u)[q] + 2 + Sizes[u][q]) = DataOf(u, q)
<1> DEFINE z == Start(u)[q]
           b == z + 2
           n == Sizes[u][q]
           e == b + n
           d == DataOf(u, q)
<1>1. b \in Nat /\ n \in Nat /\ e \in Nat /\ b <= e /\ e <= Len(Body(u)) /\ e - b = n /\ q \in Nat
  <2> DEFINE l == Len(Body(u))
  <2>1. z \in Nat /\ n \in Nat /\ l \in Nat /\ z + 5 + n < l /\ q \in Nat
    BY PartNumbers
  <2> HIDE DEF z, n, l
  <2>2. b \in Nat /\ n \in Nat /\ e \in Nat /\ b <= e /\ e <= l /\ e - b = n /\ q \in Nat
    BY <2>1
  <2>3. QED
    BY <2>2 DEF l
<1>2. \A j \in 1..n : Body(u)[b + j] = Datum(u, q, j)
  BY BodyShape DEF Shape
<1>3. \A j : Datum(u, q, j) \in Token
  BY <1>1, DatumIs
<1>4. d = [j \in 1..n |-> Datum(u, q, j)]
  BY DEF DataOf
<1> HIDE DEF z, b, n, e, d
<1>5. d \in Seq(Token) /\ Len(d) = n /\ \A j \in 1..n : d[j] = Datum(u, q, j)
  BY <1>1, <1>3, <1>4
<1> DEFINE p == Piece(u, b, e)
<1>6. p \in Seq(Token) /\ Len(p) = n /\ \A j \in 1..n : p[j] = Datum(u, q, j)
  <2>1. /\ p \in Seq(Token) /\ Len(p) = IF b < e THEN e - b ELSE 0
        /\ \A i \in 1..(e - b) : p[i] = Body(u)[b + i]
    BY <1>1, PieceIs
  <2> HIDE DEF p
  <2>2. Len(p) = n
    BY <1>1, <2>1
  <2>3. \A j \in 1..n : p[j] = Body(u)[b + j]
    BY <1>1, <2>1
  <2>4. QED
    BY <1>2, <2>1, <2>2, <2>3
<1> HIDE DEF p
<1>7. p = d
  BY <1>5, <1>6, SeqEqual
<1>8. QED
  BY <1>7 DEF p, z, b, e, n, d

\* At the end of the body all parts are finished.
LEMMA AllAreDone ==
    ASSUME NEW u \in Upload, NEW st, NEW R, AtPlace(st, u, Len(Body(u)), R)
    PROVE  DoneParts(st, u, Len(Sizes[u]), R)
<1> DEFINE N == Len(Sizes[u])
           l == Len(Body(u))
<1>1. l \in Nat /\ \A q \in 1..(N + 1) : Start(u)[q] \in Nat /\ 3 <= Start(u)[q] /\ Start(u)[q] < l
  BY Starts
<1>2. l # 0 /\ \A q \in 1..(N + 1) : l # Start(u)[q]
  <2>1. 1 \in 1..(N + 1)
    BY SizesAre
  <2> HIDE DEF l, N
  <2>2. QED
    BY <1>1, <2>1
<1>3. ASSUME NEW q \in 1..N, NEW j \in 0..Sizes[u][q] PROVE l # Start(u)[q] + 2 + j
  <2> DEFINE z == Start(u)[q]
             n == Sizes[u][q]
  <2>1. z \in Nat /\ n \in Nat /\ l \in Nat /\ z + 5 + n < l /\ j \in 0..n
    BY PartNumbers
  <2> HIDE DEF z, n, l
  <2>2. l # z + 2 + j
    BY <2>1
  <2>3. QED
    BY <2>2 DEF z
<1>4. ASSUME NEW q \in 1..N PROVE /\ l # Start(u)[q] + 2
                                  /\ \A j \in 1..Sizes[u][q] : l # Start(u)[q] + 2 + j
  <2>1. Sizes[u][q] \in Nat /\ Start(u)[q] \in Nat
    BY PartNumbers
  <2>2. 0 \in 0..Sizes[u][q] /\ Start(u)[q] + 2 + 0 = Start(u)[q] + 2
    BY <2>1
  <2>3. l # Start(u)[q] + 2
    BY <1>3, <2>2
  <2>4. \A j \in 1..Sizes[u][q] : j \in 0..Sizes[u][q]
    BY <2>1
  <2> HIDE DEF l
  <2>5. QED
    BY <1>3, <2>3, <2>4
<1>5. \/ l = 0
      \/ \E q \in 1..(N + 1) : l = Start(u)[q]
      \/ \E q \in 1..N : l = Start(u)[q] + 2
      \/ \E q \in 1..N : \E j \in 1..Sizes[u][q] : l = Start(u)[q] + 2 + j
      \/ Between(st, u, N, R)
  BY DEF AtPlace
<1>6. Between(st, u, N, R)
  <2> HIDE DEF l, N
  <2>1. QED
    BY <1>2, <1>4, <1>5
<1>7. QED
  BY <1>6 DEF Between

\* Every variable of the uploads is well typed.
LEMMA UploadTypeHolds ==
    ASSUME UploadInv
    PROVE  UploadTypeOK
<1>1. UploadTypes /\ ChunksAreNext /\ PathsAreOwn
  BY DEF UploadInv
<1>2. ASSUME NEW u \in Upload
      PROVE  /\ pos[u] \in 0..Len(Body(u)) /\ pos[u] + Len(chunk[u]) <= Len(Body(u))
             /\ listed[u] \subseteq DOMAIN files
             /\ target[u] = NoFile \/ target[u] \in DOMAIN files
             /\ Len(parts[u]) <= fileId[u] /\ current[u] \in Seq(Nat) \ {<<>>}
  <2>1. pos[u] \in Nat /\ Len(chunk[u]) \in Nat /\ Len(Body(u)) \in Nat
    BY <1>1, Starts DEF UploadTypes
  <2>2. pos[u] + Len(chunk[u]) <= Len(Body(u))
    BY <1>1 DEF ChunksAreNext
  <2>3. pos[u] \in 0..Len(Body(u))
    BY <2>1, <2>2
  <2>4. Own(u) \subseteq DOMAIN files
    BY DEF Own
  <2>5. current[u] \in Seq(Nat) \ {<<>>}
    BY <1>1 DEF UploadTypes, Path
  <2>6. QED
    BY <1>1, <2>2, <2>3, <2>4, <2>5 DEF PathsAreOwn
<1>3. /\ DOMAIN openedBy = DOMAIN files /\ \A f \in DOMAIN files : openedBy[f] \subseteq Upload
      /\ clock \in 1..MaxClock /\ smooth \subseteq Upload /\ ended \subseteq Upload
  BY <1>1 DEF UploadTypes
<1>4. QED
  BY <1>2, <1>3 DEF UploadTypeOK

\* However the data of the parts is cut, the application gets every part of an upload,
\* in order, under its name, unless that has a colon, and with its data, unless a cut was
\* one the handler cannot stand (StandsCut: in a boundary or a header, behind a header of
\* 1 KiB, before nothing but white space at the end of a part), or another upload had the
\* file (onData, writeDataToCurrentPart, emitResults).
THEOREM PartsAreRightCorrect == UploadSpec => []PartsAreRight
<1>1. PartsInv => PartsAreRight
  <2> SUFFICES ASSUME PartsInv PROVE PartsAreRight
    OBVIOUS
  <2>1. UploadTypeOK
    BY UploadTypeHolds DEF PartsInv
  <2>2. ASSUME NEW u \in ended \cap smooth
        PROVE  /\ Len(parts[u]) = Len(Sizes[u])
               /\ \A i \in DOMAIN parts[u] :
                     LET p == parts[u][i]
                     IN  /\ i \notin Colon => Last(p.name) = i
                         /\ p.file \notin raced => files[p.file] = DataOf(u, i)
    <3> DEFINE st == ParserState(u)
    <3>1. u \in Upload /\ parts[u] \in Seq(Entry)
      BY DEF PartsInv, UploadInv, UploadTypes
    <3>2. AtPlace(st, u, Len(Body(u)), raced)
      <4>1. AtPlace(st, u, pos[u], raced) /\ pos[u] = Len(Body(u))
        BY DEF PartsInv, SmoothAreRight
      <4> HIDE DEF st
      <4>2. QED
        BY <4>1
    <3>3. st.parts = parts[u] /\ st.files = files
      BY DEF ParserState
    <3> HIDE DEF st
    <3>4. DoneParts(st, u, Len(Sizes[u]), raced)
      BY <3>1, <3>2, AllAreDone
    <3>5. Len(parts[u]) = Len(Sizes[u])
      BY <3>3, <3>4 DEF DoneParts
    <3>6. ASSUME NEW i \in DOMAIN parts[u]
          PROVE  /\ i \notin Colon => Last(parts[u][i].name) = i
                 /\ parts[u][i].file \notin raced => files[parts[u][i].file] = DataOf(u, i)
      <4>1. i \in 1..Len(Sizes[u])
        BY <3>1, <3>5
      <4>2. Piece(u, Start(u)[i] + 2, Start(u)[i] + 2 + Sizes[u][i]) = DataOf(u, i)
        BY <3>1, <4>1, DataIsThere
      <4>3. QED
        BY <3>3, <3>4, <4>1, <4>2 DEF DoneParts, Named
    <3>7. QED
      BY <3>5, <3>6
  <2>3. QED
    BY <2>1, <2>2 DEF PartsAreRight
<1>2. QED
  BY <1>1, PartsInvInit, PartsInvKept, PTL DEF UploadSpec
=============================================================================
