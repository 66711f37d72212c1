---------------------------- MODULE RequestCache ----------------------------
(***************************************************************************)
(* A request handler written in QML, and its cache of the last answer       *)
(* (src/src/declarative/viridityqmlrequesthandler.cpp), as a document uses  *)
(* it (qml/Viridity/private/ViridityDocumentRequestHandler.qml).            *)
(*                                                                          *)
(* The handler and the document live in the main thread.  A connection      *)
(* thread that finds the cache valid answers from it, reading status and    *)
(* content one after the other; otherwise it posts the request to the main  *)
(* thread, which renders the document when it is dirty, answers, and stores *)
(* what it answered: content first, then status.                            *)
(*                                                                          *)
(* Valid is a binding to "not dirty", so the cache is valid from the moment *)
(* the document is rendered, before the rendering is stored; and it is valid*)
(* without being stored when the document is rendered for an update of its  *)
(* pages (ViridityHTMLSegment.qml), outside of a request.                   *)
(***************************************************************************)
EXTENDS Naturals, FiniteSets

CONSTANTS
    Request,     \* requests for the url of the document
    MaxVersion   \* bound: changes of the document

ASSUME VersionAssumption == MaxVersion \in Nat \ {0}

VARIABLES
    version,     \* what the document says
    dirty,       \* contentDirty of the document
    content,     \* the version rendered last, 0 for none
    cachedContent, cachedStatus,   \* 0: nothing stored yet
    handling,    \* the request the main thread handles, and how far it is
    gone,        \* the handler was destroyed
    req,         \* state of each request
    answer,      \* status and content of each answer
    oldest,      \* history: the version when the request arrived
    overlap,     \* history: requests that met a rendering that was not stored
    unstored     \* history: the last rendering was not for a request

docVars == <<version, dirty, content, unstored>>
cacheVars == <<cachedContent, cachedStatus>>
reqVars == <<req, answer, oldest>>
requestCacheVars == <<docVars, cacheVars, handling, gone, reqVars, overlap>>

Idle == [at |-> "idle"]
Steps == {"end", "status"}

CacheTypeOK ==
    /\ version \in 1..MaxVersion /\ content \in 0..version
    /\ dirty \in BOOLEAN /\ gone \in BOOLEAN /\ unstored \in BOOLEAN
    /\ cachedContent \in 0..version /\ cachedStatus \in {0, 200}
    /\ handling = Idle \/ handling \in [at : Steps, of : Request]
    /\ req \in [Request -> {"none", "arrived", "matched", "hit", "posted", "lost",
                          "elsewhere", "answered"}]
    /\ answer \in [Request -> [status : {0, 200}, content : 0..MaxVersion]]
    /\ oldest \in [Request -> 0..MaxVersion] /\ overlap \subseteq Request

CacheInit ==
    /\ version = 1 /\ dirty = TRUE /\ content = 0 /\ unstored = FALSE
    /\ cachedContent = 0 /\ cachedStatus = 0
    /\ handling = Idle /\ gone = FALSE
    /\ req = [r \in Request |-> "none"]
    /\ answer = [r \in Request |-> [status |-> 0, content |-> 0]]
    /\ oldest = [r \in Request |-> 0] /\ overlap = {}

\* cachedContentValid, bound to the document.
Valid == ~dirty

\* Mutant: the cache is used as soon as something is in it.
AlwaysUsed == cachedStatus = 200

\* What a connection thread looks at before it answers from the cache.
CanAnswerFromCache == Valid

\* Requests on the connection threads now.
Running == {r \in Request : req[r] \in {"arrived", "matched", "hit"}}

-----------------------------------------------------------------------------
(* The main thread *)

\* Mutant: a change of the document that is rendered does not make it dirty.
SetDirtyOnce == dirty' = (dirty \/ content = 0)

SetDirty == dirty' = TRUE

\* The template, or a property it shows, changes.
ChangeDocument ==
    /\ handling = Idle /\ version < MaxVersion
    /\ version' = version + 1
    /\ SetDirty
    /\ UNCHANGED <<content, unstored, cacheVars, handling, gone, reqVars, overlap>>

\* updateContent, for a page that wants the content: the cache becomes valid,
\* and is not what is rendered.
SendContentUpdate ==
    /\ handling = Idle /\ dirty
    /\ dirty' = FALSE /\ content' = version
    /\ unstored' = TRUE
    /\ overlap' = overlap \cup Running
    /\ UNCHANGED <<version, cacheVars, handling, gone, reqVars>>

\* handleRequest of the document: rendered when dirty.
BeginHandleRequest(r) ==
    /\ handling = Idle /\ req[r] = "posted" /\ ~gone
    /\ handling' = [at |-> "end", of |-> r]
    /\ dirty' = FALSE /\ content' = IF dirty THEN version ELSE content
    /\ overlap' = overlap \cup Running
    /\ UNCHANGED <<version, unstored, cacheVars, gone, reqVars>>

\* Mutant: a document that was not dirty is not stored again.
StoreNewContent ==
    cachedContent' = IF unstored THEN cachedContent ELSE content

\* setCachedContent.
StoreContent == cachedContent' = content

\* end, done: the answer is posted to the connection, its content is stored.
\* The handler was told which answers to keep when the request was posted.
EndHandleRequest ==
    /\ handling # Idle /\ handling.at = "end"
    /\ req' = [req EXCEPT ![handling.of] = "answered"]
    /\ answer' = [answer EXCEPT ![handling.of] = [status |-> 200, content |-> content]]
    /\ StoreContent
    /\ handling' = [handling EXCEPT !.at = "status"]
    /\ UNCHANGED <<docVars, cachedStatus, gone, oldest, overlap>>

\* setCachedStatusCode, setCachedHeaders.
StoreStatus ==
    /\ handling # Idle /\ handling.at = "status"
    /\ cachedStatus' = 200
    /\ handling' = Idle
    /\ unstored' = FALSE
    /\ UNCHANGED <<version, dirty, content, cachedContent, gone, reqVars, overlap>>

\* The component is destroyed: the handler is no longer registered, requests
\* that are posted to it are dropped.
DestroyHandler ==
    /\ handling = Idle /\ ~gone
    /\ gone' = TRUE
    /\ req' = [r \in Request |-> IF req[r] = "posted" THEN "lost" ELSE req[r]]
    /\ UNCHANGED <<docVars, cacheVars, handling, answer, oldest, overlap>>

-----------------------------------------------------------------------------
(* Connection threads *)

\* Some rendering is under way, or was not stored.
Exposed == handling # Idle \/ unstored

Arrive(r) ==
    /\ req[r] = "none"
    /\ req' = [req EXCEPT ![r] = "arrived"]
    /\ oldest' = [oldest EXCEPT ![r] = version]
    /\ overlap' = IF Exposed THEN overlap \cup {r} ELSE overlap
    /\ UNCHANGED <<docVars, cacheVars, handling, gone, answer>>

\* Mutant: one request at a time is posted to the main thread.
PostOne(r) == req' = [req EXCEPT ![r] = IF \E o \in Request : req[o] = "posted" THEN "lost"
                                        ELSE "posted"]

\* The call of handleRequest in the main thread.
Post(r) == req' = [req EXCEPT ![r] = "posted"]

\* doesHandleRequest, by the url; a handler that is gone handles nothing, and
\* another one, or a 404, answers.
DoesHandleRequest(r) ==
    /\ req[r] = "arrived"
    /\ req' = [req EXCEPT ![r] = IF gone THEN "elsewhere" ELSE "matched"]
    /\ UNCHANGED <<docVars, cacheVars, handling, gone, answer, oldest, overlap>>

\* handleRequest: from the cache, its status being read first, or by the main
\* thread; when the handler has gone since it was asked, not at all.
AnswerOrPost(r) ==
    /\ req[r] = "matched"
    /\ IF gone
       THEN req' = [req EXCEPT ![r] = "lost"] /\ UNCHANGED answer
       ELSE IF CanAnswerFromCache
       THEN /\ req' = [req EXCEPT ![r] = "hit"]
            /\ answer' = [answer EXCEPT ![r].status = cachedStatus]
       ELSE Post(r) /\ UNCHANGED answer
    /\ UNCHANGED <<docVars, cacheVars, handling, gone, oldest, overlap>>

\* cachedContent.
AnswerFromCache(r) ==
    /\ req[r] = "hit"
    /\ req' = [req EXCEPT ![r] = "answered"]
    /\ answer' = [answer EXCEPT ![r].content = cachedContent]
    /\ UNCHANGED <<docVars, cacheVars, handling, gone, oldest, overlap>>

CacheNext ==
    \/ ChangeDocument \/ SendContentUpdate \/ EndHandleRequest \/ StoreStatus
    \/ DestroyHandler
    \/ \E r \in Request :
          \/ BeginHandleRequest(r) \/ Arrive(r) \/ DoesHandleRequest(r)
          \/ AnswerOrPost(r) \/ AnswerFromCache(r)

\* Every thread goes on with its next event.
CacheFairness ==
    /\ WF_requestCacheVars(EndHandleRequest \/ StoreStatus)
    /\ \A r \in Request : SF_requestCacheVars(BeginHandleRequest(r))
                          /\ WF_requestCacheVars(\/ DoesHandleRequest(r) \/ AnswerOrPost(r)
                                                 \/ AnswerFromCache(r))

CacheSpec == CacheInit /\ [][CacheNext]_requestCacheVars
CacheFairSpec == CacheSpec /\ CacheFairness

-----------------------------------------------------------------------------
(* Properties *)

\* Between two requests a valid cache holds the newest content, whole, unless
\* the document was rendered for something else than a request.
CacheFollowsDocument ==
    handling = Idle /\ Valid /\ ~unstored => cachedContent = version /\ cachedStatus = 200

\* Whoever answers, an answer is whole, and says what the document said when
\* the request arrived or later; a request that met a rendering not yet stored
\* may get what was stored before.
AnswersAreCurrent ==
    \A r \in Request \ overlap :
        req[r] = "answered" => answer[r].status = 200 /\ answer[r].content >= oldest[r]

\* Every request is answered, as long as the handler lives.
EveryRequestIsAnswered == \A r \in Request : req[r] = "arrived" ~> req[r] = "answered" \/ gone
=============================================================================
