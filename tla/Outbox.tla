------------------------------- MODULE Outbox -------------------------------
(***************************************************************************)
(* The way of messages from the application to the client of one session:   *)
(* the pending messages of ViriditySession                                  *)
(* (src/src/viriditysessionmanager.cpp) and the channel handler that takes  *)
(* them (src/src/handlers/longpollinghandler.cpp, ssehandler.cpp and        *)
(* websockethandler.cpp), each in a thread of its own.                      *)
(*                                                                          *)
(* Messages are pushed (dispatchMessageToClient), or a message handler      *)
(* announces that it has some, and is asked for them when they are taken.   *)
(* A long polling client sends a request for each batch, over any of its    *)
(* connections; an event source or a web socket streams.                    *)
(***************************************************************************)
EXTENDS Integers, Sequences

CONSTANTS
    Handler,       \* the channel handlers, one for each connection
    NoHandler,
    Polling,       \* those that serve long polls; the others serve streams
    MaxMessages,   \* bound: messages of each source
    MaxTimeouts,   \* bound: requests the client gives up, broken streams
    MaxDormant     \* bound: how often the session finds nobody interacting

ASSUME OutboxAssumption ==
    /\ NoHandler \notin Handler /\ Polling \subseteq Handler
    /\ MaxMessages \in Nat /\ MaxTimeouts \in Nat /\ MaxDormant \in Nat

VARIABLES
    sent,         \* how many messages each source has sent
    calls,        \* the calls queued for the session's thread
    messages,     \* messages_
    requesting,   \* messageHandlersRequestingMessageDispatch_ has the handler
    prepared,     \* what the message handler will hand out
    timer,        \* updateCheckTimer_ runs
    linked,       \* the signals of the session reach the channel handler
    response,     \* response_
    held,         \* session_
    notified,     \* handleMessagesAvailable is queued for its thread
    dormant,      \* handleSessionInteractionDormant is
    pc, batch,    \* where handleMessagesAvailable is, and what it has taken
    gone,         \* the client is no longer there
    answer,       \* what has been written and not received
    current,      \* the connection the client waits at
    received,
    overlooked,   \* history: a stream was connected to the new session without a
                  \* look at what had been signalled to nobody
    timeouts, dormants

sessionVars == <<calls, messages, requesting, timer>>
handlerVars == <<linked, response, held, notified, dormant, pc, batch, gone, answer>>
clientVars == <<current, received>>
boundVars == <<overlooked, timeouts, dormants>>
vars == <<sent, prepared, sessionVars, handlerVars, clientVars, boundVars>>

Source == {"pushed", "pulled"}
Message == [source : Source, n : 1..MaxMessages]
HandlerIsReady == [source |-> "pulled", n |-> 0]

TypeOK ==
    /\ sent \in [Source -> 0..MaxMessages]
    /\ calls \in Seq(Message \cup {HandlerIsReady})
    /\ messages \in Seq(Message) /\ prepared \in Seq(Message)
    /\ requesting \in BOOLEAN /\ timer \in BOOLEAN
    /\ linked \in [Handler -> BOOLEAN]
    /\ response \in [Handler -> BOOLEAN] /\ held \in [Handler -> BOOLEAN]
    /\ notified \in [Handler -> BOOLEAN] /\ dormant \in [Handler -> BOOLEAN]
    /\ pc \in [Handler -> {"connecting", "idle", "available", "pulling", "taken"}]
    /\ batch \in [Handler -> Seq(Message)] /\ answer \in [Handler -> Seq(Message)]
    /\ gone \in [Handler -> BOOLEAN]
    /\ current \in Handler \cup {NoHandler}
    /\ received \in Seq(Message)
    /\ overlooked \in BOOLEAN
    /\ timeouts \in 0..MaxTimeouts /\ dormants \in 0..MaxDormant

\* A session is new: a stream has started it, and its handler, which holds it from
\* then on, still has to connect its signals; or a request of a long polling client
\* has, which is answered already and holds it no longer.
Init ==
    /\ sent = [s \in Source |-> 0]
    /\ calls = <<>> /\ messages = <<>> /\ prepared = <<>>
    /\ requesting = FALSE /\ timer = FALSE
    /\ linked = [h \in Handler |-> FALSE]
    /\ response = [h \in Handler |-> FALSE]
    /\ notified = [h \in Handler |-> FALSE] /\ dormant = [h \in Handler |-> FALSE]
    /\ current \in {NoHandler} \cup (Handler \ Polling)
    /\ held = [h \in Handler |-> h = current]
    /\ pc = [h \in Handler |-> IF h = current THEN "connecting" ELSE "idle"]
    /\ batch = [h \in Handler |-> <<>>] /\ answer = [h \in Handler |-> <<>>]
    /\ gone = [h \in Handler |-> FALSE]
    /\ received = <<>> /\ overlooked = FALSE
    /\ timeouts = 0 /\ dormants = 0

-----------------------------------------------------------------------------
(* The application *)

SendOf(s) == [sent EXCEPT ![s] = @ + 1]

\* dispatchMessageToClient: a queued call of sendMessageToClient.
DispatchMessageToClient ==
    /\ sent["pushed"] < MaxMessages
    /\ sent' = SendOf("pushed")
    /\ calls' = Append(calls, [source |-> "pushed", n |-> sent["pushed"] + 1])
    /\ UNCHANGED <<messages, requesting, prepared, timer, handlerVars, clientVars,
                   boundVars>>

\* A message handler has something to say, and announces it: at once if it lives
\* in the session's thread, otherwise by a queued call.
PrepareMessage ==
    /\ sent["pulled"] < MaxMessages
    /\ sent' = SendOf("pulled")
    /\ prepared' = Append(prepared, [source |-> "pulled", n |-> sent["pulled"] + 1])
    /\ \/ requesting' = TRUE /\ timer' = TRUE /\ UNCHANGED calls
       \/ calls' = Append(calls, HandlerIsReady) /\ UNCHANGED <<requesting, timer>>
    /\ UNCHANGED <<messages, handlerVars, clientVars, boundVars>>

-----------------------------------------------------------------------------
(* The session's thread *)

SendMessageToClient ==
    /\ calls # <<>> /\ Head(calls) # HandlerIsReady
    /\ calls' = Tail(calls)
    /\ messages' = Append(messages, Head(calls))
    /\ timer' = TRUE
    /\ UNCHANGED <<sent, prepared, requesting, handlerVars, clientVars, boundVars>>

HandlerIsReadyForDispatch ==
    /\ calls # <<>> /\ Head(calls) = HandlerIsReady
    /\ calls' = Tail(calls)
    /\ requesting' = TRUE
    /\ timer' = TRUE
    /\ UNCHANGED <<sent, prepared, messages, handlerVars, clientVars, boundVars>>

PushedMessagesAvailable == messages # <<>>

PendingMessagesAvailable == messages # <<>> \/ requesting

\* Emits newPendingMessagesAvailable.
UpdateCheckTimerTimeout ==
    /\ timer
    /\ timer' = FALSE
    /\ notified' = [h \in Handler |->
                       notified[h] \/ (linked[h] /\ PendingMessagesAvailable)]
    /\ overlooked' = FALSE
    /\ UNCHANGED <<sent, prepared, calls, messages, requesting, linked, response, held,
                   dormant, pc, batch, gone, answer, clientVars, timeouts, dormants>>

\* Emits interactionDormant.
InteractionCheckTimerTimeout ==
    /\ dormants < MaxDormant
    /\ dormants' = dormants + 1
    /\ dormant' = [h \in Handler |-> dormant[h] \/ linked[h]]
    /\ UNCHANGED <<sent, prepared, sessionVars, linked, response, held, notified, pc,
                   batch, gone, answer, clientVars, overlooked, timeouts>>

-----------------------------------------------------------------------------
(* A channel handler, in the thread of its connection *)

\* The handler of the stream that started the session connects its signals.  That
\* of a web socket then looks for what is pending; that of an event source returns.
ConnectNewSession(h) ==
    /\ pc[h] = "connecting"
    /\ response' = [response EXCEPT ![h] = TRUE]
    /\ linked' = [linked EXCEPT ![h] = TRUE]
    /\ \/ /\ pc' = [pc EXCEPT ![h] = IF PendingMessagesAvailable THEN "available" ELSE "idle"]
          /\ UNCHANGED overlooked
       \/ /\ pc' = [pc EXCEPT ![h] = "idle"]
          /\ overlooked' = (PendingMessagesAvailable /\ ~timer)
    /\ UNCHANGED <<sent, prepared, sessionVars, held, notified, dormant, batch, gone,
                   answer, clientVars, timeouts, dormants>>

AttachWithoutLook(h) ==
    /\ current = NoHandler /\ ~response[h] /\ ~gone[h] /\ pc[h] = "idle"
    /\ h \in Polling \/ \A g \in Handler : ~held[g]
    /\ current' = h
    /\ response' = [response EXCEPT ![h] = TRUE]
    /\ held' = [held EXCEPT ![h] = TRUE]
    /\ linked' = [linked EXCEPT ![h] = TRUE]
    /\ UNCHANGED <<sent, prepared, sessionVars, notified, dormant, pc, batch, gone,
                   answer, received, boundVars>>

\* doHandleRequest, handleUpgrade for a session that is there: what is pending is
\* handed out at once.  A stream attaches only to a session nobody uses.
Attach(h) ==
    /\ current = NoHandler /\ ~response[h] /\ ~gone[h] /\ pc[h] = "idle"
    /\ h \in Polling \/ \A g \in Handler : ~held[g]
    /\ current' = h
    /\ response' = [response EXCEPT ![h] = TRUE]
    /\ held' = [held EXCEPT ![h] = TRUE]
    /\ linked' = [linked EXCEPT ![h] = TRUE]
    /\ pc' = [pc EXCEPT ![h] = IF PendingMessagesAvailable THEN "available" ELSE "idle"]
    /\ UNCHANGED <<sent, prepared, sessionVars, notified, dormant, batch, gone, answer,
                   received, boundVars>>

\* handleMessagesAvailable, called or signalled, up to the end of the first
\* block of takePendingMessages.
TakePendingMessages(h) ==
    /\ \/ pc[h] = "available" /\ UNCHANGED notified
       \/ /\ pc[h] = "idle" /\ notified[h]
          /\ notified' = [notified EXCEPT ![h] = FALSE]
    /\ LET due == response[h] /\ held[h] /\ PendingMessagesAvailable
       IN  /\ pc' = [pc EXCEPT ![h] = IF ~due THEN "idle"
                                      ELSE IF requesting THEN "pulling" ELSE "taken"]
           /\ batch' = IF due THEN [batch EXCEPT ![h] = messages] ELSE batch
           /\ messages' = IF due THEN <<>> ELSE messages
           /\ requesting' = (requesting /\ ~due)
           /\ overlooked' = (overlooked /\ ~due)
    /\ UNCHANGED <<sent, prepared, calls, timer, linked, response, held, dormant, gone,
                   answer, clientVars, timeouts, dormants>>

\* The rest of it: the message handler hands out what it has.
PullPendingMessages(h) ==
    /\ pc[h] = "pulling"
    /\ pc' = [pc EXCEPT ![h] = "taken"]
    /\ batch' = [batch EXCEPT ![h] = @ \o prepared]
    /\ prepared' = <<>>
    /\ UNCHANGED <<sent, sessionVars, linked, response, held, notified, dormant, gone,
                   answer, clientVars, boundVars>>

\* What the end of a long polling response does, pushMessageAndEnd.  Nothing
\* but response_ keeps the connection of a client alive that is gone.
EndResponse(h) ==
    /\ held' = [held EXCEPT ![h] = FALSE]
    /\ response' = [response EXCEPT ![h] = FALSE]
    /\ gone' = [gone EXCEPT ![h] = FALSE]
    /\ linked' = [linked EXCEPT ![h] = @ /\ ~gone[h]]

PutBackUnwritten(h) ==
    /\ pc[h] = "taken"
    /\ pc' = [pc EXCEPT ![h] = "idle"]
    /\ batch' = [batch EXCEPT ![h] = <<>>]
    /\ answer' = IF gone[h] THEN answer ELSE [answer EXCEPT ![h] = @ \o batch[h]]
    /\ messages' = IF gone[h] THEN messages \o batch[h] ELSE messages
    /\ IF h \in Polling /\ batch[h] # <<>>
       THEN EndResponse(h)
       ELSE UNCHANGED <<held, response, gone, linked>>
    /\ UNCHANGED <<sent, prepared, calls, requesting, timer, notified, dormant,
                   clientVars, boundVars>>

\* The rest of handleMessagesAvailable.
WriteMessages(h) ==
    /\ pc[h] = "taken"
    /\ pc' = [pc EXCEPT ![h] = "idle"]
    /\ batch' = [batch EXCEPT ![h] = <<>>]
    /\ answer' = IF gone[h] THEN answer ELSE [answer EXCEPT ![h] = @ \o batch[h]]
    /\ IF h \in Polling /\ batch[h] # <<>>
       THEN EndResponse(h)
       ELSE UNCHANGED <<held, response, gone, linked>>
    /\ UNCHANGED <<sent, prepared, sessionVars, notified, dormant, clientVars, boundVars>>

\* A poll is answered with ping(); a stream only gets it written.
HandleSessionInteractionDormant(h) ==
    /\ pc[h] = "idle" /\ dormant[h]
    /\ dormant' = [dormant EXCEPT ![h] = FALSE]
    /\ IF h \in Polling /\ response[h]
       THEN EndResponse(h)
       ELSE UNCHANGED <<held, response, gone, linked>>
    /\ UNCHANGED <<sent, prepared, sessionVars, notified, pc, batch, answer, clientVars,
                   boundVars>>

\* handleSocketDisconnected: a handler without a response is deleted with its
\* connection.
HandleSocketDisconnected(h) ==
    /\ gone[h] /\ pc[h] = "idle"
    /\ ~(h \in Polling /\ response[h])
    /\ gone' = [gone EXCEPT ![h] = FALSE]
    /\ response' = [response EXCEPT ![h] = FALSE]
    /\ held' = [held EXCEPT ![h] = FALSE]
    /\ linked' = [linked EXCEPT ![h] = FALSE]
    /\ notified' = [notified EXCEPT ![h] = FALSE]
    /\ dormant' = [dormant EXCEPT ![h] = FALSE]
    /\ UNCHANGED <<sent, prepared, sessionVars, pc, batch, answer, clientVars, boundVars>>

-----------------------------------------------------------------------------
(* The client *)

\* A poll succeeds when its response has ended; a stream goes on.
Receive(h) ==
    /\ current = h
    /\ IF h \in Polling THEN ~response[h] ELSE answer[h] # <<>>
    /\ received' = received \o answer[h]
    /\ answer' = [answer EXCEPT ![h] = <<>>]
    /\ current' = IF h \in Polling THEN NoHandler ELSE h
    /\ UNCHANGED <<sent, prepared, sessionVars, linked, response, held, notified,
                   dormant, pc, batch, gone, boundVars>>

\* The request times out; the stream breaks, or is closed as the session finds its
\* client silent.  Nobody comes back to a session of which no client has been told.
GiveUp(h) ==
    /\ current = h /\ pc[h] # "connecting" /\ timeouts < MaxTimeouts
    /\ timeouts' = timeouts + 1
    /\ current' = NoHandler
    /\ gone' = [gone EXCEPT ![h] = TRUE]
    /\ answer' = [answer EXCEPT ![h] = <<>>]
    /\ UNCHANGED <<sent, prepared, sessionVars, linked, response, held, notified,
                   dormant, pc, batch, received, overlooked, dormants>>

-----------------------------------------------------------------------------
SessionNext ==
    \/ SendMessageToClient
    \/ HandlerIsReadyForDispatch
    \/ UpdateCheckTimerTimeout

HandlerNext(h) ==
    \/ ConnectNewSession(h)
    \/ TakePendingMessages(h)
    \/ PullPendingMessages(h)
    \/ WriteMessages(h)
    \/ HandleSessionInteractionDormant(h)
    \/ HandleSocketDisconnected(h)

ClientNext(h) == Attach(h) \/ Receive(h)

Next ==
    \/ DispatchMessageToClient
    \/ PrepareMessage
    \/ SessionNext
    \/ InteractionCheckTimerTimeout
    \/ \E h \in Handler : HandlerNext(h) \/ ClientNext(h) \/ GiveUp(h)

Spec == Init /\ [][Next]_vars

\* Every event loop turns, and the client polls again.
Fairness ==
    /\ WF_vars(SessionNext)
    /\ \A h \in Handler : WF_vars(HandlerNext(h))
    /\ WF_vars(\E h \in Handler : ClientNext(h))

FairSpec == Spec /\ Fairness

-----------------------------------------------------------------------------
(* Properties *)

\* The numbers of the messages of a source in a sequence, the announcements
\* among the calls left out.
NumbersOf(s, q) ==
    {q[i].n : i \in {j \in DOMAIN q : q[j].source = s /\ q[j] # HandlerIsReady}}

\* What a handler has taken or written, and what has not been taken yet.
Handed(s, h) == NumbersOf(s, answer[h]) \cup NumbersOf(s, batch[h])
Waiting(s) == NumbersOf(s, messages) \cup NumbersOf(s, prepared) \cup NumbersOf(s, calls)

\* What is under way, and not lost already.
UnderWay(s) == Waiting(s) \cup (IF current = NoHandler THEN {} ELSE Handed(s, current))

Channel == INSTANCE MessageChannel WITH
    Lossy <- MaxTimeouts > 0,
    pending <- [s \in Source |-> UnderWay(s)]

\* Taking, pulling and writing by several threads, polls over several
\* connections and their timeouts keep the messages of each source in order,
\* and none is delivered twice; without a timeout none is lost.
ImplementsChannel == Channel!Spec

\* No lost wakeup between the session's thread and a handler that waits: while
\* something is pending, the timer that signals it runs, or the handler has
\* been told, or it is about to look.  The one exception is the event source that
\* has started the session, as to what was signalled before it was connected
\* (SSEHandler::doHandleRequest): nobody looks for that until the next message.
NoLostWakeup ==
    \A h \in Handler :
        (PendingMessagesAvailable /\ response[h] /\ held[h]) =>
            timer \/ notified[h] \/ pc[h] = "available" \/ overlooked

\* The client of a session that stays is not left without a message, unless it
\* has given up a request or lost a stream, or what the event source that started
\* the session has overlooked stays the last there is to say.
\* ("Actual delivery might be deferred until the client is ready to accept the
\* message.", ViriditySession::dispatchMessageToClient.)
EveryMessageIsDelivered ==
    [](timeouts = 0) /\ []<>~overlooked =>
        \A s \in Source, n \in 1..MaxMessages :
            sent[s] >= n ~> \E i \in DOMAIN received : received[i] = [source |-> s, n |-> n]
=============================================================================
