---------------------------- MODULE OutboxProofs ----------------------------
(***************************************************************************)
(* Proofs about Outbox, for any number of handlers, messages, timeouts, and *)
(* for polls and streams alike.                                             *)
(***************************************************************************)
EXTENDS Outbox, SequenceTheorems, TLAPS

\* The part of the type invariant the wakeups need.
FlagsOK ==
    /\ requesting \in BOOLEAN /\ timer \in BOOLEAN /\ overlooked \in BOOLEAN
    /\ linked \in [Handler -> BOOLEAN]
    /\ response \in [Handler -> BOOLEAN] /\ held \in [Handler -> BOOLEAN]
    /\ notified \in [Handler -> BOOLEAN]
    /\ pc \in [Handler -> {"connecting", "idle", "available", "pulling", "taken"}]

\* The signals of the session reach a handler that waits.
WaitingIsLinked == \A h \in Handler : response[h] => linked[h]

IInv == FlagsOK /\ WaitingIsLinked /\ NoLostWakeup

-----------------------------------------------------------------------------
\* The invariant holds at the beginning.
LEMMA InitInv == Init => IInv
  <1> SUFFICES ASSUME Init PROVE IInv
    OBVIOUS
  <1>1. \A h \in Handler : (h = current) \in BOOLEAN
    OBVIOUS
  <1>2. held \in [Handler -> BOOLEAN] /\ response = [h \in Handler |-> FALSE]
    BY <1>1 DEF Init
  <1>3. /\ linked \in [Handler -> BOOLEAN] /\ response \in [Handler -> BOOLEAN]
        /\ notified \in [Handler -> BOOLEAN]
        /\ requesting \in BOOLEAN /\ timer \in BOOLEAN /\ overlooked \in BOOLEAN
        /\ pc \in [Handler -> {"connecting", "idle", "available", "pulling", "taken"}]
    BY DEF Init
  <1> QED BY <1>2, <1>3 DEF IInv, FlagsOK, WaitingIsLinked, NoLostWakeup

\* What the end of a poll's response does to the handlers' flags.
LEMMA EndOfResponse ==
  ASSUME IInv, NEW h \in Handler, EndResponse(h)
  PROVE  /\ linked' \in [Handler -> BOOLEAN]
         /\ response' \in [Handler -> BOOLEAN] /\ held' \in [Handler -> BOOLEAN]
         /\ ~response'[h] /\ ~held'[h]
         /\ \A g \in Handler \ {h} : /\ response'[g] = response[g]
                                     /\ held'[g] = held[g] /\ linked'[g] = linked[g]
  <1>1. response' \in [Handler -> BOOLEAN] /\ held' \in [Handler -> BOOLEAN]
    BY DEF IInv, FlagsOK, EndResponse
  <1>2. linked' \in [Handler -> BOOLEAN]
    <2>1. (linked[h] /\ ~gone[h]) \in BOOLEAN
      BY DEF IInv, FlagsOK
    <2>2. linked' = [linked EXCEPT ![h] = linked[h] /\ ~gone[h]]
      BY DEF EndResponse
    <2> QED BY <2>1, <2>2 DEF IInv, FlagsOK
  <1>3. ~response'[h] /\ ~held'[h]
    BY DEF IInv, FlagsOK, EndResponse
  <1>4. \A g \in Handler \ {h} : /\ response'[g] = response[g]
                                 /\ held'[g] = held[g] /\ linked'[g] = linked[g]
    BY DEF IInv, FlagsOK, EndResponse
  <1> QED BY <1>1, <1>2, <1>3, <1>4

\* The session's thread keeps it.
LEMMA SessionStep == IInv /\ SessionNext => IInv'
  <1> SUFFICES ASSUME IInv, SessionNext PROVE IInv'
    OBVIOUS
  <1> USE DEF IInv, FlagsOK, WaitingIsLinked, NoLostWakeup, PendingMessagesAvailable
  <1>1. CASE SendMessageToClient
    BY <1>1 DEF SendMessageToClient, handlerVars, boundVars
  <1>2. CASE HandlerIsReadyForDispatch
    BY <1>2 DEF HandlerIsReadyForDispatch, handlerVars, boundVars
  <1>3. CASE UpdateCheckTimerTimeout
    <2>1. \A h \in Handler : (notified[h] \/ (linked[h] /\ PendingMessagesAvailable)) \in BOOLEAN
      OBVIOUS
    <2>2. notified' = [h \in Handler |->
                          notified[h] \/ (linked[h] /\ PendingMessagesAvailable)]
      BY <1>3 DEF UpdateCheckTimerTimeout
    <2>3. FlagsOK'
      <3>1. notified' \in [Handler -> BOOLEAN]
        BY <2>1, <2>2
      <3> QED BY <3>1, <1>3 DEF UpdateCheckTimerTimeout
    <2>4. WaitingIsLinked'
      BY <1>3 DEF UpdateCheckTimerTimeout
    <2>5. NoLostWakeup'
      BY <2>2, <1>3 DEF UpdateCheckTimerTimeout
    <2> QED BY <2>3, <2>4, <2>5
  <1> QED BY <1>1, <1>2, <1>3 DEF SessionNext

\* A handler that takes the messages keeps it: nothing is pending then.
LEMMA TakeStep ==
  ASSUME IInv, NEW h \in Handler, TakePendingMessages(h)
  PROVE  IInv'
  <1> USE DEF IInv, FlagsOK
  <1> DEFINE due == response[h] /\ held[h] /\ PendingMessagesAvailable
  <1>1. /\ UNCHANGED <<timer, linked, response, held>>
        /\ messages' = IF due THEN <<>> ELSE messages
        /\ requesting' = (requesting /\ ~due)
        /\ overlooked' = (overlooked /\ ~due)
        /\ pc' = [pc EXCEPT ![h] = IF ~due THEN "idle"
                                   ELSE IF requesting THEN "pulling" ELSE "taken"]
    BY DEF TakePendingMessages
  <1>2. \/ UNCHANGED notified
        \/ notified' = [notified EXCEPT ![h] = FALSE]
    BY DEF TakePendingMessages
  <1>3. FlagsOK'
    <2>1. requesting' \in BOOLEAN /\ overlooked' \in BOOLEAN
      BY <1>1
    <2>2. pc' \in [Handler -> {"connecting", "idle", "available", "pulling", "taken"}]
      <3> HIDE DEF due
      <3> QED BY <1>1
    <2>3. notified' \in [Handler -> BOOLEAN]
      BY <1>2
    <2> QED BY <1>1, <2>1, <2>2, <2>3
  <1>4. WaitingIsLinked'
    BY <1>1 DEF WaitingIsLinked
  <1>5. NoLostWakeup'
    <2>1. CASE due
      <3>1. ~PendingMessagesAvailable'
        BY <1>1, <2>1 DEF PendingMessagesAvailable
      <3> QED BY <3>1 DEF NoLostWakeup
    <2>2. CASE ~due
      <3>1. PendingMessagesAvailable' = PendingMessagesAvailable
        BY <1>1, <2>2 DEF PendingMessagesAvailable
      <3>2. ASSUME NEW g \in Handler, g # h
            PROVE  notified'[g] = notified[g] /\ pc'[g] = pc[g]
        BY <1>1, <1>2, <3>2
      <3> QED BY <1>1, <2>2, <3>1, <3>2 DEF NoLostWakeup
    <2> QED BY <2>1, <2>2
  <1> QED BY <1>3, <1>4, <1>5

\* Every step of a handler keeps it.
LEMMA HandlerStep ==
  ASSUME IInv, NEW h \in Handler, HandlerNext(h)
  PROVE  IInv'
  <1> USE DEF IInv, FlagsOK, WaitingIsLinked, NoLostWakeup, PendingMessagesAvailable
  <1>1. CASE TakePendingMessages(h)
    BY <1>1, TakeStep
  <1>2. CASE PullPendingMessages(h)
    BY <1>2 DEF PullPendingMessages, sessionVars, boundVars
  <1>3. CASE WriteMessages(h)
    <2>1. /\ UNCHANGED <<messages, requesting, timer, notified, overlooked>>
          /\ pc[h] = "taken" /\ pc' = [pc EXCEPT ![h] = "idle"]
          /\ EndResponse(h) \/ UNCHANGED <<held, response, linked>>
      BY <1>3 DEF WriteMessages, sessionVars, boundVars
    <2>2. CASE EndResponse(h)
      BY <2>1, <2>2, EndOfResponse
    <2>3. CASE UNCHANGED <<held, response, linked>>
      BY <2>1, <2>3
    <2> QED BY <2>1, <2>2, <2>3
  <1>4. CASE HandleSessionInteractionDormant(h)
    <2>1. /\ UNCHANGED <<messages, requesting, timer, notified, pc, overlooked>>
          /\ EndResponse(h) \/ UNCHANGED <<held, response, linked>>
      BY <1>4 DEF HandleSessionInteractionDormant, sessionVars, boundVars
    <2>2. CASE EndResponse(h)
      BY <2>1, <2>2, EndOfResponse
    <2>3. CASE UNCHANGED <<held, response, linked>>
      BY <2>1, <2>3
    <2> QED BY <2>1, <2>2, <2>3
  <1>5. CASE HandleSocketDisconnected(h)
    BY <1>5 DEF HandleSocketDisconnected, sessionVars, boundVars
  <1>6. CASE ConnectNewSession(h)
    <2>1. /\ UNCHANGED <<messages, requesting, timer, held, notified>>
          /\ response' = [response EXCEPT ![h] = TRUE]
          /\ linked' = [linked EXCEPT ![h] = TRUE]
      BY <1>6 DEF ConnectNewSession, sessionVars
    <2>2. CASE /\ pc' = [pc EXCEPT ![h] = IF PendingMessagesAvailable THEN "available" ELSE "idle"]
               /\ UNCHANGED overlooked /\ pc[h] = "connecting"
      BY <2>1, <2>2
    <2>3. CASE /\ pc' = [pc EXCEPT ![h] = "idle"] /\ pc[h] = "connecting"
               /\ overlooked' = (PendingMessagesAvailable /\ ~timer)
      BY <2>1, <2>3
    <2> QED BY <1>6, <2>2, <2>3 DEF ConnectNewSession
  <1> QED BY <1>1, <1>2, <1>3, <1>4, <1>5, <1>6 DEF HandlerNext

\* The client keeps it.
LEMMA ClientStep ==
  ASSUME IInv, NEW h \in Handler, ClientNext(h) \/ GiveUp(h)
  PROVE  IInv'
  <1> USE DEF IInv, FlagsOK, WaitingIsLinked, NoLostWakeup, PendingMessagesAvailable
  <1>1. CASE Attach(h)
    BY <1>1 DEF Attach, sessionVars, boundVars
  <1>2. CASE Receive(h)
    BY <1>2 DEF Receive, sessionVars, boundVars
  <1>3. CASE GiveUp(h)
    BY <1>3 DEF GiveUp, sessionVars, boundVars
  <1> QED BY <1>1, <1>2, <1>3 DEF ClientNext

\* Every step keeps it.
LEMMA NextInv == IInv /\ [Next]_vars => IInv'
  <1> SUFFICES ASSUME IInv, [Next]_vars PROVE IInv'
    OBVIOUS
  <1>1. CASE DispatchMessageToClient \/ PrepareMessage \/ InteractionCheckTimerTimeout
    BY <1>1 DEF DispatchMessageToClient, PrepareMessage, InteractionCheckTimerTimeout,
                sessionVars, handlerVars, boundVars, IInv, FlagsOK, WaitingIsLinked, NoLostWakeup,
                PendingMessagesAvailable
  <1>2. CASE SessionNext
    BY <1>2, SessionStep
  <1>3. CASE \E h \in Handler : HandlerNext(h) \/ ClientNext(h) \/ GiveUp(h)
    BY <1>3, HandlerStep, ClientStep
  <1>4. CASE UNCHANGED vars
    BY <1>4 DEF vars, sessionVars, handlerVars, boundVars, IInv, FlagsOK, WaitingIsLinked,
                NoLostWakeup, PendingMessagesAvailable
  <1> QED BY <1>1, <1>2, <1>3, <1>4 DEF Next

\* No wakeup is lost between the session's thread, which arms its timer and
\* signals, and the handlers' threads, which take messages, wait, answer and
\* are deleted, for any number of them.
THEOREM NoWakeupIsLost == Spec => []NoLostWakeup
  <1>1. IInv => NoLostWakeup
    BY DEF IInv
  <1> QED BY InitInv, NextInv, <1>1, PTL DEF Spec

-----------------------------------------------------------------------------
(* Types *)

\* The end of a response keeps the types of what it changes.
LEMMA EndOfResponseType ==
  ASSUME TypeOK, NEW h \in Handler, EndResponse(h)
  PROVE  /\ linked' \in [Handler -> BOOLEAN] /\ gone' \in [Handler -> BOOLEAN]
         /\ response' \in [Handler -> BOOLEAN] /\ held' \in [Handler -> BOOLEAN]
  <1>1. (linked[h] /\ ~gone[h]) \in BOOLEAN
    BY DEF TypeOK
  <1>2. linked' = [linked EXCEPT ![h] = linked[h] /\ ~gone[h]]
    BY DEF EndResponse
  <1> QED BY <1>1, <1>2 DEF EndResponse, TypeOK

\* The application and the session's thread keep the types.
LEMMA SessionType ==
  ASSUME TypeOK, \/ DispatchMessageToClient \/ PrepareMessage \/ SessionNext
                 \/ InteractionCheckTimerTimeout
  PROVE  TypeOK'
  <1> USE OutboxAssumption DEF TypeOK
  <1>1. CASE DispatchMessageToClient
    <2>1. sent["pushed"] + 1 \in 1..MaxMessages /\ sent' \in [Source -> 0..MaxMessages]
      BY <1>1 DEF DispatchMessageToClient, SendOf, Source
    <2>2. [source |-> "pushed", n |-> sent["pushed"] + 1] \in Message
      BY <2>1 DEF Message, Source
    <2>3. calls' \in Seq(Message \cup {HandlerIsReady})
      BY <1>1, <2>2 DEF DispatchMessageToClient
    <2> QED BY <1>1, <2>1, <2>3 DEF DispatchMessageToClient, handlerVars, clientVars, boundVars
  <1>2. CASE PrepareMessage
    <2>1. sent["pulled"] + 1 \in 1..MaxMessages /\ sent' \in [Source -> 0..MaxMessages]
      BY <1>2 DEF PrepareMessage, SendOf, Source
    <2>2. [source |-> "pulled", n |-> sent["pulled"] + 1] \in Message
      BY <2>1 DEF Message, Source
    <2>3. prepared' \in Seq(Message)
      BY <1>2, <2>2 DEF PrepareMessage
    <2>4. calls' \in Seq(Message \cup {HandlerIsReady})
      <3>1. calls' = calls \/ calls' = Append(calls, HandlerIsReady)
        BY <1>2 DEF PrepareMessage
      <3>2. CASE calls' = calls
        BY <3>2
      <3>3. CASE calls' = Append(calls, HandlerIsReady)
        <4> HIDE DEF HandlerIsReady
        <4>1. HandlerIsReady \in Message \cup {HandlerIsReady}
          OBVIOUS
        <4>2. calls \in Seq(Message \cup {HandlerIsReady})
          OBVIOUS
        <4> QED BY <3>3, <4>1, <4>2
      <3> QED BY <3>1, <3>2, <3>3
    <2> QED BY <1>2, <2>1, <2>3, <2>4 DEF PrepareMessage, handlerVars, clientVars, boundVars
  <1>3. CASE SendMessageToClient
    <2>1. Head(calls) \in Message /\ calls' \in Seq(Message \cup {HandlerIsReady})
      BY <1>3 DEF SendMessageToClient
    <2>2. messages' \in Seq(Message)
      BY <1>3, <2>1 DEF SendMessageToClient
    <2> QED BY <1>3, <2>1, <2>2 DEF SendMessageToClient, handlerVars, clientVars, boundVars
  <1>4. CASE HandlerIsReadyForDispatch
    <2>1. calls' \in Seq(Message \cup {HandlerIsReady})
      BY <1>4 DEF HandlerIsReadyForDispatch
    <2> QED BY <1>4, <2>1 DEF HandlerIsReadyForDispatch, handlerVars, clientVars, boundVars
  <1>5. CASE UpdateCheckTimerTimeout
    <2>1. \A h \in Handler : (notified[h] \/ (linked[h] /\ PendingMessagesAvailable)) \in BOOLEAN
      OBVIOUS
    <2>2. notified' \in [Handler -> BOOLEAN]
      BY <1>5, <2>1 DEF UpdateCheckTimerTimeout
    <2> QED BY <1>5, <2>2 DEF UpdateCheckTimerTimeout, clientVars, boundVars
  <1>6. CASE InteractionCheckTimerTimeout
    <2>1. \A h \in Handler : (dormant[h] \/ linked[h]) \in BOOLEAN
      OBVIOUS
    <2>2. dormant' \in [Handler -> BOOLEAN]
      BY <1>6, <2>1 DEF InteractionCheckTimerTimeout
    <2>3. dormants' \in 0..MaxDormant
      BY <1>6 DEF InteractionCheckTimerTimeout
    <2> QED BY <1>6, <2>2, <2>3 DEF InteractionCheckTimerTimeout, sessionVars, clientVars
  <1> QED BY <1>1, <1>2, <1>3, <1>4, <1>5, <1>6 DEF SessionNext

\* A handler keeps the types.
LEMMA HandlerType == ASSUME TypeOK, NEW h \in Handler, HandlerNext(h) PROVE TypeOK'
  <1> USE DEF TypeOK
  <1>1. CASE TakePendingMessages(h)
    <2> DEFINE due == response[h] /\ held[h] /\ PendingMessagesAvailable
    <2>1. /\ pc' = [pc EXCEPT ![h] = IF ~due THEN "idle"
                                     ELSE IF requesting THEN "pulling" ELSE "taken"]
          /\ batch' = IF due THEN [batch EXCEPT ![h] = messages] ELSE batch
          /\ messages' = IF due THEN <<>> ELSE messages
          /\ requesting' = (requesting /\ ~due) /\ overlooked' = (overlooked /\ ~due)
          /\ UNCHANGED notified \/ notified' = [notified EXCEPT ![h] = FALSE]
      BY <1>1 DEF TakePendingMessages
    <2>2. requesting' \in BOOLEAN /\ overlooked' \in BOOLEAN
      BY <2>1
    <2>3. messages' \in Seq(Message)
      BY <2>1
    <2>4. /\ pc' \in [Handler -> {"connecting", "idle", "available", "pulling", "taken"}]
          /\ batch' \in [Handler -> Seq(Message)] /\ notified' \in [Handler -> BOOLEAN]
      <3> HIDE DEF due
      <3> QED BY <2>1
    <2> QED BY <1>1, <2>2, <2>3, <2>4 DEF TakePendingMessages, clientVars, boundVars
  <1>2. CASE PullPendingMessages(h)
    <2>1. batch[h] \o prepared \in Seq(Message)
      OBVIOUS
    <2>2. batch' \in [Handler -> Seq(Message)]
      BY <1>2, <2>1 DEF PullPendingMessages
    <2> QED BY <1>2, <2>2 DEF PullPendingMessages, sessionVars, clientVars, boundVars
  <1>3. CASE WriteMessages(h)
    <2>1. answer[h] \o batch[h] \in Seq(Message)
      OBVIOUS
    <2>2. answer' \in [Handler -> Seq(Message)] /\ batch' \in [Handler -> Seq(Message)]
      BY <1>3, <2>1 DEF WriteMessages
    <2>3. EndResponse(h) \/ UNCHANGED <<held, response, gone, linked>>
      BY <1>3 DEF WriteMessages
    <2>4. /\ linked' \in [Handler -> BOOLEAN] /\ gone' \in [Handler -> BOOLEAN]
          /\ response' \in [Handler -> BOOLEAN] /\ held' \in [Handler -> BOOLEAN]
      BY <2>3, EndOfResponseType
    <2> QED BY <1>3, <2>2, <2>4 DEF WriteMessages, sessionVars, clientVars, boundVars
  <1>4. CASE HandleSessionInteractionDormant(h)
    <2>1. EndResponse(h) \/ UNCHANGED <<held, response, gone, linked>>
      BY <1>4 DEF HandleSessionInteractionDormant
    <2>2. /\ linked' \in [Handler -> BOOLEAN] /\ gone' \in [Handler -> BOOLEAN]
          /\ response' \in [Handler -> BOOLEAN] /\ held' \in [Handler -> BOOLEAN]
      BY <2>1, EndOfResponseType
    <2> QED BY <1>4, <2>2
            DEF HandleSessionInteractionDormant, sessionVars, clientVars, boundVars
  <1>5. CASE HandleSocketDisconnected(h)
    BY <1>5 DEF HandleSocketDisconnected, sessionVars, clientVars, boundVars
  <1>6. CASE ConnectNewSession(h)
    <2>1. /\ pc' \in [Handler -> {"connecting", "idle", "available", "pulling", "taken"}]
          /\ overlooked' \in BOOLEAN
      BY <1>6 DEF ConnectNewSession
    <2> QED BY <1>6, <2>1 DEF ConnectNewSession, sessionVars, clientVars
  <1> QED BY <1>1, <1>2, <1>3, <1>4, <1>5, <1>6 DEF HandlerNext

\* The client keeps the types.
LEMMA ClientType ==
  ASSUME TypeOK, NEW h \in Handler, ClientNext(h) \/ GiveUp(h)
  PROVE  TypeOK'
  <1> USE OutboxAssumption DEF TypeOK
  <1>1. CASE Attach(h)
    BY <1>1 DEF Attach, sessionVars, boundVars
  <1>2. CASE Receive(h)
    <2>1. received' \in Seq(Message) /\ answer' \in [Handler -> Seq(Message)]
      BY <1>2 DEF Receive
    <2> QED BY <1>2, <2>1 DEF Receive, sessionVars, boundVars
  <1>3. CASE GiveUp(h)
    BY <1>3 DEF GiveUp, sessionVars
  <1> QED BY <1>1, <1>2, <1>3 DEF ClientNext

LEMMA TypeInit == Init => TypeOK
  <1> SUFFICES ASSUME Init PROVE TypeOK
    OBVIOUS
  <1> USE OutboxAssumption DEF Init
  <1>1. sent \in [Source -> 0..MaxMessages]
    OBVIOUS
  <1>2. /\ calls \in Seq(Message \cup {HandlerIsReady})
        /\ messages \in Seq(Message) /\ prepared \in Seq(Message)
        /\ received \in Seq(Message)
    OBVIOUS
  <1>3. <<>> \in Seq(Message)
    OBVIOUS
  <1>4. batch \in [Handler -> Seq(Message)] /\ answer \in [Handler -> Seq(Message)]
    BY <1>3
  <1>5. /\ linked \in [Handler -> BOOLEAN] /\ response \in [Handler -> BOOLEAN]
        /\ held \in [Handler -> BOOLEAN] /\ notified \in [Handler -> BOOLEAN]
        /\ dormant \in [Handler -> BOOLEAN] /\ gone \in [Handler -> BOOLEAN]
        /\ pc \in [Handler -> {"connecting", "idle", "available", "pulling", "taken"}]
    OBVIOUS
  <1>6. timeouts \in 0..MaxTimeouts /\ dormants \in 0..MaxDormant
    OBVIOUS
  <1>7. /\ current \in Handler \cup {NoHandler}
        /\ requesting \in BOOLEAN /\ timer \in BOOLEAN /\ overlooked \in BOOLEAN
    OBVIOUS
  <1> QED BY <1>1, <1>2, <1>4, <1>5, <1>6, <1>7 DEF TypeOK

LEMMA TypeNext == TypeOK /\ [Next]_vars => TypeOK'
  <1> SUFFICES ASSUME TypeOK, [Next]_vars PROVE TypeOK'
    OBVIOUS
  <1>1. CASE UNCHANGED vars
    BY <1>1 DEF vars, sessionVars, handlerVars, clientVars, boundVars, TypeOK
  <1> QED BY <1>1, SessionType, HandlerType, ClientType DEF Next

\* Every variable keeps its type: in particular a thread that takes messages
\* never finds an announcement among them.
THEOREM TypeCorrect == Spec => []TypeOK
  BY TypeInit, TypeNext, PTL DEF Spec

-----------------------------------------------------------------------------
(* The channel *)

\* Numbers of one source that come before those of another.
Less(A, B) == \A m \in A, n \in B : m < n

\* A handler has messages in hand only while it serves a client, and a client it has
\* lost is gone.  Nothing is written for a client that does not wait here.
HandlersOK ==
    /\ \A h \in Handler :
        /\ pc[h] = "connecting" => current = h /\ h \notin Polling
        /\ pc[h] \in {"connecting", "idle", "available"} => batch[h] = <<>>
        /\ pc[h] \in {"pulling", "taken"} => response[h]
        /\ response[h] => current = h \/ gone[h]
        /\ current # h => answer[h] = <<>>
        /\ gone[h] => current # h /\ MaxTimeouts > 0

\* What is pushed and what is pulled goes different ways.
SourcesOK ==
    /\ \A i \in DOMAIN messages : messages[i].source = "pushed"
    /\ \A i \in DOMAIN prepared : prepared[i].source = "pulled"
    /\ \A i \in DOMAIN calls : calls[i].source = "pushed" \/ calls[i] = HandlerIsReady

\* The calls, which may have announcements among them, are in order as well.
CallsInOrder ==
    \A i, j \in DOMAIN calls :
        i < j /\ calls[i] # HandlerIsReady /\ calls[j] # HandlerIsReady => calls[i].n < calls[j].n

\* What has been written for the client that waits, and what its handler has taken.
Written == IF current = NoHandler THEN <<>> ELSE answer[current]
Taken == IF current = NoHandler THEN <<>> ELSE batch[current]

\* All sequences of messages are in order.
SequencesOK ==
    /\ Channel!InOrder(received) /\ Channel!InOrder(Written) /\ Channel!InOrder(Taken)
    /\ Channel!InOrder(messages) /\ Channel!InOrder(prepared)
    /\ CallsInOrder

\* The stages of the way: what is further on it has the smaller numbers.
StagesInOrder(last, R, W, T, M, P, C) ==
    /\ R \cup W \cup T \cup M \cup P \cup C \subseteq 1..last
    /\ Less(R, W \cup T \cup M \cup P \cup C)
    /\ Less(W, T \cup M \cup P \cup C)
    /\ Less(T, M \cup P \cup C)
    /\ Less(M, C)

StagesOK ==
    \A s \in Source :
        StagesInOrder(sent[s], NumbersOf(s, received), NumbersOf(s, Written),
                      NumbersOf(s, Taken), NumbersOf(s, messages),
                      NumbersOf(s, prepared), NumbersOf(s, calls))

ChannelInv == TypeOK /\ HandlersOK /\ SourcesOK /\ SequencesOK /\ StagesOK

\* The elements of the sequences.
Entry == Message \cup {HandlerIsReady}

LEMMA AnnouncementIsNoMessage == HandlerIsReady \notin Message /\ Message \subseteq Entry
  BY OutboxAssumption DEF HandlerIsReady, Message, Entry

-----------------------------------------------------------------------------
(* What the numbers in a sequence are, and when it stays in order *)

LEMMA NumbersOfEmpty == ASSUME NEW s PROVE NumbersOf(s, <<>>) = {}
  BY DEF NumbersOf

LEMMA NumbersOfAppend ==
  ASSUME NEW s, NEW q \in Seq(Entry), NEW e \in Entry
  PROVE  NumbersOf(s, Append(q, e)) =
           NumbersOf(s, q) \cup (IF e.source = s /\ e # HandlerIsReady THEN {e.n} ELSE {})
  <1> HIDE DEF Entry, HandlerIsReady
  <1>1. /\ DOMAIN Append(q, e) = 1..(Len(q) + 1) /\ DOMAIN q = 1..Len(q) /\ Len(q) \in Nat
        /\ \A i \in 1..Len(q) : Append(q, e)[i] = q[i]
        /\ Append(q, e)[Len(q) + 1] = e
    OBVIOUS
  <1> QED BY <1>1 DEF NumbersOf

LEMMA NumbersOfConcat ==
  ASSUME NEW s, NEW p \in Seq(Entry), NEW q \in Seq(Entry)
  PROVE  NumbersOf(s, p \o q) = NumbersOf(s, p) \cup NumbersOf(s, q)
  <1>1. /\ DOMAIN (p \o q) = 1..(Len(p) + Len(q)) /\ Len(p) \in Nat /\ Len(q) \in Nat
        /\ DOMAIN p = 1..Len(p) /\ DOMAIN q = 1..Len(q)
        /\ \A i \in 1..Len(p) : (p \o q)[i] = p[i]
        /\ \A i \in 1..Len(q) : (p \o q)[Len(p) + i] = q[i]
    BY ConcatProperties
  <1>2. \A k \in DOMAIN (p \o q) :
          k \in DOMAIN p \/ (k - Len(p) \in DOMAIN q /\ k = Len(p) + (k - Len(p)))
    BY <1>1
  <1>3. ASSUME NEW n \in NumbersOf(s, p \o q) PROVE n \in NumbersOf(s, p) \cup NumbersOf(s, q)
    <2>1. PICK k \in DOMAIN (p \o q) :
            n = (p \o q)[k].n /\ (p \o q)[k].source = s /\ (p \o q)[k] # HandlerIsReady
      BY DEF NumbersOf
    <2>2. CASE k \in DOMAIN p
      BY <1>1, <2>1, <2>2 DEF NumbersOf
    <2>3. CASE k - Len(p) \in DOMAIN q /\ k = Len(p) + (k - Len(p))
      <3>1. (p \o q)[k] = q[k - Len(p)]
        BY <1>1, <2>3
      <3> QED BY <2>1, <2>3, <3>1 DEF NumbersOf
    <2> QED BY <1>2, <2>2, <2>3
  <1>4. ASSUME NEW n \in NumbersOf(s, p) PROVE n \in NumbersOf(s, p \o q)
    BY <1>1 DEF NumbersOf
  <1>5. ASSUME NEW n \in NumbersOf(s, q) PROVE n \in NumbersOf(s, p \o q)
    <2>1. PICK i \in DOMAIN q : n = q[i].n /\ q[i].source = s /\ q[i] # HandlerIsReady
      BY DEF NumbersOf
    <2>2. Len(p) + i \in DOMAIN (p \o q) /\ (p \o q)[Len(p) + i] = q[i]
      BY <1>1
    <2> QED BY <2>1, <2>2 DEF NumbersOf
  <1> QED BY <1>3, <1>4, <1>5

LEMMA NumbersOfTail ==
  ASSUME NEW s, NEW q \in Seq(Entry), q # <<>>
  PROVE  /\ Head(q) \in Entry /\ Tail(q) \in Seq(Entry)
         /\ NumbersOf(s, q) = NumbersOf(s, Tail(q)) \cup
              (IF Head(q).source = s /\ Head(q) # HandlerIsReady THEN {Head(q).n} ELSE {})
  <1> HIDE DEF Entry, HandlerIsReady
  <1>1. /\ Head(q) \in Entry /\ Tail(q) \in Seq(Entry) /\ Len(q) \in Nat /\ Len(q) >= 1
        /\ DOMAIN q = 1..Len(q) /\ DOMAIN Tail(q) = 1..(Len(q) - 1)
        /\ q[1] = Head(q) /\ \A i \in 1..(Len(q) - 1) : Tail(q)[i] = q[i + 1]
    OBVIOUS
  <1>2. ASSUME NEW n \in NumbersOf(s, q), ~(Head(q).source = s /\ Head(q) # HandlerIsReady /\ n = Head(q).n)
        PROVE  n \in NumbersOf(s, Tail(q))
    <2>1. PICK i \in DOMAIN q : n = q[i].n /\ q[i].source = s /\ q[i] # HandlerIsReady
      BY DEF NumbersOf
    <2>2. i # 1
      BY <1>1, <1>2, <2>1
    <2>3. i - 1 \in 1..(Len(q) - 1) /\ Tail(q)[i - 1] = q[(i - 1) + 1] /\ (i - 1) + 1 = i
      BY <1>1, <2>2
    <2> QED BY <1>1, <2>1, <2>3 DEF NumbersOf
  <1>3. ASSUME NEW n \in NumbersOf(s, Tail(q)) PROVE n \in NumbersOf(s, q)
    <2>1. PICK i \in 1..(Len(q) - 1) :
            n = Tail(q)[i].n /\ Tail(q)[i].source = s /\ Tail(q)[i] # HandlerIsReady
      BY <1>1 DEF NumbersOf
    <2>2. i + 1 \in DOMAIN q /\ q[i + 1] = Tail(q)[i]
      BY <1>1
    <2> QED BY <2>1, <2>2 DEF NumbersOf
  <1>4. Head(q).source = s /\ Head(q) # HandlerIsReady => Head(q).n \in NumbersOf(s, q)
    BY <1>1 DEF NumbersOf
  <1> QED BY <1>1, <1>2, <1>3, <1>4

\* The channel's numbers are the same where there are no announcements.
LEMMA NumbersOfMessages ==
  ASSUME NEW s, NEW q \in Seq(Message)
  PROVE  Channel!Numbers(s, q) = NumbersOf(s, q)
  <1>1. \A i \in DOMAIN q : q[i] \in Message
    OBVIOUS
  <1>2. \A i \in DOMAIN q : q[i] # HandlerIsReady
    BY <1>1, AnnouncementIsNoMessage
  <1> QED BY <1>2 DEF NumbersOf, Channel!Numbers

LEMMA InOrderAppend ==
  ASSUME NEW q \in Seq(Message), NEW e \in Message, Channel!InOrder(q),
         \A n \in NumbersOf(e.source, q) : n < e.n
  PROVE  Channel!InOrder(Append(q, e))
  <1> DEFINE r == Append(q, e)
  <1>1. /\ DOMAIN r = 1..(Len(q) + 1) /\ DOMAIN q = 1..Len(q) /\ Len(q) \in Nat
        /\ \A i \in 1..Len(q) : r[i] = q[i] /\ q[i] \in Message
        /\ r[Len(q) + 1] = e
    OBVIOUS
  <1>2. \A i \in DOMAIN q : q[i].source = e.source => q[i].n \in NumbersOf(e.source, q)
    BY <1>1, AnnouncementIsNoMessage DEF NumbersOf
  <1> HIDE DEF r
  <1>3. ASSUME NEW i \in DOMAIN r, NEW j \in DOMAIN r, i < j, r[i].source = r[j].source
        PROVE  r[i].n < r[j].n
    <2>1. CASE j \in 1..Len(q)
      BY <1>1, <1>3, <2>1 DEF Channel!InOrder
    <2>2. CASE j = Len(q) + 1
      <3>1. i \in 1..Len(q) /\ r[i] = q[i] /\ r[j] = e
        BY <1>1, <1>3, <2>2
      <3> QED BY <1>1, <1>2, <1>3, <3>1
    <2> QED BY <1>1, <2>1, <2>2
  <1>4. Channel!InOrder(r)
    BY <1>3 DEF Channel!InOrder
  <1> QED BY <1>4 DEF r

LEMMA InOrderConcat ==
  ASSUME NEW p \in Seq(Message), NEW q \in Seq(Message),
         Channel!InOrder(p), Channel!InOrder(q),
         \A s \in Source : Less(NumbersOf(s, p), NumbersOf(s, q))
  PROVE  Channel!InOrder(p \o q)
  <1> DEFINE r == p \o q
  <1>1. /\ DOMAIN r = 1..(Len(p) + Len(q)) /\ Len(p) \in Nat /\ Len(q) \in Nat
        /\ DOMAIN p = 1..Len(p) /\ DOMAIN q = 1..Len(q)
        /\ \A i \in 1..Len(p) : r[i] = p[i] /\ p[i] \in Message
        /\ \A i \in 1..Len(q) : r[Len(p) + i] = q[i] /\ q[i] \in Message
    BY ConcatProperties
  <1> HIDE DEF r
  <1>2. /\ \A i \in 1..Len(p) : p[i].n \in NumbersOf(p[i].source, p) /\ p[i].source \in Source
        /\ \A i \in 1..Len(q) : q[i].n \in NumbersOf(q[i].source, q)
    <2>1. \A m \in Message : m.source \in Source /\ m # HandlerIsReady
      BY AnnouncementIsNoMessage DEF Message
    <2> QED BY <1>1, <2>1 DEF NumbersOf
  <1>3. \A k \in DOMAIN r : k \in 1..Len(p) \/ \E i \in 1..Len(q) : k = Len(p) + i
    <2> SUFFICES ASSUME NEW k \in DOMAIN r, k \notin 1..Len(p)
                 PROVE  \E i \in 1..Len(q) : k = Len(p) + i
      OBVIOUS
    <2>1. k - Len(p) \in 1..Len(q) /\ k = Len(p) + (k - Len(p))
      BY <1>1
    <2> QED BY <2>1
  <1>4. ASSUME NEW i \in DOMAIN r, NEW j \in DOMAIN r, i < j, r[i].source = r[j].source
        PROVE  r[i].n < r[j].n
    <2>1. CASE i \in 1..Len(p) /\ j \in 1..Len(p)
      BY <1>1, <1>4, <2>1 DEF Channel!InOrder
    <2>2. CASE i \in 1..Len(p) /\ \E b \in 1..Len(q) : j = Len(p) + b
      <3>1. PICK b \in 1..Len(q) : j = Len(p) + b
        BY <2>2
      <3>2. r[i] = p[i] /\ r[j] = q[b]
        BY <1>1, <2>2, <3>1
      <3>3. /\ p[i].n \in NumbersOf(p[i].source, p) /\ q[b].n \in NumbersOf(p[i].source, q)
            /\ p[i].source \in Source
        BY <1>2, <1>4, <2>2, <3>1, <3>2
      <3> QED BY <3>2, <3>3 DEF Less
    <2>3. CASE (\E a \in 1..Len(q) : i = Len(p) + a) /\ \E b \in 1..Len(q) : j = Len(p) + b
      <3>1. PICK a \in 1..Len(q), b \in 1..Len(q) : i = Len(p) + a /\ j = Len(p) + b
        BY <2>3
      <3>2. a < b /\ r[i] = q[a] /\ r[j] = q[b]
        BY <1>1, <1>4, <3>1
      <3>3. a \in DOMAIN q /\ b \in DOMAIN q /\ q[a].source = q[b].source
        BY <1>1, <1>4, <3>2
      <3>4. q[a].n < q[b].n
        BY <3>2, <3>3 DEF Channel!InOrder
      <3> QED BY <3>2, <3>4
    <2>4. ~((\E a \in 1..Len(q) : i = Len(p) + a) /\ j \in 1..Len(p))
      BY <1>1, <1>4
    <2> QED BY <1>3, <2>1, <2>2, <2>3, <2>4
  <1>5. Channel!InOrder(r)
    BY <1>4 DEF Channel!InOrder
  <1> QED BY <1>5 DEF r

-----------------------------------------------------------------------------
(* Every step keeps the invariant *)

\* The end of a response leaves the handler without one.
LEMMA EndedResponse ==
  ASSUME TypeOK, NEW h \in Handler, EndResponse(h) \/ UNCHANGED <<held, response, gone, linked>>
  PROVE  /\ \A g \in Handler : response'[g] => response[g] /\ gone'[g] = gone[g]
         /\ \A g \in Handler : gone'[g] => gone[g]
  BY DEF EndResponse, TypeOK

LEMMA HandlersStep == ASSUME TypeOK, HandlersOK, [Next]_vars PROVE HandlersOK'
  <1> USE DEF TypeOK, HandlersOK
  <1>1. CASE DispatchMessageToClient \/ PrepareMessage \/ SessionNext \/ InteractionCheckTimerTimeout
    BY <1>1 DEF DispatchMessageToClient, PrepareMessage, SessionNext, SendMessageToClient,
                HandlerIsReadyForDispatch, UpdateCheckTimerTimeout,
                InteractionCheckTimerTimeout, handlerVars, clientVars
  <1>2. ASSUME NEW h \in Handler, TakePendingMessages(h) PROVE HandlersOK'
    <2> DEFINE due == response[h] /\ held[h] /\ PendingMessagesAvailable
    <2>1. /\ pc' = [pc EXCEPT ![h] = IF ~due THEN "idle"
                                     ELSE IF requesting THEN "pulling" ELSE "taken"]
          /\ batch' = IF due THEN [batch EXCEPT ![h] = messages] ELSE batch
          /\ pc[h] \in {"idle", "available"}
          /\ UNCHANGED <<response, current, gone, answer>>
      BY <1>2 DEF TakePendingMessages, clientVars
    <2>2. \A g \in Handler \ {h} : pc'[g] = pc[g] /\ batch'[g] = batch[g]
      BY <2>1
    <2>3. /\ pc'[h] \in {"idle", "available"} => batch'[h] = <<>>
          /\ pc'[h] # "connecting"
      BY <2>1
    <2>4. pc'[h] \in {"pulling", "taken"} => response[h]
      BY <2>1
    <2> HIDE DEF due
    <2> QED BY <2>1, <2>2, <2>3, <2>4
  <1>3. ASSUME NEW h \in Handler, PullPendingMessages(h) PROVE HandlersOK'
    BY <1>3 DEF PullPendingMessages, clientVars
  <1>4. ASSUME NEW h \in Handler, WriteMessages(h) PROVE HandlersOK'
    <2>1. /\ pc[h] = "taken" /\ pc' = [pc EXCEPT ![h] = "idle"]
          /\ batch' = [batch EXCEPT ![h] = <<>>] /\ UNCHANGED current
          /\ EndResponse(h) \/ UNCHANGED <<held, response, gone, linked>>
      BY <1>4 DEF WriteMessages, clientVars
    <2>2. /\ \A g \in Handler : response'[g] => response[g] /\ gone'[g] = gone[g]
          /\ \A g \in Handler : gone'[g] => gone[g]
          /\ \A g \in Handler \ {h} : response'[g] = response[g]
      <3>1. \A g \in Handler \ {h} : response'[g] = response[g]
        BY <2>1 DEF EndResponse
      <3> QED BY <2>1, <3>1, EndedResponse
    <2>3. \A g \in Handler : current # g => answer'[g] = <<>>
      <3>1. CASE gone[h]
        BY <1>4, <3>1 DEF WriteMessages
      <3>2. CASE ~gone[h]
        <4>1. current = h
          BY <2>1, <3>2
        <4>2. answer' = [answer EXCEPT ![h] = @ \o batch[h]]
          BY <1>4, <3>2 DEF WriteMessages
        <4> QED BY <4>1, <4>2
      <3> QED BY <3>1, <3>2
    <2> QED BY <2>1, <2>2, <2>3
  <1>5. ASSUME NEW h \in Handler, HandleSessionInteractionDormant(h) PROVE HandlersOK'
    <2>1. /\ pc[h] = "idle" /\ UNCHANGED <<pc, batch, answer, current>>
          /\ EndResponse(h) \/ UNCHANGED <<held, response, gone, linked>>
      BY <1>5 DEF HandleSessionInteractionDormant, clientVars
    <2>2. /\ \A g \in Handler : response'[g] => response[g] /\ gone'[g] = gone[g]
          /\ \A g \in Handler : gone'[g] => gone[g]
          /\ \A g \in Handler \ {h} : response'[g] = response[g]
      <3>1. \A g \in Handler \ {h} : response'[g] = response[g]
        BY <2>1 DEF EndResponse
      <3> QED BY <2>1, <3>1, EndedResponse
    <2> QED BY <2>1, <2>2
  <1>6. ASSUME NEW h \in Handler, HandleSocketDisconnected(h) PROVE HandlersOK'
    BY <1>6 DEF HandleSocketDisconnected, clientVars
  <1>7. ASSUME NEW h \in Handler, Attach(h) PROVE HandlersOK'
    BY <1>7, OutboxAssumption DEF Attach
  <1>8. ASSUME NEW h \in Handler, Receive(h) PROVE HandlersOK'
    BY <1>8, OutboxAssumption DEF Receive
  <1>9. ASSUME NEW h \in Handler, GiveUp(h) PROVE HandlersOK'
    BY <1>9, OutboxAssumption DEF GiveUp
  <1>10. ASSUME NEW h \in Handler, ConnectNewSession(h) PROVE HandlersOK'
    BY <1>10 DEF ConnectNewSession, clientVars
  <1>11. CASE UNCHANGED vars
    BY <1>11 DEF vars, handlerVars, clientVars
  <1> QED BY <1>1, <1>2, <1>3, <1>4, <1>5, <1>6, <1>7, <1>8, <1>9, <1>10, <1>11
          DEF Next, HandlerNext, ClientNext

\* The next message of a source.
LEMMA NextIsMessage ==
  ASSUME TypeOK, NEW s \in Source, sent[s] < MaxMessages
  PROVE  /\ sent[s] + 1 \in 1..MaxMessages
         /\ [source |-> s, n |-> sent[s] + 1] \in Message
  <1>1. sent[s] + 1 \in 1..MaxMessages
    BY OutboxAssumption DEF TypeOK
  <1> QED BY <1>1 DEF Message

LEMMA SourcesStep == ASSUME TypeOK, SourcesOK, [Next]_vars PROVE SourcesOK'
  <1> USE DEF TypeOK
  <1>1. ASSUME NEW q \in Seq(Entry), NEW e \in Entry, NEW i \in DOMAIN Append(q, e)
        PROVE  Append(q, e)[i] = e \/ (i \in DOMAIN q /\ Append(q, e)[i] = q[i])
    <2> HIDE DEF Entry
    <2> QED BY <1>1
  <1>2. Message \subseteq Entry /\ HandlerIsReady \in Entry
    BY DEF Entry
  <1>3. calls \in Seq(Entry) /\ messages \in Seq(Entry) /\ prepared \in Seq(Entry)
    BY <1>2 DEF Entry
  <1>4. ASSUME calls # <<>>
        PROVE  /\ 1 \in DOMAIN calls /\ Head(calls) = calls[1] /\ Head(calls) \in Entry
               /\ \A i \in DOMAIN Tail(calls) : i + 1 \in DOMAIN calls /\ Tail(calls)[i] = calls[i + 1]
    <2> HIDE DEF Entry, HandlerIsReady
    <2> QED BY <1>3, <1>4
  <1>5. CASE DispatchMessageToClient
    <2>1. /\ calls' = Append(calls, [source |-> "pushed", n |-> sent["pushed"] + 1])
          /\ UNCHANGED <<messages, prepared>>
      BY <1>5 DEF DispatchMessageToClient
    <2>2. [source |-> "pushed", n |-> sent["pushed"] + 1] \in Entry
      BY <1>2, <1>5, NextIsMessage DEF DispatchMessageToClient, Source
    <2> QED BY <1>1, <1>3, <2>1, <2>2 DEF SourcesOK
  <1>6. CASE PrepareMessage
    <2>1. /\ prepared' = Append(prepared, [source |-> "pulled", n |-> sent["pulled"] + 1])
          /\ calls' = calls \/ calls' = Append(calls, HandlerIsReady)
          /\ UNCHANGED messages
      BY <1>6 DEF PrepareMessage
    <2>2. [source |-> "pulled", n |-> sent["pulled"] + 1] \in Entry
      BY <1>2, <1>6, NextIsMessage DEF PrepareMessage, Source
    <2>3. \A i \in DOMAIN prepared' : prepared'[i].source = "pulled"
      <3>1. PICK e \in Entry : e.source = "pulled" /\ prepared' = Append(prepared, e)
        BY <2>1, <2>2
      <3>2. \A i \in DOMAIN prepared : prepared[i].source = "pulled"
        BY DEF SourcesOK
      <3> QED BY <1>1, <1>3, <3>1, <3>2
    <2>4. \A i \in DOMAIN calls' : calls'[i].source = "pushed" \/ calls'[i] = HandlerIsReady
      <3>1. CASE calls' = calls
        BY <3>1 DEF SourcesOK
      <3>2. CASE calls' = Append(calls, HandlerIsReady)
        <4>1. \A i \in DOMAIN calls : calls[i].source = "pushed" \/ calls[i] = HandlerIsReady
          BY DEF SourcesOK
        <4>2. HandlerIsReady \in Entry /\ calls \in Seq(Entry)
          BY <1>2, <1>3
        <4> HIDE DEF HandlerIsReady, TypeOK
        <4> QED BY <1>1, <3>2, <4>1, <4>2
      <3> QED BY <2>1, <3>1, <3>2
    <2> QED BY <2>1, <2>3, <2>4 DEF SourcesOK
  <1>7. CASE SendMessageToClient
    <2>1. /\ calls # <<>> /\ Head(calls) # HandlerIsReady /\ calls' = Tail(calls)
          /\ messages' = Append(messages, Head(calls)) /\ UNCHANGED prepared
      BY <1>7 DEF SendMessageToClient
    <2>2. Head(calls).source = "pushed" /\ Head(calls) \in Entry
      BY <1>4, <2>1 DEF SourcesOK
    <2>3. \A i \in DOMAIN messages' : messages'[i].source = "pushed"
      BY <1>1, <1>3, <2>1, <2>2 DEF SourcesOK
    <2>4. \A i \in DOMAIN calls' : calls'[i].source = "pushed" \/ calls'[i] = HandlerIsReady
      BY <1>4, <2>1 DEF SourcesOK
    <2> QED BY <2>1, <2>3, <2>4 DEF SourcesOK
  <1>8. CASE HandlerIsReadyForDispatch
    <2>1. calls # <<>> /\ calls' = Tail(calls) /\ UNCHANGED <<messages, prepared>>
      BY <1>8 DEF HandlerIsReadyForDispatch
    <2>2. \A i \in DOMAIN calls' : calls'[i].source = "pushed" \/ calls'[i] = HandlerIsReady
      BY <1>4, <2>1 DEF SourcesOK
    <2> QED BY <2>1, <2>2 DEF SourcesOK
  <1>9. ASSUME /\ messages' = messages \/ messages' = <<>>
               /\ prepared' = prepared \/ prepared' = <<>>
               /\ UNCHANGED calls
        PROVE  SourcesOK'
    BY <1>9 DEF SourcesOK
  <1>10. CASE UpdateCheckTimerTimeout \/ InteractionCheckTimerTimeout
    BY <1>9, <1>10 DEF UpdateCheckTimerTimeout, InteractionCheckTimerTimeout, sessionVars
  <1>11. CASE \E h \in Handler : HandlerNext(h) \/ ClientNext(h) \/ GiveUp(h)
    BY <1>9, <1>11 DEF HandlerNext, ClientNext, TakePendingMessages, PullPendingMessages,
                       WriteMessages, HandleSessionInteractionDormant,
                       HandleSocketDisconnected, ConnectNewSession, Attach, Receive,
                       GiveUp, sessionVars
  <1>12. CASE UNCHANGED vars
    BY <1>9, <1>12 DEF vars, sessionVars
  <1> QED BY <1>5, <1>6, <1>7, <1>8, <1>10, <1>11, <1>12 DEF Next, SessionNext

-----------------------------------------------------------------------------
(* What a step does to the messages on their way *)

Flow == <<sent, received, Written, Taken, messages, prepared, calls>>

FlowOfDispatch ==
    /\ DispatchMessageToClient
    /\ UNCHANGED <<received, Written, Taken, messages, prepared>>

FlowOfPrepare ==
    /\ PrepareMessage
    /\ UNCHANGED <<received, Written, Taken, messages>>

FlowOfCall ==
    /\ calls # <<>> /\ calls' = Tail(calls)
    /\ messages' = IF Head(calls) = HandlerIsReady THEN messages ELSE Append(messages, Head(calls))
    /\ UNCHANGED <<sent, received, Written, Taken, prepared>>

FlowOfTake ==
    /\ Taken = <<>> /\ Taken' = messages /\ messages' = <<>>
    /\ UNCHANGED <<sent, received, Written, prepared, calls>>

FlowOfPull ==
    /\ Taken' = Taken \o prepared /\ prepared' = <<>>
    /\ UNCHANGED <<sent, received, Written, messages, calls>>

FlowOfWrite ==
    /\ Written' = Written \o Taken /\ Taken' = <<>>
    /\ UNCHANGED <<sent, received, messages, prepared, calls>>

FlowOfReceive ==
    /\ received' = received \o Written /\ Written' = <<>>
    /\ UNCHANGED <<sent, Taken, messages, prepared, calls>>

\* Some of them are lost, with a client that has given up or by its handler.
FlowOfLoss ==
    /\ MaxTimeouts > 0
    /\ Written' \in {Written, <<>>} /\ Taken' \in {Taken, <<>>}
    /\ messages' \in {messages, <<>>} /\ prepared' \in {prepared, <<>>}
    /\ UNCHANGED <<sent, received, calls>>

LEMMA OnTheWay ==
  ASSUME TypeOK PROVE Written \in Seq(Message) /\ Taken \in Seq(Message)
  <1>1. \A h \in Handler : answer[h] \in Seq(Message) /\ batch[h] \in Seq(Message)
    BY DEF TypeOK
  <1>2. current = NoHandler \/ current \in Handler
    BY DEF TypeOK
  <1>3. <<>> \in Seq(Message)
    OBVIOUS
  <1> HIDE DEF Message
  <1> QED BY <1>1, <1>2, <1>3 DEF Written, Taken

\* Every step moves messages one stage further, in one piece, or loses them.
LEMMA StepsAreFlow ==
  ASSUME TypeOK, HandlersOK, [Next]_vars
  PROVE  \/ FlowOfDispatch \/ FlowOfPrepare \/ FlowOfCall \/ FlowOfTake \/ FlowOfPull
         \/ FlowOfWrite \/ FlowOfReceive \/ FlowOfLoss \/ UNCHANGED Flow
  <1> DEFINE Goal == \/ FlowOfDispatch \/ FlowOfPrepare \/ FlowOfCall \/ FlowOfTake \/ FlowOfPull
                     \/ FlowOfWrite \/ FlowOfReceive \/ FlowOfLoss \/ UNCHANGED Flow
  <1>1. \A h \in Handler : current # h /\ response[h] => gone[h] /\ MaxTimeouts > 0
    BY DEF HandlersOK
  <1>2. ASSUME UNCHANGED <<answer, batch, current>> PROVE UNCHANGED <<Written, Taken>>
    BY <1>2 DEF Written, Taken
  <1>3. CASE DispatchMessageToClient
    BY <1>2, <1>3 DEF DispatchMessageToClient, FlowOfDispatch, handlerVars, clientVars
  <1>4. CASE PrepareMessage
    BY <1>2, <1>4 DEF PrepareMessage, FlowOfPrepare, handlerVars, clientVars
  <1>5. CASE SendMessageToClient
    BY <1>2, <1>5 DEF SendMessageToClient, FlowOfCall, handlerVars, clientVars
  <1>6. CASE HandlerIsReadyForDispatch
    BY <1>2, <1>6 DEF HandlerIsReadyForDispatch, FlowOfCall, handlerVars, clientVars
  <1>7. CASE UpdateCheckTimerTimeout \/ InteractionCheckTimerTimeout
    BY <1>2, <1>7 DEF UpdateCheckTimerTimeout, InteractionCheckTimerTimeout, Flow, sessionVars, clientVars
  <1>8. ASSUME NEW h \in Handler, TakePendingMessages(h) PROVE Goal
    <2>1. /\ UNCHANGED <<sent, prepared, calls, answer, current, received>>
          /\ \/ UNCHANGED <<batch, messages>>
             \/ /\ batch' = [batch EXCEPT ![h] = messages] /\ messages' = <<>>
                /\ response[h] /\ batch[h] = <<>>
      BY <1>8 DEF TakePendingMessages, clientVars, HandlersOK
    <2>2. CASE UNCHANGED <<batch, messages>>
      BY <1>2, <2>1, <2>2 DEF Flow
    <2>3. CASE /\ batch' = [batch EXCEPT ![h] = messages] /\ messages' = <<>>
               /\ response[h] /\ batch[h] = <<>>
      <3>1. UNCHANGED Written
        BY <2>1 DEF Written
      <3>2. CASE current = h
        <4>1. current # NoHandler /\ batch'[h] = messages
          BY <2>3, <3>2, OutboxAssumption DEF TypeOK
        <4> QED BY <2>1, <2>3, <3>1, <3>2, <4>1 DEF FlowOfTake, Taken
      <3>3. CASE current # h
        <4>1. UNCHANGED Taken
          <5>1. current # NoHandler => batch'[current] = batch[current]
            BY <2>3, <3>3 DEF TypeOK
          <5> QED BY <2>1, <5>1 DEF Taken
        <4> QED BY <1>1, <2>1, <2>3, <3>1, <3>3, <4>1 DEF FlowOfLoss
      <3> QED BY <3>2, <3>3
    <2> QED BY <2>1, <2>2, <2>3
  <1>9. ASSUME NEW h \in Handler, PullPendingMessages(h) PROVE Goal
    <2>1. /\ UNCHANGED <<sent, messages, calls, answer, current, received>>
          /\ batch' = [batch EXCEPT ![h] = @ \o prepared] /\ prepared' = <<>>
          /\ response[h]
      BY <1>9 DEF PullPendingMessages, clientVars, sessionVars, HandlersOK
    <2>2. UNCHANGED Written
      BY <2>1 DEF Written
    <2>3. CASE current = h
      <3>1. current # NoHandler /\ batch'[h] = batch[h] \o prepared
        BY <2>1, <2>3, OutboxAssumption DEF TypeOK
      <3> QED BY <2>1, <2>2, <2>3, <3>1 DEF FlowOfPull, Taken
    <2>4. CASE current # h
      <3>1. UNCHANGED Taken
        <4>1. current # NoHandler => batch'[current] = batch[current]
          BY <2>1, <2>4 DEF TypeOK
        <4> QED BY <2>1, <4>1 DEF Taken
      <3> QED BY <1>1, <2>1, <2>2, <2>4, <3>1 DEF FlowOfLoss
    <2> QED BY <2>3, <2>4
  <1>10. ASSUME NEW h \in Handler, WriteMessages(h) PROVE Goal
    <2>1. /\ UNCHANGED <<sent, messages, prepared, calls, current, received>>
          /\ batch' = [batch EXCEPT ![h] = <<>>]
          /\ answer' = IF gone[h] THEN answer ELSE [answer EXCEPT ![h] = @ \o batch[h]]
          /\ response[h]
      BY <1>10 DEF WriteMessages, clientVars, sessionVars, HandlersOK
    <2>2. CASE current = h
      <3>1. ~gone[h] /\ current # NoHandler
        BY <2>2, OutboxAssumption DEF HandlersOK, TypeOK
      <3>2. batch'[h] = <<>> /\ answer'[h] = answer[h] \o batch[h]
        BY <2>1, <3>1 DEF TypeOK
      <3> QED BY <2>1, <2>2, <3>1, <3>2 DEF FlowOfWrite, Written, Taken
    <2>3. CASE current # h
      <3>1. answer' = answer
        BY <1>1, <2>1, <2>3
      <3>2. current # NoHandler => batch'[current] = batch[current]
        BY <2>1, <2>3 DEF TypeOK
      <3> QED BY <2>1, <3>1, <3>2 DEF Flow, Written, Taken
    <2> QED BY <2>2, <2>3
  <1>11. ASSUME NEW h \in Handler, \/ HandleSessionInteractionDormant(h)
                                  \/ HandleSocketDisconnected(h) \/ ConnectNewSession(h)
         PROVE Goal
    BY <1>2, <1>11 DEF HandleSessionInteractionDormant, HandleSocketDisconnected,
                       ConnectNewSession, Flow, sessionVars, clientVars
  <1>12. ASSUME NEW h \in Handler, Attach(h) PROVE Goal
    <2>1. /\ UNCHANGED <<sent, messages, prepared, calls, received, answer, batch>>
          /\ current = NoHandler /\ current' = h /\ pc[h] = "idle"
      BY <1>12 DEF Attach, sessionVars
    <2>2. answer[h] = <<>> /\ batch[h] = <<>>
      BY <2>1, OutboxAssumption DEF HandlersOK
    <2>3. h # NoHandler
      BY OutboxAssumption
    <2> QED BY <2>1, <2>2, <2>3 DEF Flow, Written, Taken
  <1>13. ASSUME NEW h \in Handler, Receive(h) PROVE Goal
    <2>1. /\ UNCHANGED <<sent, messages, prepared, calls, batch>>
          /\ current = h /\ received' = received \o answer[h]
          /\ answer' = [answer EXCEPT ![h] = <<>>]
          /\ current' = IF h \in Polling THEN NoHandler ELSE h
          /\ h \in Polling => ~response[h]
      BY <1>13 DEF Receive, sessionVars
    <2>2. h # NoHandler /\ answer'[h] = <<>>
      BY <2>1, OutboxAssumption DEF TypeOK
    <2>3. h \in Polling => batch[h] = <<>>
      BY <2>1 DEF HandlersOK, TypeOK
    <2> QED BY <2>1, <2>2, <2>3 DEF FlowOfReceive, Written, Taken
  <1>14. ASSUME NEW h \in Handler, GiveUp(h) PROVE Goal
    <2>1. /\ UNCHANGED <<sent, messages, prepared, calls, received>>
          /\ current' = NoHandler /\ MaxTimeouts > 0
      BY <1>14, OutboxAssumption DEF GiveUp, sessionVars, TypeOK
    <2> QED BY <2>1 DEF FlowOfLoss, Written, Taken
  <1>15. CASE UNCHANGED vars
    BY <1>2, <1>15 DEF vars, Flow, sessionVars, handlerVars, clientVars
  <1> HIDE DEF Goal
  <1>16. Goal
    BY <1>3, <1>4, <1>5, <1>6, <1>7, <1>8, <1>9, <1>10, <1>11, <1>12, <1>13, <1>14, <1>15
       DEF Next, SessionNext, HandlerNext, ClientNext, Goal
  <1> QED BY <1>16 DEF Goal

-----------------------------------------------------------------------------
(* The order of the stages and of the sequences is kept *)

\* The next message of a source comes after all there are.
LEMMA NextIsLast ==
  ASSUME TypeOK, StagesOK, NEW s \in Source
  PROVE  /\ sent[s] \in Nat
         /\ \A q \in {received, Written, Taken, messages, prepared, calls} :
                \A n \in NumbersOf(s, q) : n \in 1..sent[s] /\ n < sent[s] + 1
  <1>1. sent[s] \in Nat
    BY OutboxAssumption DEF TypeOK
  <1>2. \A q \in {received, Written, Taken, messages, prepared, calls} : NumbersOf(s, q) \subseteq 1..sent[s]
    BY DEF StagesOK, StagesInOrder
  <1> HIDE DEF StagesOK, TypeOK
  <1> QED BY <1>1, <1>2

LEMMA NumbersAreIntegers ==
  ASSUME NEW s, NEW q \in Seq(Entry) PROVE NumbersOf(s, q) \subseteq Int
  <1>1. \A i \in DOMAIN q : q[i] \in Entry
    <2> HIDE DEF Entry
    <2> QED OBVIOUS
  <1>2. \A e \in Entry : e.n \in Int
    BY OutboxAssumption DEF Entry, Message, HandlerIsReady
  <1> QED BY <1>1, <1>2 DEF NumbersOf

LEMMA EntrySequences ==
  ASSUME TypeOK
  PROVE  \A q \in {received, Written, Taken, messages, prepared} : q \in Seq(Message) /\ q \in Seq(Entry)
  <1>1. \A q \in Seq(Message) : q \in Seq(Entry)
    <2>1. Message \subseteq Entry
      BY DEF Entry
    <2> HIDE DEF Message, Entry
    <2> QED BY <2>1
  <1>2. received \in Seq(Message) /\ messages \in Seq(Message) /\ prepared \in Seq(Message)
    BY DEF TypeOK
  <1> QED BY <1>1, <1>2, OnTheWay

LEMMA SourcesNumbers ==
  ASSUME SourcesOK
  PROVE  /\ NumbersOf("pulled", messages) = {} /\ NumbersOf("pulled", calls) = {}
         /\ NumbersOf("pushed", prepared) = {}
  BY DEF SourcesOK, NumbersOf

\* The first call has a smaller number than the others.
LEMMA FirstCallIsLeast ==
  ASSUME calls \in Seq(Entry), calls # <<>>, CallsInOrder, Head(calls) # HandlerIsReady, NEW s
  PROVE  \A n \in NumbersOf(s, Tail(calls)) : Head(calls).n < n
  <1> HIDE DEF Entry, HandlerIsReady
  <1>1. /\ 1 \in DOMAIN calls /\ Head(calls) = calls[1]
        /\ \A i \in DOMAIN Tail(calls) : /\ i + 1 \in DOMAIN calls /\ 1 < i + 1
                                       /\ Tail(calls)[i] = calls[i + 1]
    OBVIOUS
  <1>2. \A i \in DOMAIN Tail(calls) : Tail(calls)[i] # HandlerIsReady => Head(calls).n < Tail(calls)[i].n
    BY <1>1 DEF CallsInOrder
  <1> QED BY <1>2 DEF NumbersOf

LEMMA StagesStep ==
  ASSUME TypeOK, HandlersOK, SourcesOK, SequencesOK, StagesOK, [Next]_vars
  PROVE  StagesOK'
  <1> DEFINE R(s) == NumbersOf(s, received)
             W(s) == NumbersOf(s, Written)
             T(s) == NumbersOf(s, Taken)
             M(s) == NumbersOf(s, messages)
             P(s) == NumbersOf(s, prepared)
             C(s) == NumbersOf(s, calls)
  <1> DEFINE Before(s) == StagesInOrder(sent[s], R(s), W(s), T(s), M(s), P(s), C(s))
             After(s) == StagesInOrder(sent'[s], R(s)', W(s)', T(s)', M(s)', P(s)', C(s)')
  <1>1. \A s \in Source : Before(s)
    BY DEF StagesOK
  <1>2. \A s \in Source : /\ P(s) = {} \/ (M(s) = {} /\ C(s) = {})
                          /\ sent[s] \in Nat
    BY SourcesNumbers, OutboxAssumption DEF Source, TypeOK
  <1>3. calls \in Seq(Entry) /\ \A q \in {received, Written, Taken, messages, prepared} : q \in Seq(Entry)
    BY EntrySequences DEF TypeOK, Entry
  <1>4. SUFFICES ASSUME NEW s \in Source PROVE After(s)
    BY DEF StagesOK
  <1>5. /\ R(s) \subseteq Int /\ W(s) \subseteq Int /\ T(s) \subseteq Int
        /\ M(s) \subseteq Int /\ P(s) \subseteq Int /\ C(s) \subseteq Int
    BY <1>3, NumbersAreIntegers
  <1>6. NumbersOf(s, <<>>) = {}
    BY NumbersOfEmpty
  <1>7. Before(s) /\ (P(s) = {} \/ (M(s) = {} /\ C(s) = {})) /\ sent[s] \in Nat
    BY <1>1, <1>2
  <1>10. CASE FlowOfDispatch
    <2>1. /\ calls' = Append(calls, [source |-> "pushed", n |-> sent["pushed"] + 1])
          /\ sent' = SendOf("pushed")
          /\ UNCHANGED <<received, Written, Taken, messages, prepared>>
          /\ sent["pushed"] < MaxMessages
      BY <1>10 DEF FlowOfDispatch, DispatchMessageToClient
    <2>2. [source |-> "pushed", n |-> sent["pushed"] + 1] \in Message
      BY <2>1, NextIsMessage DEF Source
    <2>3. C(s)' = C(s) \cup (IF s = "pushed" THEN {sent[s] + 1} ELSE {})
      <3>1. PICK e \in Message : e = [source |-> "pushed", n |-> sent["pushed"] + 1]
        BY <2>2
      <3>2. e \in Entry /\ e # HandlerIsReady
        BY AnnouncementIsNoMessage DEF Entry
      <3>3. e.source = "pushed" /\ e.n = sent["pushed"] + 1
        BY <3>1
      <3>4. NumbersOf(s, Append(calls, e)) =
              NumbersOf(s, calls) \cup (IF e.source = s /\ e # HandlerIsReady THEN {e.n} ELSE {})
        <4> HIDE DEF Entry, HandlerIsReady
        <4> QED BY <1>3, <3>2, NumbersOfAppend
      <3> QED BY <2>1, <3>1, <3>2, <3>3, <3>4
    <2>4. sent'[s] = (IF s = "pushed" THEN sent[s] + 1 ELSE sent[s])
      BY <2>1 DEF SendOf, TypeOK
    <2>5. /\ R(s)' = R(s) /\ W(s)' = W(s) /\ T(s)' = T(s) /\ M(s)' = M(s) /\ P(s)' = P(s)
      BY <2>1
    <2>6. s = "pushed" => P(s) = {}
      BY SourcesNumbers
    <2> HIDE DEF R, W, T, M, P, C
    <2> QED BY <1>5, <1>7, <2>3, <2>4, <2>5, <2>6 DEF StagesInOrder, Less
  <1>11. CASE FlowOfPrepare
    <2>1. /\ prepared' = Append(prepared, [source |-> "pulled", n |-> sent["pulled"] + 1])
          /\ sent' = SendOf("pulled")
          /\ calls' = calls \/ calls' = Append(calls, HandlerIsReady)
          /\ UNCHANGED <<received, Written, Taken, messages>>
          /\ sent["pulled"] < MaxMessages
      BY <1>11 DEF FlowOfPrepare, PrepareMessage
    <2>2. [source |-> "pulled", n |-> sent["pulled"] + 1] \in Message
      BY <2>1, NextIsMessage DEF Source
    <2>3. P(s)' = P(s) \cup (IF s = "pulled" THEN {sent[s] + 1} ELSE {})
      <3>1. PICK e \in Message : e = [source |-> "pulled", n |-> sent["pulled"] + 1]
        BY <2>2
      <3>2. e \in Entry /\ e # HandlerIsReady
        BY AnnouncementIsNoMessage DEF Entry
      <3>3. e.source = "pulled" /\ e.n = sent["pulled"] + 1
        BY <3>1
      <3>4. NumbersOf(s, Append(prepared, e)) =
              NumbersOf(s, prepared) \cup (IF e.source = s /\ e # HandlerIsReady THEN {e.n} ELSE {})
        <4> HIDE DEF Entry, HandlerIsReady
        <4> QED BY <1>3, <3>2, NumbersOfAppend
      <3> QED BY <2>1, <3>1, <3>2, <3>3, <3>4
    <2>4. C(s)' = C(s)
      <3>1. HandlerIsReady \in Entry
        BY DEF Entry
      <3>2. NumbersOf(s, Append(calls, HandlerIsReady)) = NumbersOf(s, calls)
        <4>1. NumbersOf(s, Append(calls, HandlerIsReady)) = NumbersOf(s, calls) \cup {}
          <5> HIDE DEF Entry, HandlerIsReady
          <5> QED BY <1>3, <3>1, NumbersOfAppend
        <4> QED BY <4>1
      <3> QED BY <2>1, <3>2
    <2>5. sent'[s] = (IF s = "pulled" THEN sent[s] + 1 ELSE sent[s])
      BY <2>1 DEF SendOf, TypeOK
    <2>6. /\ R(s)' = R(s) /\ W(s)' = W(s) /\ T(s)' = T(s) /\ M(s)' = M(s)
      BY <2>1
    <2> HIDE DEF R, W, T, M, P, C
    <2> QED BY <1>5, <1>7, <2>3, <2>4, <2>5, <2>6 DEF StagesInOrder, Less
  <1>12. CASE FlowOfCall
    <2>1. /\ calls # <<>> /\ calls' = Tail(calls)
          /\ messages' = IF Head(calls) = HandlerIsReady THEN messages ELSE Append(messages, Head(calls))
          /\ UNCHANGED <<sent, received, Written, Taken, prepared>>
      BY <1>12 DEF FlowOfCall
    <2> DEFINE head == IF Head(calls).source = s /\ Head(calls) # HandlerIsReady THEN {Head(calls).n} ELSE {}
    <2>2. Head(calls) \in Entry /\ C(s) = C(s)' \cup head
      BY <1>3, <2>1, NumbersOfTail
    <2>3. M(s)' = M(s) \cup head
      BY <1>3, <2>1, <2>2, NumbersOfAppend
    <2>4. Less(head, C(s)')
      BY <1>3, <2>1, FirstCallIsLeast DEF Less, SequencesOK
    <2>5. /\ R(s)' = R(s) /\ W(s)' = W(s) /\ T(s)' = T(s) /\ P(s)' = P(s) /\ sent'[s] = sent[s]
      BY <2>1
    <2> HIDE DEF R, W, T, M, P, C, head
    <2> QED BY <1>5, <1>7, <2>2, <2>3, <2>4, <2>5 DEF StagesInOrder, Less
  <1>13. CASE FlowOfTake
    <2>1. /\ T(s) = {} /\ T(s)' = M(s) /\ M(s)' = {} /\ sent'[s] = sent[s]
          /\ R(s)' = R(s) /\ W(s)' = W(s) /\ P(s)' = P(s) /\ C(s)' = C(s)
      BY <1>6, <1>13 DEF FlowOfTake
    <2> HIDE DEF R, W, T, M, P, C
    <2> QED BY <1>5, <1>7, <2>1 DEF StagesInOrder, Less
  <1>14. CASE FlowOfPull
    <2>1. T(s)' = T(s) \cup P(s)
      BY <1>3, <1>14, NumbersOfConcat DEF FlowOfPull
    <2>2. /\ P(s)' = {} /\ sent'[s] = sent[s]
          /\ R(s)' = R(s) /\ W(s)' = W(s) /\ M(s)' = M(s) /\ C(s)' = C(s)
      BY <1>6, <1>14 DEF FlowOfPull
    <2> HIDE DEF R, W, T, M, P, C
    <2> QED BY <1>5, <1>7, <2>1, <2>2 DEF StagesInOrder, Less
  <1>15. CASE FlowOfWrite
    <2>1. W(s)' = W(s) \cup T(s)
      BY <1>3, <1>15, NumbersOfConcat DEF FlowOfWrite
    <2>2. /\ T(s)' = {} /\ sent'[s] = sent[s]
          /\ R(s)' = R(s) /\ P(s)' = P(s) /\ M(s)' = M(s) /\ C(s)' = C(s)
      BY <1>6, <1>15 DEF FlowOfWrite
    <2> HIDE DEF R, W, T, M, P, C
    <2> QED BY <1>5, <1>7, <2>1, <2>2 DEF StagesInOrder, Less
  <1>16. CASE FlowOfReceive
    <2>1. R(s)' = R(s) \cup W(s)
      BY <1>3, <1>16, NumbersOfConcat DEF FlowOfReceive
    <2>2. /\ W(s)' = {} /\ sent'[s] = sent[s]
          /\ T(s)' = T(s) /\ P(s)' = P(s) /\ M(s)' = M(s) /\ C(s)' = C(s)
      BY <1>6, <1>16 DEF FlowOfReceive
    <2> HIDE DEF R, W, T, M, P, C
    <2> QED BY <1>5, <1>7, <2>1, <2>2 DEF StagesInOrder, Less
  <1>17. CASE FlowOfLoss
    <2>1. /\ W(s)' \in {W(s), {}} /\ T(s)' \in {T(s), {}} /\ M(s)' \in {M(s), {}} /\ P(s)' \in {P(s), {}}
          /\ sent'[s] = sent[s] /\ R(s)' = R(s) /\ C(s)' = C(s)
      BY <1>6, <1>17 DEF FlowOfLoss
    <2> HIDE DEF R, W, T, M, P, C
    <2> QED BY <1>5, <1>7, <2>1 DEF StagesInOrder, Less
  <1>18. CASE UNCHANGED Flow
    BY <1>7, <1>18 DEF Flow
  <1> QED BY <1>10, <1>11, <1>12, <1>13, <1>14, <1>15, <1>16, <1>17, <1>18, StepsAreFlow

LEMMA EmptyInOrder == Channel!InOrder(<<>>)
  BY DEF Channel!InOrder

LEMMA CallsInOrderAppend ==
  ASSUME calls \in Seq(Entry), CallsInOrder, NEW e \in Entry, calls' = Append(calls, e),
         e # HandlerIsReady => \A i \in DOMAIN calls : calls[i] # HandlerIsReady => calls[i].n < e.n
  PROVE  CallsInOrder'
  <1> HIDE DEF Entry, HandlerIsReady
  <1>1. /\ DOMAIN calls' = 1..(Len(calls) + 1) /\ DOMAIN calls = 1..Len(calls) /\ Len(calls) \in Nat
        /\ \A i \in 1..Len(calls) : calls'[i] = calls[i]
        /\ calls'[Len(calls) + 1] = e
    OBVIOUS
  <1>2. ASSUME NEW i \in DOMAIN calls', NEW j \in DOMAIN calls', i < j,
               calls'[i] # HandlerIsReady, calls'[j] # HandlerIsReady
        PROVE  calls'[i].n < calls'[j].n
    <2>1. i \in DOMAIN calls /\ calls'[i] = calls[i]
      BY <1>1, <1>2
    <2>2. CASE j \in 1..Len(calls)
      BY <1>1, <1>2, <2>1, <2>2 DEF CallsInOrder
    <2>3. CASE j = Len(calls) + 1
      BY <1>1, <1>2, <2>1, <2>3
    <2> QED BY <1>1, <2>2, <2>3
  <1> QED BY <1>2 DEF CallsInOrder

LEMMA CallsInOrderTail ==
  ASSUME calls \in Seq(Entry), CallsInOrder, calls # <<>>, calls' = Tail(calls)
  PROVE  CallsInOrder'
  <1> HIDE DEF Entry, HandlerIsReady
  <1>1. /\ \A i \in DOMAIN calls' : /\ i + 1 \in DOMAIN calls /\ calls'[i] = calls[i + 1]
                                    /\ i \in Int
    OBVIOUS
  <1>2. \A i, j \in DOMAIN calls' : i < j => i + 1 < j + 1
    BY <1>1
  <1> QED BY <1>1, <1>2 DEF CallsInOrder

LEMMA SequencesStep ==
  ASSUME TypeOK, HandlersOK, SourcesOK, SequencesOK, StagesOK, [Next]_vars
  PROVE  SequencesOK'
  <1>1. calls \in Seq(Entry) /\ \A q \in {received, Written, Taken, messages, prepared} :
                                    q \in Seq(Message) /\ q \in Seq(Entry)
    BY EntrySequences DEF TypeOK, Entry
  <1>2. \A q \in {received, Written, Taken, messages, prepared} : Channel!InOrder(q)
    BY DEF SequencesOK
  <1>3. Channel!InOrder(<<>>) /\ CallsInOrder
    BY EmptyInOrder DEF SequencesOK
  <1>4. ASSUME UNCHANGED calls PROVE CallsInOrder'
    BY <1>3, <1>4 DEF CallsInOrder
  <1>5. \A s \in Source :
          /\ Less(NumbersOf(s, received), NumbersOf(s, Written))
          /\ Less(NumbersOf(s, Written), NumbersOf(s, Taken))
          /\ Less(NumbersOf(s, Taken), NumbersOf(s, prepared))
          /\ Less(NumbersOf(s, messages), NumbersOf(s, calls))
    BY DEF StagesOK, StagesInOrder, Less
  <1>10. CASE FlowOfDispatch
    <2>1. /\ calls' = Append(calls, [source |-> "pushed", n |-> sent["pushed"] + 1])
          /\ UNCHANGED <<received, Written, Taken, messages, prepared>>
          /\ sent["pushed"] < MaxMessages
      BY <1>10 DEF FlowOfDispatch, DispatchMessageToClient
    <2>2. PICK e \in Message : e = [source |-> "pushed", n |-> sent["pushed"] + 1]
      BY <2>1, NextIsMessage DEF Source
    <2>3. e \in Entry /\ e.n = sent["pushed"] + 1
      BY <2>2 DEF Entry
    <2>4. \A i \in DOMAIN calls : calls[i] # HandlerIsReady => calls[i].n < e.n
      <3>1. \A n \in NumbersOf("pushed", calls) : n < e.n
        BY <2>3, NextIsLast DEF Source
      <3>2. \A i \in DOMAIN calls : calls[i] # HandlerIsReady => calls[i].n \in NumbersOf("pushed", calls)
        BY DEF SourcesOK, NumbersOf
      <3> QED BY <3>1, <3>2
    <2>5. CallsInOrder'
      <3> HIDE DEF Entry
      <3> QED BY <1>1, <1>3, <2>1, <2>2, <2>3, <2>4, CallsInOrderAppend
    <2> QED BY <1>2, <2>1, <2>5 DEF SequencesOK
  <1>11. CASE FlowOfPrepare
    <2>1. /\ prepared' = Append(prepared, [source |-> "pulled", n |-> sent["pulled"] + 1])
          /\ calls' = calls \/ calls' = Append(calls, HandlerIsReady)
          /\ UNCHANGED <<received, Written, Taken, messages>>
          /\ sent["pulled"] < MaxMessages
      BY <1>11 DEF FlowOfPrepare, PrepareMessage
    <2>2. PICK e \in Message : e = [source |-> "pulled", n |-> sent["pulled"] + 1]
      BY <2>1, NextIsMessage DEF Source
    <2>3. e.source = "pulled" /\ e.n = sent["pulled"] + 1
      BY <2>2
    <2>4. \A n \in NumbersOf(e.source, prepared) : n < e.n
      BY <2>3, NextIsLast DEF Source
    <2>5. Channel!InOrder(prepared')
      BY <1>1, <1>2, <2>1, <2>2, <2>4, InOrderAppend
    <2>6. CallsInOrder'
      <3>1. HandlerIsReady \in Entry
        BY DEF Entry
      <3> HIDE DEF Entry, HandlerIsReady
      <3> QED BY <1>1, <1>3, <1>4, <2>1, <3>1, CallsInOrderAppend
    <2> QED BY <1>2, <2>1, <2>5, <2>6 DEF SequencesOK
  <1>12. CASE FlowOfCall
    <2>1. /\ calls # <<>> /\ calls' = Tail(calls)
          /\ messages' = IF Head(calls) = HandlerIsReady THEN messages ELSE Append(messages, Head(calls))
          /\ UNCHANGED <<sent, received, Written, Taken, prepared>>
      BY <1>12 DEF FlowOfCall
    <2>2. CallsInOrder'
      BY <1>1, <1>3, <2>1, CallsInOrderTail
    <2>3. CASE Head(calls) = HandlerIsReady
      BY <1>2, <2>1, <2>2, <2>3 DEF SequencesOK
    <2>4. CASE Head(calls) # HandlerIsReady
      <3>1. PICK e \in Entry : e = Head(calls)
        BY <1>1, <2>1, NumbersOfTail
      <3>2. e \in Message
        BY <2>4, <3>1 DEF Entry
      <3>3. e.source \in Source
        BY <3>2 DEF Message
      <3>4. e.n \in NumbersOf(e.source, calls)
        BY <1>1, <2>1, <2>4, <3>1, NumbersOfTail
      <3>5. \A n \in NumbersOf(e.source, messages) : n < e.n
        BY <1>5, <3>3, <3>4 DEF Less
      <3>6. Channel!InOrder(messages')
        BY <1>1, <1>2, <2>1, <2>4, <3>1, <3>2, <3>5, InOrderAppend
      <3> QED BY <1>2, <2>1, <2>2, <3>6 DEF SequencesOK
    <2> QED BY <2>3, <2>4
  <1>13. CASE FlowOfTake
    BY <1>2, <1>3, <1>4, <1>13 DEF FlowOfTake, SequencesOK
  <1>14. CASE FlowOfPull
    <2>1. Channel!InOrder(Taken')
      BY <1>1, <1>2, <1>5, <1>14, InOrderConcat DEF FlowOfPull
    <2> QED BY <1>2, <1>3, <1>4, <1>14, <2>1 DEF FlowOfPull, SequencesOK
  <1>15. CASE FlowOfWrite
    <2>1. Channel!InOrder(Written')
      BY <1>1, <1>2, <1>5, <1>15, InOrderConcat DEF FlowOfWrite
    <2> QED BY <1>2, <1>3, <1>4, <1>15, <2>1 DEF FlowOfWrite, SequencesOK
  <1>16. CASE FlowOfReceive
    <2>1. Channel!InOrder(received')
      BY <1>1, <1>2, <1>5, <1>16, InOrderConcat DEF FlowOfReceive
    <2> QED BY <1>2, <1>3, <1>4, <1>16, <2>1 DEF FlowOfReceive, SequencesOK
  <1>17. CASE FlowOfLoss
    BY <1>2, <1>3, <1>4, <1>17 DEF FlowOfLoss, SequencesOK
  <1>18. CASE UNCHANGED Flow
    BY <1>2, <1>4, <1>18 DEF Flow, SequencesOK
  <1> QED BY <1>10, <1>11, <1>12, <1>13, <1>14, <1>15, <1>16, <1>17, <1>18, StepsAreFlow

LEMMA ChannelInvInit == Init => ChannelInv
  <1> SUFFICES ASSUME Init PROVE ChannelInv
    OBVIOUS
  <1>1. TypeOK
    BY TypeInit
  <1>2. HandlersOK /\ SourcesOK
    BY OutboxAssumption DEF Init, HandlersOK, SourcesOK
  <1>3. Written = <<>> /\ Taken = <<>>
    BY DEF Init, Written, Taken
  <1>4. SequencesOK
    BY <1>3, EmptyInOrder DEF Init, SequencesOK, CallsInOrder
  <1>5. StagesOK
    BY <1>3, NumbersOfEmpty DEF Init, StagesOK, StagesInOrder, Less
  <1> QED BY <1>1, <1>2, <1>4, <1>5 DEF ChannelInv

-----------------------------------------------------------------------------
(* The refinement *)

\* Before a step and after it.
LEMMA UnderWayIs ==
  ASSUME NEW s
  PROVE  /\ UnderWay(s) = NumbersOf(s, Written) \cup NumbersOf(s, Taken) \cup NumbersOf(s, messages)
                             \cup NumbersOf(s, prepared) \cup NumbersOf(s, calls)
         /\ UnderWay(s)' = NumbersOf(s, Written') \cup NumbersOf(s, Taken') \cup NumbersOf(s, messages')
                              \cup NumbersOf(s, prepared') \cup NumbersOf(s, calls')
  <1>1. NumbersOf(s, <<>>) = {}
    BY NumbersOfEmpty
  <1> HIDE DEF NumbersOf
  <1> QED BY <1>1 DEF UnderWay, Waiting, Handed, Written, Taken

LEMMA SuffixOfConcat ==
  ASSUME NEW S, NEW p \in Seq(S), NEW q \in Seq(S)
  PROVE  SubSeq(p \o q, Len(p) + 1, Len(p \o q)) = q
  <1> DEFINE r == p \o q
             t == SubSeq(r, Len(p) + 1, Len(r))
  <1>1. /\ r \in Seq(S) /\ Len(r) = Len(p) + Len(q) /\ Len(p) \in Nat /\ Len(q) \in Nat
        /\ \A i \in 1..Len(q) : r[Len(p) + i] = q[i]
    BY ConcatProperties
  <1>2. \A i \in (Len(p) + 1)..Len(r) : r[i] \in S
    BY <1>1
  <1> HIDE DEF r
  <1>3. /\ t \in Seq(S)
        /\ Len(t) = IF Len(p) + 1 <= Len(r) THEN Len(r) - (Len(p) + 1) + 1 ELSE 0
        /\ \A i \in 1..(Len(r) - (Len(p) + 1) + 1) : t[i] = r[(Len(p) + 1) + i - 1]
    BY <1>1, <1>2, SubSeqProperties
  <1> HIDE DEF t
  <1>4. Len(t) = Len(q)
    BY <1>1, <1>3
  <1>5. \A i \in 1..Len(q) : t[i] = q[i]
    <2> TAKE i \in 1..Len(q)
    <2>1. i \in 1..(Len(r) - (Len(p) + 1) + 1) /\ (Len(p) + 1) + i - 1 = Len(p) + i
      BY <1>1
    <2> QED BY <1>1, <1>3, <2>1
  <1>6. t = q
    BY <1>3, <1>4, <1>5, SeqEqual
  <1> QED BY <1>6 DEF r, t

\* The channel's pending messages.
Pending == [s \in Source |-> UnderWay(s)]

LEMMA SendStep ==
  ASSUME TypeOK, TypeOK', [Next]_vars, FlowOfDispatch \/ FlowOfPrepare
  PROVE  \E s \in Source : Channel!Send(s)
  <1>1. calls \in Seq(Entry) /\ \A q \in {received, Written, Taken, messages, prepared} : q \in Seq(Entry)
    BY EntrySequences DEF TypeOK, Entry
  <1>2. HandlerIsReady \in Entry
    BY DEF Entry
  <1>3. ASSUME NEW s \in Source, sent[s] < MaxMessages, sent' = SendOf(s), UNCHANGED received,
               \A t \in Source : UnderWay(t)' = UnderWay(t) \cup (IF t = s THEN {sent[s] + 1} ELSE {})
        PROVE  Channel!Send(s)
    <2> HIDE DEF UnderWay
    <2>1. Pending' = [Pending EXCEPT ![s] = @ \cup {sent[s] + 1}]
      BY <1>3 DEF Pending
    <2> QED BY <1>3, <2>1 DEF Channel!Send, SendOf, Pending
  <1>4. ASSUME NEW s \in Source, sent[s] < MaxMessages, NEW q \in Seq(Entry), NEW t
        PROVE  NumbersOf(t, Append(q, [source |-> s, n |-> sent[s] + 1])) =
                 NumbersOf(t, q) \cup (IF t = s THEN {sent[s] + 1} ELSE {})
    <2>1. PICK e \in Message : e = [source |-> s, n |-> sent[s] + 1]
      BY <1>4, NextIsMessage
    <2>2. e \in Entry /\ e # HandlerIsReady /\ e.source = s /\ e.n = sent[s] + 1
      BY <2>1, AnnouncementIsNoMessage DEF Entry
    <2>3. NumbersOf(t, Append(q, e)) = NumbersOf(t, q) \cup (IF e.source = t /\ e # HandlerIsReady THEN {e.n} ELSE {})
      <3> HIDE DEF Entry, HandlerIsReady
      <3> QED BY <2>2, NumbersOfAppend
    <2> QED BY <2>1, <2>2, <2>3
  <1>5. CASE FlowOfDispatch
    <2>1. /\ calls' = Append(calls, [source |-> "pushed", n |-> sent["pushed"] + 1])
          /\ sent' = SendOf("pushed") /\ sent["pushed"] < MaxMessages
          /\ UNCHANGED <<received, Written, Taken, messages, prepared>>
      BY <1>5 DEF FlowOfDispatch, DispatchMessageToClient
    <2>2. \A t \in Source : NumbersOf(t, calls') = NumbersOf(t, calls) \cup (IF t = "pushed" THEN {sent["pushed"] + 1} ELSE {})
      BY <1>1, <1>4, <2>1 DEF Source
    <2>3. \A t \in Source : UnderWay(t)' = UnderWay(t) \cup (IF t = "pushed" THEN {sent["pushed"] + 1} ELSE {})
      <3> TAKE t \in Source
      <3>1. UnderWay(t) = NumbersOf(t, Written) \cup NumbersOf(t, Taken) \cup NumbersOf(t, messages)
                         \cup NumbersOf(t, prepared) \cup NumbersOf(t, calls)
        BY UnderWayIs
      <3>2. UnderWay(t)' = NumbersOf(t, Written') \cup NumbersOf(t, Taken') \cup NumbersOf(t, messages')
                         \cup NumbersOf(t, prepared') \cup NumbersOf(t, calls')
        BY UnderWayIs
      <3> HIDE DEF UnderWay, NumbersOf
      <3> QED BY <2>1, <2>2, <3>1, <3>2
    <2> QED BY <1>3, <2>1, <2>3 DEF Source
  <1>6. CASE FlowOfPrepare
    <2>1. /\ prepared' = Append(prepared, [source |-> "pulled", n |-> sent["pulled"] + 1])
          /\ sent' = SendOf("pulled") /\ sent["pulled"] < MaxMessages
          /\ calls' = calls \/ calls' = Append(calls, HandlerIsReady)
          /\ UNCHANGED <<received, Written, Taken, messages>>
      BY <1>6 DEF FlowOfPrepare, PrepareMessage
    <2>2. \A t \in Source : NumbersOf(t, prepared') = NumbersOf(t, prepared) \cup (IF t = "pulled" THEN {sent["pulled"] + 1} ELSE {})
      BY <1>1, <1>4, <2>1 DEF Source
    <2>3. \A t \in Source : NumbersOf(t, calls') = NumbersOf(t, calls)
      <3> TAKE t \in Source
      <3>1. NumbersOf(t, Append(calls, HandlerIsReady)) = NumbersOf(t, calls) \cup {}
        <4> HIDE DEF Entry, HandlerIsReady
        <4> QED BY <1>1, <1>2, NumbersOfAppend
      <3> QED BY <2>1, <3>1
    <2>4. \A t \in Source : UnderWay(t)' = UnderWay(t) \cup (IF t = "pulled" THEN {sent["pulled"] + 1} ELSE {})
      <3> TAKE t \in Source
      <3>1. UnderWay(t) = NumbersOf(t, Written) \cup NumbersOf(t, Taken) \cup NumbersOf(t, messages)
                         \cup NumbersOf(t, prepared) \cup NumbersOf(t, calls)
        BY UnderWayIs
      <3>2. UnderWay(t)' = NumbersOf(t, Written') \cup NumbersOf(t, Taken') \cup NumbersOf(t, messages')
                         \cup NumbersOf(t, prepared') \cup NumbersOf(t, calls')
        BY UnderWayIs
      <3> HIDE DEF UnderWay, NumbersOf
      <3> QED BY <2>1, <2>2, <2>3, <3>1, <3>2
    <2> QED BY <1>3, <2>1, <2>4 DEF Source
  <1> QED BY <1>5, <1>6

LEMMA DeliverStep ==
  ASSUME ChannelInv, TypeOK', FlowOfReceive
  PROVE  Channel!Deliver(Channel!Arrived)
  <1>1. TypeOK /\ SequencesOK /\ StagesOK
    BY DEF ChannelInv
  <1>2. /\ received' = received \o Written /\ Written' = <<>>
        /\ UNCHANGED <<sent, Taken, messages, prepared, calls>>
    BY DEF FlowOfReceive
  <1>3. received \in Seq(Message) /\ Written \in Seq(Message)
    BY <1>1, OnTheWay DEF TypeOK
  <1>4. Channel!Arrived = Written
    BY <1>2, <1>3, SuffixOfConcat DEF Channel!Arrived
  <1>5. Written \in Seq(Channel!Message) /\ Channel!InOrder(Written)
    BY <1>1, <1>3 DEF Channel!Message, Message, SequencesOK
  <1>6. \A s \in Source : Channel!Numbers(s, Written) = NumbersOf(s, Written)
    BY <1>3, NumbersOfMessages
  <1>7. ASSUME NEW s \in Source
        PROVE  /\ NumbersOf(s, Written) \subseteq UnderWay(s)
               /\ UnderWay(s)' = UnderWay(s) \ NumbersOf(s, Written)
               /\ \A n \in NumbersOf(s, Written), later \in UnderWay(s)' : n < later
    <2> DEFINE W == NumbersOf(s, Written)
               Rest == NumbersOf(s, Taken) \cup NumbersOf(s, messages)
                         \cup NumbersOf(s, prepared) \cup NumbersOf(s, calls)
    <2>1. UnderWay(s) = W \cup Rest
      BY <1>1, UnderWayIs
    <2>2. UnderWay(s)' = NumbersOf(s, Written') \cup Rest'
      BY UnderWayIs
    <2>3. NumbersOf(s, Written') = {} /\ Rest' = Rest
      BY <1>2, NumbersOfEmpty
    <2>4. \A m \in W, n \in Rest : m < n
      BY <1>1 DEF StagesOK, StagesInOrder, Less
    <2>5. W \subseteq Int
      BY <1>1, EntrySequences, NumbersAreIntegers
    <2> HIDE DEF W, Rest, UnderWay, NumbersOf
    <2>6. UnderWay(s)' = Rest
      BY <2>2, <2>3
    <2>7. \A m \in W : ~(m < m)
      BY <2>5
    <2>8. W \cap Rest = {}
      BY <2>4, <2>7
    <2>9. W \subseteq UnderWay(s) /\ UnderWay(s)' = UnderWay(s) \ W
      BY <2>1, <2>6, <2>8
    <2> QED BY <2>4, <2>6, <2>9 DEF W
  <1>8. \A s \in Source : Pending[s] = UnderWay(s) /\ Pending'[s] = UnderWay(s)'
    BY DEF Pending
  <1> HIDE DEF UnderWay, NumbersOf
  <1>9. /\ \A s \in Source : Channel!Numbers(s, Written) \subseteq Pending[s]
        /\ Pending' = [s \in Source |-> Pending[s] \ Channel!Numbers(s, Written)]
        /\ \A s \in Source : \A n \in Channel!Numbers(s, Written), later \in Pending'[s] : n < later
    <2>1. Pending' = [s \in Source |-> UnderWay(s)']
      BY DEF Pending
    <2> QED BY <1>6, <1>7, <1>8, <2>1
  <1> QED BY <1>2, <1>4, <1>5, <1>9 DEF Channel!Deliver, Pending

\* What keeps all that is under way.
LEMMA OtherStep ==
  ASSUME TypeOK, TypeOK', FlowOfCall \/ FlowOfTake \/ FlowOfPull \/ FlowOfWrite \/ UNCHANGED Flow
  PROVE  UNCHANGED <<sent, received, Pending>>
  <1>1. calls \in Seq(Entry) /\ \A q \in {received, Written, Taken, messages, prepared} : q \in Seq(Entry)
    BY EntrySequences DEF TypeOK, Entry
  <1>2. UNCHANGED <<sent, received>>
    BY DEF FlowOfCall, FlowOfTake, FlowOfPull, FlowOfWrite, Flow
  <1>3. ASSUME NEW s \in Source PROVE UnderWay(s)' = UnderWay(s)
    <2> DEFINE W == NumbersOf(s, Written)
               T == NumbersOf(s, Taken)
               M == NumbersOf(s, messages)
               P == NumbersOf(s, prepared)
               C == NumbersOf(s, calls)
    <2>1. UnderWay(s) = W \cup T \cup M \cup P \cup C
      BY UnderWayIs
    <2>2. UnderWay(s)' = W' \cup T' \cup M' \cup P' \cup C'
      BY UnderWayIs
    <2>3. NumbersOf(s, <<>>) = {}
      BY NumbersOfEmpty
    <2>4. CASE FlowOfCall
      <3>1. /\ calls # <<>> /\ calls' = Tail(calls)
            /\ messages' = IF Head(calls) = HandlerIsReady THEN messages ELSE Append(messages, Head(calls))
            /\ UNCHANGED <<Written, Taken, prepared>>
        BY <2>4 DEF FlowOfCall
      <3> DEFINE head == IF Head(calls).source = s /\ Head(calls) # HandlerIsReady THEN {Head(calls).n} ELSE {}
      <3>2. Head(calls) \in Entry /\ C = C' \cup head
        BY <1>1, <3>1, NumbersOfTail
      <3>3. M' = M \cup head
        BY <1>1, <3>1, <3>2, NumbersOfAppend
      <3>4. W' = W /\ T' = T /\ P' = P
        BY <3>1
      <3> HIDE DEF W, T, M, P, C, head, UnderWay
      <3> QED BY <2>1, <2>2, <3>2, <3>3, <3>4
    <2>5. CASE FlowOfTake
      <3>1. T = {} /\ T' = M /\ M' = {} /\ W' = W /\ P' = P /\ C' = C
        BY <2>3, <2>5 DEF FlowOfTake
      <3> HIDE DEF W, T, M, P, C, UnderWay
      <3> QED BY <2>1, <2>2, <3>1
    <2>6. CASE FlowOfPull
      <3>1. T' = T \cup P /\ P' = {} /\ W' = W /\ M' = M /\ C' = C
        BY <1>1, <2>3, <2>6, NumbersOfConcat DEF FlowOfPull
      <3> HIDE DEF W, T, M, P, C, UnderWay
      <3> QED BY <2>1, <2>2, <3>1
    <2>7. CASE FlowOfWrite
      <3>1. W' = W \cup T /\ T' = {} /\ P' = P /\ M' = M /\ C' = C
        BY <1>1, <2>3, <2>7, NumbersOfConcat DEF FlowOfWrite
      <3> HIDE DEF W, T, M, P, C, UnderWay
      <3> QED BY <2>1, <2>2, <3>1
    <2>8. CASE UNCHANGED Flow
      BY <2>1, <2>2, <2>8 DEF Flow
    <2> QED BY <2>4, <2>5, <2>6, <2>7, <2>8
  <1> HIDE DEF UnderWay
  <1> QED BY <1>2, <1>3 DEF Pending

LEMMA LoseStep ==
  ASSUME TypeOK, TypeOK', FlowOfLoss PROVE Channel!Lose
  <1>1. ASSUME NEW s \in Source PROVE UnderWay(s)' \subseteq UnderWay(s)
    <2>1. UnderWay(s) = NumbersOf(s, Written) \cup NumbersOf(s, Taken) \cup NumbersOf(s, messages)
                         \cup NumbersOf(s, prepared) \cup NumbersOf(s, calls)
      BY UnderWayIs
    <2>2. UnderWay(s)' = NumbersOf(s, Written') \cup NumbersOf(s, Taken') \cup NumbersOf(s, messages')
                         \cup NumbersOf(s, prepared') \cup NumbersOf(s, calls')
      BY UnderWayIs
    <2>3. NumbersOf(s, <<>>) = {}
      BY NumbersOfEmpty
    <2> HIDE DEF NumbersOf, UnderWay
    <2> QED BY <2>1, <2>2, <2>3 DEF FlowOfLoss
  <1>2. Pending' = [s \in Source |-> Pending[s] \cap Pending'[s]]
    <2>1. Pending' = [s \in Source |-> UnderWay(s)']
      BY DEF Pending
    <2> HIDE DEF UnderWay
    <2> QED BY <1>1, <2>1 DEF Pending
  <1> QED BY <1>2 DEF Channel!Lose, FlowOfLoss, Pending

LEMMA ChannelStep ==
  ASSUME ChannelInv, TypeOK', [Next]_vars PROVE [Channel!Next]_(Channel!vars)
  <1>1. TypeOK /\ HandlersOK
    BY DEF ChannelInv
  <1>2. CASE FlowOfDispatch \/ FlowOfPrepare
    BY <1>1, <1>2, SendStep DEF Channel!Next
  <1>3. CASE FlowOfReceive
    BY <1>3, DeliverStep DEF Channel!Next
  <1>4. CASE FlowOfLoss
    BY <1>1, <1>4, LoseStep DEF Channel!Next
  <1>5. CASE FlowOfCall \/ FlowOfTake \/ FlowOfPull \/ FlowOfWrite \/ UNCHANGED Flow
    BY <1>1, <1>5, OtherStep DEF Channel!vars, Pending
  <1> QED BY <1>1, <1>2, <1>3, <1>4, <1>5, StepsAreFlow

LEMMA ChannelInit == Init => Channel!Init
  <1> SUFFICES ASSUME Init PROVE Channel!Init
    OBVIOUS
  <1>1. \A s \in Source : UnderWay(s) = {}
    <2>1. \A s \in Source : Waiting(s) = {}
      BY NumbersOfEmpty DEF Init, Waiting
    <2>2. current # NoHandler => answer[current] = <<>> /\ batch[current] = <<>>
      BY DEF Init
    <2>3. \A s \in Source : current # NoHandler => Handed(s, current) = {}
      BY <2>2, NumbersOfEmpty DEF Handed
    <2> QED BY <2>1, <2>3 DEF UnderWay
  <1> HIDE DEF UnderWay
  <1> QED BY <1>1 DEF Init, Channel!Init

\* What the threads of a session and the connections of its client do together is what
\* the channel promises, whatever the number of connections, messages and timeouts:
\* messages of one source arrive in order, none twice, and without a timeout none is
\* lost (dispatchMessageToClient, takePendingMessages, handleMessagesAvailable).
THEOREM ChannelImplemented == Spec => ImplementsChannel
  <1>1. Init => ChannelInv
    BY ChannelInvInit
  <1>2. ChannelInv /\ [Next]_vars => ChannelInv'
    BY TypeNext, HandlersStep, SourcesStep, SequencesStep, StagesStep DEF ChannelInv
  <1>3. ChannelInv /\ ChannelInv' /\ [Next]_vars => [Channel!Next]_(Channel!vars)
    BY ChannelStep DEF ChannelInv
  <1> QED BY <1>1, <1>2, <1>3, ChannelInit, PTL DEF Spec, ImplementsChannel, Channel!Spec
=============================================================================
