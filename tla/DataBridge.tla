----------------------------- MODULE DataBridge -----------------------------
(***************************************************************************)
(* Data bridges: calls with answers between the logic of the application    *)
(* and the pages, over the message channel of the sessions                  *)
(* (src/src/viriditydatabridge.cpp, qml/Viridity/ViridityDataBridge.qml,    *)
(* js/DataBridge.js, and the ways through the session manager).             *)
(*                                                                          *)
(* The bridge of the global logic sends to the sessions that subscribed, as *)
(* long as they are attached; the bridge of a session's logic sends to the  *)
(* sessions of that logic.  A call carries a number, the answer repeats it. *)
(* The page counts its calls from the start: a page that is loaded again    *)
(* starts over, while answers to the former page may still wait for it in   *)
(* the session.                                                             *)
(*                                                                          *)
(* The channel is a queue each way and session (Outbox, Transport); what is *)
(* in it is lost with a request or a stream.  A call has a name of its own  *)
(* here, so that an answer can be told from another with the same number.   *)
(***************************************************************************)
EXTENDS Integers, Sequences, FiniteSets

CONSTANTS
    Session,     \* sessions of one logic
    Caller,      \* those whose pages call the server
    MaxCalls,    \* bound: calls of the pages
    MaxData,     \* bound: calls of the bridges of the server
    MaxQueue,    \* bound: messages in a queue when another one is sent
    MaxFaults    \* bound: detached sessions, lost messages, pages loaded again

ASSUME CallerAssumption == Caller \subseteq Session
ASSUME BoundAssumption == /\ MaxCalls \in Nat /\ MaxData \in Nat /\ MaxFaults \in Nat
                          /\ MaxQueue \in Nat

Target == {"global", "session"}

VARIABLES
    subs,        \* subscriberSessionIds_ of the global bridge
    responseId,  \* responseId_ of each bridge
    waiting,     \* pendingResponseCallbacks of each bridge
    attached,    \* sessions attached to a client
    toServer, toClient,   \* the channel of each session
    counter,     \* responseId of the bridges of each page
    pending,     \* pendingResponseCallbacks of the bridges of each page
    calls,       \* how many calls the pages have made
    seen,        \* history: what came last to each page from the global bridge,
                 \* 0 for nothing since the last confirmed subscription
    reloaded,    \* history: pages loaded again
    lostAt,      \* history: how far the global bridge was when messages for the page
                 \* were last lost
    faults

serverVars == <<subs, responseId, waiting, attached>>
pageVars == <<counter, pending, calls>>
historyVars == <<seen, reloaded, lostAt>>
bridgeVars == <<serverVars, toServer, toClient, pageVars, historyVars, faults>>

Id == 0..(MaxCalls + MaxFaults + MaxData + 1)
Message == [kind : {"data", "answer", "subscribe"}, target : Target, id : Id, call : Int]

BridgeTypeOK ==
    /\ subs \subseteq Session /\ attached \subseteq Session
    /\ responseId \in [Target -> 0..MaxData]
    /\ waiting \in [Target -> SUBSET (1..MaxData)]
    /\ toServer \in [Session -> Seq(Message)] /\ toClient \in [Session -> Seq(Message)]
    /\ counter \in [Session -> [Target -> Id]]
    /\ pending \in [Session -> [Target -> SUBSET (Id \X (1..MaxCalls))]]
    /\ \A s \in Session, t \in Target : \A p \in pending[s][t] : p[1] \in 1..counter[s][t]
    /\ calls \in 0..MaxCalls /\ faults \in 0..MaxFaults
    /\ reloaded \subseteq Session /\ seen \in [Session -> 0..MaxData]
    /\ lostAt \in [Session -> 0..MaxData]

BridgeInit ==
    /\ subs = {} /\ attached = Session
    /\ responseId = [t \in Target |-> 0]
    /\ waiting = [t \in Target |-> {}]
    /\ toServer = [s \in Session |-> <<>>] /\ toClient = [s \in Session |-> <<>>]
    /\ counter = [s \in Session |-> [t \in Target |-> 0]]
    /\ pending = [s \in Session |-> [t \in Target |-> {}]]
    /\ calls = 0
    /\ seen = [s \in Session |-> 0] /\ reloaded = {}
    /\ lostAt = [s \in Session |-> 0]
    /\ faults = 0

-----------------------------------------------------------------------------
(* The page *)

Quiet(queue) == \A s \in Session : Len(queue[s]) < MaxQueue
Say(s, m) == toServer' = [toServer EXCEPT ![s] = Append(@, m)]

\* subscribe, at sessionStart and sessionReattached.
Subscribe(s) ==
    /\ faults < MaxFaults \/ counter[s]["global"] = 0
    /\ Quiet(toServer)
    /\ faults' = IF counter[s]["global"] = 0 THEN faults ELSE faults + 1
    /\ counter' = [counter EXCEPT ![s]["global"] = @ + 1]
    /\ Say(s, [kind |-> "subscribe", target |-> "global",
               id |-> counter'[s]["global"], call |-> 0])
    /\ UNCHANGED <<serverVars, toClient, pending, calls, historyVars>>

\* Mutant: only calls with a callback are counted.
CountCallbacks(s, t, callback) ==
    /\ counter' = IF callback THEN [counter EXCEPT ![s][t] = @ + 1] ELSE counter
    /\ pending' = IF callback
                  THEN [pending EXCEPT ![s][t] = {p \in @ : p[1] # counter'[s][t]}
                                                 \cup {<<counter'[s][t], calls'>>}]
                  ELSE pending

\* The number of a call, and its callback.
NumberCall(s, t, callback) ==
    /\ counter' = [counter EXCEPT ![s][t] = @ + 1]
    /\ pending' = IF callback
                  THEN [pending EXCEPT ![s][t] = @ \cup {<<counter'[s][t], calls'>>}]
                  ELSE pending

\* sendData of the page.
Call(s, t) ==
    /\ s \in Caller /\ calls < MaxCalls /\ Quiet(toServer)
    /\ calls' = calls + 1
    /\ \E callback \in BOOLEAN : NumberCall(s, t, callback)
    /\ Say(s, [kind |-> "data", target |-> t, id |-> counter'[s][t], call |-> calls'])
    /\ UNCHANGED <<serverVars, toClient, historyVars, faults>>

\* _messageCallback with data: the answer carries the number of the call.
HearData(s, m) ==
    /\ m.kind = "data"
    /\ Say(s, [m EXCEPT !.kind = "answer"])
    /\ seen' = IF m.target = "global" THEN [seen EXCEPT ![s] = m.call] ELSE seen
    /\ UNCHANGED pending

\* _messageCallback with dataResponse: the callback is called and forgotten.
HearAnswer(s, m) ==
    LET hit == {p \in pending[s][m.target] : p[1] = m.id}
    IN  /\ m.kind = "answer"
        /\ pending' = [pending EXCEPT ![s][m.target] = @ \ hit]
        /\ seen' = IF m.call = 0 THEN [seen EXCEPT ![s] = 0] ELSE seen
        /\ UNCHANGED toServer

\* The page takes the next message.
Receive(s) ==
    /\ toClient[s] # <<>> /\ s \in attached
    /\ toClient' = [toClient EXCEPT ![s] = Tail(@)]
    /\ HearData(s, Head(toClient[s])) \/ HearAnswer(s, Head(toClient[s]))
    /\ UNCHANGED <<serverVars, counter, calls, reloaded, lostAt, faults>>

\* The page is loaded again with its session.
Reload(s) ==
    /\ faults < MaxFaults
    /\ faults' = faults + 1
    /\ counter' = [counter EXCEPT ![s] = [t \in Target |-> 0]]
    /\ pending' = [pending EXCEPT ![s] = [t \in Target |-> {}]]
    /\ reloaded' = reloaded \cup {s}
    /\ UNCHANGED <<serverVars, toServer, toClient, calls, seen, lostAt>>

-----------------------------------------------------------------------------
(* The server *)

Tell(S, m) == toClient' = [s \in Session |-> IF s \in S THEN Append(toClient[s], m)
                                             ELSE toClient[s]]

\* Mutant: a subscriber found detached stays one.
KeepSubscribers(m) ==
    Tell(subs \cap attached, m) /\ UNCHANGED subs

\* The global bridge: subscribers that are attached get the data, others are
\* subscribers no more.
SendToSubscribers(m) ==
    Tell(subs \cap attached, m) /\ subs' = subs \cap attached

\* onResponseReceived: the first answer takes the callback.
TakeCallback(t, id) == waiting' = [waiting EXCEPT ![t] = @ \ {id}]

\* sendData of a bridge.  What it returns, and where the callback is kept, is
\* the outcome for the subscriber visited last.
SendData(t) ==
    /\ responseId["global"] + responseId["session"] < MaxData /\ Quiet(toClient)
    /\ responseId' = [responseId EXCEPT ![t] = @ + 1]
    /\ LET m == [kind |-> "data", target |-> t, id |-> responseId'[t],
                 call |-> responseId'[t]]
           kept == [waiting EXCEPT ![t] = @ \cup {responseId'[t]}]
       IN  IF t = "session"
           THEN Tell(Session, m) /\ waiting' = kept /\ UNCHANGED subs
           ELSE /\ SendToSubscribers(m)
                /\ IF subs = {} THEN UNCHANGED waiting
                   ELSE \E last \in subs :
                          waiting' = IF last \in attached THEN kept ELSE waiting
    /\ UNCHANGED <<attached, toServer, pageVars, historyVars, faults>>

\* localHandleMessage: a call is answered, a subscription entered and
\* confirmed or denied, an answer given to its callback.
HandleData(s, m) ==
    /\ m.kind = "data"
    /\ Tell({s}, [m EXCEPT !.kind = "answer"])
    /\ UNCHANGED <<subs, waiting>>
HandleSubscribe(s, m) ==
    /\ m.kind = "subscribe"
    /\ \E denied \in BOOLEAN :
         IF denied THEN subs' = subs /\ Tell({s}, [m EXCEPT !.kind = "answer", !.call = -1])
                   ELSE subs' = subs \cup {s} /\ Tell({s}, [m EXCEPT !.kind = "answer"])
    /\ UNCHANGED waiting
HandleAnswer(s, m) ==
    /\ m.kind = "answer"
    /\ TakeCallback(m.target, m.id)
    /\ UNCHANGED <<subs, toClient>>

\* dispatchMessageToHandlers: the session's bridge is asked first, the global
\* one when that did not handle it; each goes by the target.
Dispatch(s) ==
    /\ toServer[s] # <<>>
    /\ toServer' = [toServer EXCEPT ![s] = Tail(@)]
    /\ LET m == Head(toServer[s])
       IN  HandleData(s, m) \/ HandleSubscribe(s, m) \/ HandleAnswer(s, m)
    /\ UNCHANGED <<responseId, attached, pageVars, historyVars, faults>>

\* The session detaches, and attaches again (Sessions); the page may not
\* notice, when its polls are slow.
Detach(s) ==
    /\ s \in attached /\ faults < MaxFaults
    /\ faults' = faults + 1
    /\ attached' = attached \ {s}
    /\ UNCHANGED <<subs, responseId, waiting, toServer, toClient, pageVars, historyVars>>
Attach(s) ==
    /\ s \notin attached
    /\ attached' = attached \cup {s}
    /\ UNCHANGED <<subs, responseId, waiting, toServer, toClient, pageVars, historyVars,
                   faults>>

\* A POST fails with all it holds.
LosePost(s) ==
    /\ toServer[s] # <<>> /\ faults < MaxFaults
    /\ faults' = faults + 1
    /\ toServer' = [toServer EXCEPT ![s] = <<>>]
    /\ UNCHANGED <<serverVars, toClient, pageVars, historyVars>>

\* What was taken for a poll the page gave up, or written to a stream that broke, is
\* gone, and the session stays attached: some of the messages that follow each other.
LoseBatch(s) ==
    /\ toClient[s] # <<>> /\ faults < MaxFaults
    /\ faults' = faults + 1
    /\ LET queue == toClient[s]
       IN  \E i \in 1..Len(queue), j \in 1..Len(queue) :
             /\ i <= j
             /\ toClient' = [toClient EXCEPT ![s] = SubSeq(queue, 1, i - 1)
                                                    \o SubSeq(queue, j + 1, Len(queue))]
    /\ lostAt' = [lostAt EXCEPT ![s] = responseId["global"]]
    /\ UNCHANGED <<serverVars, toServer, pageVars, seen, reloaded>>

BridgeNext ==
    \E s \in Session :
        \/ Subscribe(s) \/ Receive(s) \/ Reload(s)
        \/ \E t \in Target : Call(s, t)
        \/ Dispatch(s) \/ Detach(s) \/ Attach(s) \/ LosePost(s) \/ LoseBatch(s)
        \/ \E t \in Target : SendData(t)

BridgeSpec == BridgeInit /\ [][BridgeNext]_bridgeVars

-----------------------------------------------------------------------------
(* Properties *)

\* A callback of the server, or of a page that was not loaded again, is called
\* with the answer to its own call, whatever is lost and whoever answers first.
\* A page loaded again counts from one: the answer to a call of the former
\* page may go to a call of the new one.  (And every variable stays well typed.)
AnswersMatchCalls ==
    [][/\ BridgeTypeOK'
       /\ \A s \in Session \ reloaded', t \in Target :
            \A p \in pending[s][t] \ pending'[s][t] :
                toClient[s] # <<>> /\ Head(toClient[s]).call = p[2]
       /\ \A t \in Target : \A id \in waiting[t] \ waiting'[t] :
            \E s \in Session : /\ toServer[s] # <<>>
                               /\ Head(toServer[s]).target = t
                               /\ Head(toServer[s]).call = id]_bridgeVars

\* A page misses nothing of the global bridge between two confirmations of
\* its subscription but what was sent before messages for it were lost on their
\* way: other gaps are only where it subscribed again.  (Nothing repeats what a
\* poll that was given up has taken, nor tells the page.)
NoGapWhileSubscribed ==
    [][\A s \in Session :
         seen[s] > 0 /\ seen'[s] > 0 =>
             \/ seen'[s] \in {seen[s], seen[s] + 1}
             \/ seen'[s] <= lostAt[s] + 1]_bridgeVars
=============================================================================
