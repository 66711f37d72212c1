----------------------------- MODULE Transport ------------------------------
(***************************************************************************)
(* How a page keeps in touch with its session: the Viridity object of the   *)
(* browser (src/src/js/Viridity.js) over long polls, an event source or a   *)
(* web socket, and the handshake of the channel handlers that serve it      *)
(* (src/src/handlers/longpollinghandler.cpp, ssehandler.cpp,                *)
(* websockethandler.cpp, inputposthandler.cpp).                             *)
(*                                                                          *)
(* The page is single threaded, but it has timers, a stream, polls and      *)
(* POSTs under way at the same time, and each of them goes on with what it  *)
(* finds when it comes back: two chains of timers carry it, the senders     *)
(* (_longPollingSendInputEvents) and the pollers                            *)
(* (_longPollingReceiveOutputMessages).  Requests that overlap reach the    *)
(* server over different connections.                                       *)
(*                                                                          *)
(* Another tab may want the same session.  A session is used by the         *)
(* handlers it counts; acquireSession posts the increment, so a handler     *)
(* that is admitted is counted a little later (see Sessions).               *)
(***************************************************************************)
EXTENDS Integers, Sequences, FiniteSets

CONSTANTS
    Methods,      \* the connection methods the page may start with
    MaxMessages,  \* bound: messages the page sends
    MaxFaults,    \* bound: requests that fail or time out, streams that break
    MaxVisits,    \* bound: how often another tab opens the session or the sweep
                  \* removes it
    MaxGets       \* bound: polls under way at the same time

ASSUME MethodAssumption == Methods \subseteq {"ws", "sse", "lp"}
ASSUME BoundAssumption ==
    MaxMessages \in Nat /\ MaxFaults \in Nat /\ MaxVisits \in Nat /\ MaxGets \in Nat

VARIABLES
    page,         \* the Viridity object
    sent,         \* how many messages were given to sendMessage
    gets,         \* polls under way
    posts,        \* POSTs under way, and abandoned ones the server works on
    wire,         \* the client's messages in the web socket
    down,         \* the server's messages in the stream
    stream,       \* the request that opened the stream, at the server
    use,          \* the stream's handler, that of an earlier stream nobody
                  \* has closed, and that of the other tab: counted or not
    known,        \* the session of the page's id exists
    handled,      \* history: the messages the session's handlers were given
    disturbed,    \* history: a POST was abandoned, or survived a disconnect
    raced,        \* history: a stream was admitted while an increment waited
    cancelled,    \* history: a late answer ended a reconnection
    stranded,     \* history: a message of the event source started the senders
                  \* of a page that is not connected, where they end at once
    faults, visits

pageVars == <<page, sent>>
netVars == <<gets, posts, wire, down>>
serverVars == <<stream, use, known, handled>>
historyVars == <<disturbed, raced, cancelled, stranded>>
boundVars == <<faults, visits>>
vars == <<pageVars, netVars, serverVars, historyVars, boundVars>>

Page == [method : {"ws", "sse", "lp"}, connected : BOOLEAN, reconnecting : BOOLEAN,
         started : BOOLEAN, first : BOOLEAN, timer : BOOLEAN, refused : BOOLEAN,
         stream : {"none", "opening", "open"}, senders : Nat, pollers : Nat,
         queue : Seq(1..MaxMessages)]
Answer == {"none", "info", "reattached", "inuse", "data"}
Get == [id : 1..MaxGets, init : BOOLEAN, waited : BOOLEAN, msg : Answer,
        phase : {"sent", "tested", "acquiring", "held", "answered"}]
Post == [todo : Seq(1..MaxMessages), last : 1..MaxMessages, waited : BOOLEAN]
User == {"stream", "stale", "other"}
UseState == {"no", "acquiring", "counted"}

TypeOK ==
    /\ page \in Page
    /\ sent \in 0..MaxMessages
    /\ gets \subseteq Get /\ posts \subseteq Post
    /\ wire \in Seq(1..MaxMessages)
    /\ down \in Seq(Answer)
    /\ stream \in {"none", "upgrade", "sent", "tested", "up", "refused", "ended"}
    /\ use \in [User -> UseState]
    /\ known \in BOOLEAN
    /\ handled \in Seq(1..MaxMessages)
    /\ disturbed \in BOOLEAN /\ raced \in BOOLEAN /\ cancelled \in BOOLEAN
    /\ stranded \in BOOLEAN
    /\ faults \in 0..MaxFaults /\ visits \in 0..MaxVisits

\* init(options); connect() is about to run.
Init ==
    /\ \E m \in Methods :
         page = [method |-> m, connected |-> FALSE, reconnecting |-> FALSE,
                 started |-> FALSE, first |-> TRUE, timer |-> TRUE, refused |-> FALSE,
                 stream |-> "none", senders |-> 0, pollers |-> 0, queue |-> <<>>]
    /\ sent = 0
    /\ gets = {} /\ posts = {} /\ wire = <<>> /\ down = <<>>
    /\ stream = "none"
    /\ use = [u \in User |-> "no"]
    /\ known = FALSE
    /\ handled = <<>>
    /\ disturbed = FALSE /\ raced = FALSE /\ cancelled = FALSE
    /\ stranded = FALSE
    /\ faults = 0 /\ visits = 0

-----------------------------------------------------------------------------
(* What the functions of the page do to it *)

\* Mutant: the senders of the next connection are not started again.
KeepStarted(v, downgrade) ==
    LET method == IF ~v.first /\ ~downgrade THEN v.method
                  ELSE IF v.method = "ws" THEN "sse" ELSE "lp"
    IN  [v EXCEPT !.method = method, !.first = FALSE, !.timer = TRUE,
                  !.connected = FALSE, !.reconnecting = TRUE]

\* Mutant: a failed retry is the last one.
RetryOnce(v, downgrade) ==
    IF v.reconnecting THEN [v EXCEPT !.timer = FALSE] ELSE
    [KeepStarted(v, downgrade) EXCEPT !.started = FALSE]

\* _handleDisconnect: the first one downgrades the method, and so does every
\* tenth of the retries.
HandleDisconnect(v, downgrade) ==
    LET method == IF ~v.first /\ ~downgrade THEN v.method
                  ELSE IF v.method = "ws" THEN "sse" ELSE "lp"
        w == [v EXCEPT !.method = method, !.first = FALSE, !.timer = TRUE]
    IN  IF v.reconnecting THEN w
        ELSE [w EXCEPT !.started = FALSE, !.connected = FALSE, !.reconnecting = TRUE]

\* processMessage: any message ends a reconnection.
ProcessMessage(v, msg) ==
    LET w == CASE msg \in {"info", "reattached"} -> [v EXCEPT !.connected = TRUE]
               [] msg = "inuse" -> [v EXCEPT !.connected = FALSE, !.refused = TRUE]
               [] OTHER -> v
    IN  IF v.reconnecting THEN [w EXCEPT !.timer = FALSE, !.reconnecting = FALSE] ELSE w

\* Mutant: the sender does not wait for the POST before its next pause.
SendAhead(v) ==
    [v EXCEPT !.queue = IF v.connected THEN <<>> ELSE @,
              !.senders = IF v.connected THEN @ + 1 ELSE @]

\* _longPollingSendInputEvents: what it leaves of the page, and its POST.  The
\* chain ends when the page is not connected.
AfterSending(v) ==
    [v EXCEPT !.queue = IF v.connected THEN <<>> ELSE @,
              !.senders = IF v.connected /\ v.queue = <<>> THEN @ + 1 ELSE @]
PostOf(v) ==
    IF v.connected /\ v.queue # <<>>
    THEN {[todo |-> v.queue, last |-> v.queue[Len(v.queue)], waited |-> TRUE]}
    ELSE {}

\* _longPollingCheckInputEventsStarted
CheckStarted(v) == IF v.started THEN v ELSE [AfterSending(v) EXCEPT !.started = TRUE]
PostOfStart(v) == IF v.started THEN {} ELSE PostOf(v)

\* A late answer to an old poll, which is no handshake, ends a reconnection.
Cancels(v, msg) == v.reconnecting /\ msg = "data"

FreeGets == (1..MaxGets) \ {g.id : g \in gets}
NewGet(v) ==
    [id |-> CHOOSE i \in FreeGets : TRUE, init |-> ~v.started \/ ~v.connected,
     waited |-> TRUE, msg |-> "none", phase |-> "sent"]

-----------------------------------------------------------------------------
(* The server's bookkeeping *)

\* useCount_ of the session
UseCount == Cardinality({u \in User : use[u] = "counted"})
              + Cardinality({g \in gets : g.phase = "held"})
IncrementWaits ==
    \/ \E u \in User : use[u] = "acquiring"
    \/ \E g \in gets : g.phase = "acquiring"

\* handleSessionInteractionDormant of every long poll answers it with ping(),
\* a message like any other.
Pinged == {IF g.phase = "held" THEN [g EXCEPT !.phase = "answered", !.msg = "data"]
                               ELSE g : g \in gets}

\* testForInteractivity(5000, true): nothing happens for a session nobody
\* uses; a tab somebody interacts with keeps it; otherwise every handler is
\* told to release it (requestReleaseAndWait), and event sources are closed.  A
\* web socket is not connected to releaseRequired and keeps it.  The stream of
\* a page that tests is an event source whose page had a POST fail.
TestForInteractivity(users, polls) ==
    \/ UseCount = 0 /\ users = use /\ polls = gets
    \/ UseCount > 0 /\ use["other"] = "counted" /\ users = use /\ polls = Pinged
    \/ /\ UseCount > 0
       /\ \E sockets \in SUBSET {"stale", "other"} :
            users = [u \in User |-> IF use[u] = "counted" /\ u \notin sockets
                                   THEN "no" ELSE use[u]]
       /\ polls = Pinged

-----------------------------------------------------------------------------
(* The page *)

\* sendMessage: an open web socket takes it, inputEvents otherwise.
SendMessage ==
    /\ sent < MaxMessages
    /\ sent' = sent + 1
    /\ IF page.method = "ws" /\ page.stream = "open"
       THEN wire' = Append(wire, sent + 1) /\ UNCHANGED page
       ELSE page' = [page EXCEPT !.queue = Append(@, sent + 1)] /\ UNCHANGED wire
    /\ UNCHANGED <<gets, posts, down, serverVars, historyVars, boundVars>>

\* The handler of a stream the page has let go of.
LeaveStream == IF use["stream"] = "no" THEN use
               ELSE [use EXCEPT !["stale"] = "counted", !["stream"] = "no"]

\* connect, by the reconnect timer.  A sender that waits for its pause (33 ms)
\* has run by then (500 ms).  A stream of before is closed.
Connect ==
    /\ page.timer /\ page.senders = 0
    /\ IF page.method = "lp"
       THEN /\ FreeGets # {}
            /\ gets' = gets \cup {NewGet(page)}
            /\ page' = [page EXCEPT !.timer = FALSE, !.refused = FALSE]
            /\ UNCHANGED <<down, wire, stream, use>>
       ELSE /\ page' = [page EXCEPT !.timer = FALSE, !.refused = FALSE,
                                    !.stream = "opening"]
            /\ down' = <<>> /\ wire' = <<>>
            /\ stream' = IF page.method = "ws" THEN "upgrade" ELSE "sent"
            /\ use' = LeaveStream
            /\ UNCHANGED gets
    /\ UNCHANGED <<sent, posts, known, handled, historyVars, boundVars>>

\* A sender's timer fires.
SendInputEvents ==
    /\ page.senders > 0
    /\ page.connected => page.queue # <<>>  \* otherwise it only starts over
    /\ page' = AfterSending([page EXCEPT !.senders = @ - 1])
    /\ posts' = posts \cup PostOf(page)
    /\ UNCHANGED <<sent, gets, wire, down, serverVars, historyVars, boundVars>>

\* success of a POST: the chain goes on after a pause.
PostSucceeds(p) ==
    /\ p.waited /\ p.todo = <<>>
    /\ posts' = posts \ {p}
    /\ page' = [page EXCEPT !.senders = @ + 1]
    /\ UNCHANGED <<sent, gets, wire, down, serverVars, historyVars, boundVars>>

\* What the server has of a POST the page gives up: nothing, or all of it.
Abandon(p) ==
    \/ posts' = posts \ {p}
    \/ p.todo # <<>> /\ posts' = (posts \ {p}) \cup {[p EXCEPT !.waited = FALSE]}

\* error of a POST, with a status of timeout: nothing is sent again.
PostTimesOut(p) ==
    /\ p.waited /\ faults < MaxFaults
    /\ faults' = faults + 1
    /\ Abandon(p)
    /\ disturbed' = TRUE
    /\ page' = [page EXCEPT !.senders = @ + 1]
    /\ UNCHANGED <<sent, gets, wire, down, serverVars, raced, cancelled, stranded, visits>>

\* error of a POST, with any other status.
PostFails(p) ==
    /\ p.waited /\ faults < MaxFaults
    /\ faults' = faults + 1
    /\ Abandon(p)
    /\ disturbed' = TRUE
    /\ \E downgrade \in {FALSE, page.reconnecting} :
         page' = HandleDisconnect(page, downgrade)
    /\ UNCHANGED <<sent, gets, wire, down, serverVars, raced, cancelled, stranded, visits>>

\* A poller's timer fires.
ReceiveOutputMessages ==
    /\ page.pollers > 0 /\ FreeGets # {}
    /\ page' = [page EXCEPT !.pollers = @ - 1]
    /\ gets' = gets \cup {NewGet(page)}
    /\ UNCHANGED <<sent, posts, wire, down, serverVars, historyVars, boundVars>>

\* success of a poll: the chain goes on when the page is connected.
PollSucceeds(g) ==
    /\ g.waited /\ g.phase = "answered"
    /\ LET v == ProcessMessage(page, g.msg)
       IN  /\ page' = IF v.connected
                      THEN [CheckStarted(v) EXCEPT !.pollers = @ + 1] ELSE v
           /\ posts' = IF v.connected THEN posts \cup PostOfStart(v) ELSE posts
           /\ cancelled' = (~v.connected /\ (cancelled \/ Cancels(page, g.msg)))
    /\ gets' = gets \ {g}
    /\ UNCHANGED <<sent, wire, down, serverVars, disturbed, raced, stranded, boundVars>>

\* A poll the page gives up: the server still holds it until it answers.
GiveUp(g) ==
    gets' = IF g.phase = "answered" THEN gets \ {g}
            ELSE (gets \ {g}) \cup {[g EXCEPT !.waited = FALSE]}

PollTimesOut(g) ==
    /\ g.waited /\ faults < MaxFaults
    /\ faults' = faults + 1
    /\ GiveUp(g)
    /\ page' = [page EXCEPT !.pollers = @ + 1]
    /\ UNCHANGED <<sent, posts, wire, down, serverVars, historyVars, visits>>

PollFails(g) ==
    /\ g.waited /\ faults < MaxFaults
    /\ faults' = faults + 1
    /\ GiveUp(g)
    /\ disturbed' = (disturbed \/ posts # {})
    /\ \E downgrade \in {FALSE, page.reconnecting} :
         page' = HandleDisconnect(page, downgrade)
    /\ UNCHANGED <<sent, posts, wire, down, serverVars, raced, cancelled, stranded, visits>>

\* onopen: a web socket first takes what is queued.
StreamOpens ==
    /\ page.stream = "opening" /\ down # <<>>
    /\ IF page.method = "ws"
       THEN /\ wire' = wire \o page.queue
            /\ page' = [page EXCEPT !.stream = "open", !.queue = <<>>]
       ELSE page' = [page EXCEPT !.stream = "open"] /\ UNCHANGED wire
    /\ UNCHANGED <<sent, gets, posts, down, serverVars, historyVars, boundVars>>

\* onmessage.  Messages of an event source also start the senders, connected
\* or not.
ReceiveFromStream ==
    /\ page.stream = "open" /\ down # <<>>
    /\ down' = Tail(down)
    /\ LET v == ProcessMessage(page, Head(down))
       IN  IF page.method = "ws"
           THEN page' = v /\ UNCHANGED <<posts, stranded>>
           ELSE /\ page' = CheckStarted(v)
                /\ posts' = posts \cup PostOfStart(v)
                /\ stranded' = (stranded \/ (~v.connected /\ ~v.started))
    /\ cancelled' = (cancelled /\ ~page'.connected)
    /\ UNCHANGED <<sent, gets, wire, serverVars, disturbed, raced, boundVars>>

\* onerror or onclose, because the server ended the stream.
StreamEnds ==
    /\ page.stream # "none" /\ stream = "ended" /\ down = <<>>
    /\ stream' = "none"
    /\ \E downgrade \in {FALSE, page.reconnecting} :
         page' = [HandleDisconnect(page, downgrade) EXCEPT !.stream = "none"]
    /\ disturbed' = (disturbed \/ posts # {} \/ wire # <<>>)
    /\ posts' = posts
    /\ wire' = <<>>
    /\ UNCHANGED <<sent, gets, down, use, known, handled, raced, cancelled, stranded, boundVars>>

\* onerror or onclose, because the connection broke: what is in it is lost, or
\* still read by the server.
StreamBreaks ==
    /\ page.stream # "none" /\ faults < MaxFaults
    /\ faults' = faults + 1
    /\ stream' = "none"
    /\ \E downgrade \in {FALSE, page.reconnecting} :
         page' = [HandleDisconnect(page, downgrade) EXCEPT !.stream = "none"]
    /\ \/ posts' = posts
       \/ /\ wire # <<>>
          /\ posts' = posts \cup {[todo |-> wire, last |-> wire[Len(wire)],
                                   waited |-> FALSE]}
    /\ disturbed' = (disturbed \/ posts # {} \/ wire # <<>>)
    /\ wire' = <<>> /\ down' = <<>>
    /\ use' = LeaveStream
    /\ UNCHANGED <<sent, gets, known, handled, raced, cancelled, stranded, visits>>

-----------------------------------------------------------------------------
(* The server *)

\* A poll with ?a=init of a known session tests who interacts with it.
TestPoll(g) ==
    /\ g.phase = "sent" /\ g.init /\ known
    /\ \E users \in [User -> UseState], polls \in {gets, Pinged} :
          /\ TestForInteractivity(users, polls)
          /\ use' = users
          /\ gets' = (polls \ {g}) \cup {[g EXCEPT !.phase = "tested"]}
          /\ stream' = IF use["stream"] = "counted" /\ users["stream"] = "no"
                       THEN "ended" ELSE stream
    /\ UNCHANGED <<pageVars, posts, wire, down, known, handled, historyVars, boundVars>>

\* It is answered at once, and nothing is left of its use.
AnswerHandshake(g) ==
    /\ g.phase = "tested" \/ (g.phase = "sent" /\ ~known)
    /\ gets' = (gets \ {g}) \cup
               {[g EXCEPT !.phase = "answered",
                          !.msg = IF ~known THEN "info"
                                  ELSE IF UseCount = 0 THEN "reattached" ELSE "inuse"]}
    /\ known' = TRUE
    /\ UNCHANGED <<pageVars, posts, wire, down, stream, use, handled, historyVars,
                   boundVars>>

\* Any other poll acquires the session, whoever uses it.
AcquireForPoll(g) ==
    /\ \/ g.phase = "sent" /\ ~g.init /\ known
          /\ gets' = (gets \ {g}) \cup {[g EXCEPT !.phase = "acquiring"]}
       \/ g.phase = "acquiring"
          /\ gets' = (gets \ {g}) \cup {[g EXCEPT !.phase = "held"]}
    /\ UNCHANGED <<pageVars, posts, wire, down, serverVars, historyVars, boundVars>>

\* There are messages, or the session is dormant and its polls get a ping().
\* An answer nobody waits for is written all the same.
AnswerPoll(g) ==
    /\ g.phase = "held"
    /\ gets' = (gets \ {g}) \cup
               (IF g.waited THEN {[g EXCEPT !.phase = "answered", !.msg = "data"]}
                            ELSE {})
    /\ UNCHANGED <<pageVars, posts, wire, down, serverVars, historyVars, boundVars>>

\* The answer to a handshake the page has given up.
DropAnswer(g) ==
    /\ g.phase = "answered" /\ ~g.waited
    /\ gets' = gets \ {g}
    /\ UNCHANGED <<pageVars, posts, wire, down, serverVars, historyVars, boundVars>>

\* An event source tests, a web socket does not.
TestStream ==
    /\ stream = "sent" /\ known
    /\ \E users \in [User -> UseState], polls \in {gets, Pinged} :
          TestForInteractivity(users, polls) /\ use' = users /\ gets' = polls
    /\ stream' = "tested"
    /\ UNCHANGED <<pageVars, posts, wire, down, known, handled, historyVars, boundVars>>

\* Mutant: a web socket is admitted whoever uses the session.
AdmitAnyStream ==
    /\ stream \in {"upgrade", "tested"} \/ (stream = "sent" /\ ~known)
    /\ use' = [use EXCEPT !["stream"] = "acquiring"]
    /\ stream' = "up"
    /\ down' = <<IF known THEN "reattached" ELSE "info">>
    /\ known' = TRUE
    /\ raced' = (raced \/ IncrementWaits)
    /\ UNCHANGED <<pageVars, gets, posts, wire, handled, disturbed, cancelled, stranded, boundVars>>

\* handleUpgrade, SSEHandler::doHandleRequest: a new session, the old one if
\* nobody is counted as using it, or a refusal, after which a web socket stays
\* open and an event source is ended.
AdmitStream ==
    /\ stream \in {"upgrade", "tested"} \/ (stream = "sent" /\ ~known)
    /\ IF known /\ UseCount > 0
       THEN /\ down' = <<"inuse">>
            /\ stream' = IF stream = "upgrade" THEN "refused" ELSE "ended"
            /\ UNCHANGED <<use, raced>>
       ELSE /\ use' = [use EXCEPT !["stream"] = "acquiring"]
            /\ stream' = "up"
            /\ down' = <<IF known THEN "reattached" ELSE "info">>
            /\ raced' = (raced \/ IncrementWaits)
    /\ known' = TRUE
    /\ UNCHANGED <<pageVars, gets, posts, wire, handled, disturbed, cancelled, stranded, boundVars>>

\* handleMessagesAvailable of a stream.
WriteToStream ==
    /\ stream = "up" /\ use["stream"] = "counted" /\ down = <<>>
    /\ down' = <<"data">>
    /\ UNCHANGED <<pageVars, gets, posts, wire, serverVars, historyVars, boundVars>>

\* handleSessionInteractionDormant of a stream: its page, which is not
\* connected, answers no ping(), and the handler closes the connection.
CloseSilentStream ==
    /\ stream = "up" /\ use["stream"] = "counted" /\ ~page.connected /\ down = <<>>
    /\ use' = [use EXCEPT !["stream"] = "no"]
    /\ stream' = "ended"
    /\ UNCHANGED <<pageVars, netVars, known, handled, historyVars, boundVars>>

\* The server sees that the connection of an earlier stream is gone.
NoticeStaleStream ==
    /\ use["stale"] = "counted"
    /\ use' = [use EXCEPT !["stale"] = "no"]
    /\ UNCHANGED <<pageVars, netVars, stream, known, handled, historyVars, boundVars>>

\* incrementUseCount runs.
CountUser(u) ==
    /\ use[u] = "acquiring"
    /\ use' = [use EXCEPT ![u] = "counted"]
    /\ UNCHANGED <<pageVars, netVars, stream, known, handled, historyVars, boundVars>>

\* Another tab opens a stream of the session, or closes it.
OtherTab ==
    /\ \/ /\ visits < MaxVisits /\ known
          /\ use["other"] = "no" /\ UseCount = 0
          /\ use' = [use EXCEPT !["other"] = "acquiring"]
          /\ raced' = (raced \/ IncrementWaits)
          /\ visits' = visits + 1
       \/ /\ use["other"] = "counted"
          /\ use' = [use EXCEPT !["other"] = "no"]
          /\ UNCHANGED <<raced, visits>>
    /\ UNCHANGED <<pageVars, netVars, stream, known, handled, disturbed, cancelled, stranded,
                   faults>>

\* The sweep removes the session (Sessions); counted like a visit.
SessionExpires ==
    /\ known /\ UseCount = 0 /\ ~IncrementWaits /\ visits < MaxVisits
    /\ \A g \in gets : g.phase # "tested"
    /\ stream # "tested"
    /\ visits' = visits + 1
    /\ known' = FALSE
    /\ UNCHANGED <<pageVars, netVars, stream, use, handled, historyVars, faults>>

\* InputPostHandler::handleRequestEnd: one message after the other, each a
\* blocking call.  A POST for a session that is gone is answered, and what it
\* brought is lost.
HandlePost(p) ==
    /\ p.todo # <<>>
    /\ LET q == [p EXCEPT !.todo = IF known THEN Tail(@) ELSE <<>>]
       IN  posts' = (posts \ {p}) \cup (IF q.todo = <<>> /\ ~p.waited THEN {} ELSE {q})
    /\ handled' = IF known THEN Append(handled, Head(p.todo)) ELSE handled
    /\ UNCHANGED <<pageVars, gets, wire, down, stream, use, known, historyVars, boundVars>>

\* clientMessageReceived of a web socket.  One that was refused has no session: its
\* messages go to all there are, that of the page among them.
HandleSocketMessage ==
    /\ wire # <<>> /\ stream \in {"up", "refused"}
    /\ wire' = Tail(wire)
    /\ handled' = IF known THEN Append(handled, Head(wire)) ELSE handled
    /\ UNCHANGED <<pageVars, gets, posts, down, stream, use, known, historyVars, boundVars>>

-----------------------------------------------------------------------------
PageStep ==
    \/ Connect \/ SendInputEvents \/ ReceiveOutputMessages
    \/ StreamOpens \/ ReceiveFromStream \/ StreamEnds
    \/ \E p \in posts : PostSucceeds(p)
    \/ \E g \in gets : PollSucceeds(g)
PollHandler(g) ==
    TestPoll(g) \/ AnswerHandshake(g) \/ AcquireForPoll(g) \/ AnswerPoll(g) \/ DropAnswer(g)
ServerStep ==
    \/ \E g \in gets : PollHandler(g)
    \/ TestStream \/ AdmitStream \/ CloseSilentStream \/ NoticeStaleStream
    \/ \E u \in User : CountUser(u)
    \/ \E p \in posts : HandlePost(p)
    \/ HandleSocketMessage
Fault ==
    \/ \E p \in posts : PostTimesOut(p) \/ PostFails(p)
    \/ \E g \in gets : PollTimesOut(g) \/ PollFails(g)
    \/ StreamBreaks \/ SessionExpires

Next ==
    \/ PageStep
    \/ ServerStep
    \/ WriteToStream
    \/ SendMessage
    \/ Fault
    \/ OtherTab

Spec == Init /\ [][Next]_vars

\* Timers fire, requests are answered, queued calls are executed.
FairSpec ==
    /\ Spec
    /\ WF_vars(Connect) /\ WF_vars(SendInputEvents) /\ WF_vars(ReceiveOutputMessages)
    /\ WF_vars(StreamOpens) /\ WF_vars(ReceiveFromStream) /\ WF_vars(StreamEnds)
    /\ WF_vars(\E p \in posts : PostSucceeds(p) \/ HandlePost(p))
    /\ \A i \in 1..MaxGets :
         WF_vars(\E g \in gets : g.id = i /\ (PollSucceeds(g) \/ PollHandler(g)))
    /\ WF_vars(TestStream \/ AdmitStream) /\ SF_vars(CloseSilentStream)
    /\ WF_vars(NoticeStaleStream) /\ WF_vars(HandleSocketMessage)
    /\ \A u \in User : WF_vars(CountUser(u))

-----------------------------------------------------------------------------
(* Properties *)

\* The session's handlers are given no message of the page twice, however
\* requests fail and whatever the page has tried: nothing is sent again.  They
\* get the messages in the order they were sent in, across polls, POSTs and a
\* change of the method, unless a POST was abandoned, or was under way when the
\* page lost its connection.
HandledOnceInOrder ==
    \A i, j \in 1..Len(handled) : i < j =>
        handled[i] # handled[j] /\ (~disturbed => handled[i] < handled[j])

\* Two streams use one session only when the second was admitted while the
\* increment for the first was still queued.  (And every variable is well typed.)
StreamsExcludeEachOther ==
    TypeOK /\ (use["stream"] # "no" /\ use["other"] # "no" => raced)

\* A page that is not connected gets connected in the end, or is told that
\* the session is in use; but for the one case that the late answer to an old
\* poll ends its reconnection.
PageRecovers == []<>(page.connected \/ page.refused \/ cancelled)

\* What a connected page has queued is sent in the end, or it is disconnected
\* first.  There are two exceptions, in which inputEventsStarted is set and the
\* senders have ended, so that nothing starts them again.  A page is told that
\* the session is in use by one of two handshakes that overlap, and the other
\* one connects it.  And a POST of a page fails whose event source stays open:
\* a message that arrives there before the page is connected again starts the
\* senders too early.
QueuedMessagesAreSent ==
    (page.connected /\ page.queue # <<>>)
        ~> (page.queue = <<>> \/ ~page.connected \/ page.refused \/ stranded)
=============================================================================
