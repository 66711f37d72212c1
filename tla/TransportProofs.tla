-------------------------- MODULE TransportProofs --------------------------
(***************************************************************************)
(* The messages of a page reach the handlers of its session once and in     *)
(* order, and two streams exclude each other: for any number of messages,   *)
(* requests, faults and visits of another tab.                              *)
(***************************************************************************)
EXTENDS Transport, SequenceTheorems, FiniteSetTheorems, TLAPS

-----------------------------------------------------------------------------
(* What the functions of the page do to it *)

\* Losing the connection: the queue and the senders stay.
LEMMA Disconnected ==
  ASSUME NEW v \in Page, NEW downgrade \in BOOLEAN, NEW w, w = HandleDisconnect(v, downgrade)
  PROVE  /\ w \in Page /\ w.timer /\ ~w.first /\ w.reconnecting
         /\ w.queue = v.queue /\ w.senders = v.senders /\ w.pollers = v.pollers /\ w.stream = v.stream
         /\ v.first \/ v.method # "ws" => w.method # "ws"
         /\ (v.reconnecting => ~v.connected) => ~w.connected
  BY DEF HandleDisconnect, Page

\* A message ends a reconnection, and leaves the queue and the senders alone.
LEMMA Processed ==
  ASSUME NEW v \in Page, NEW msg, NEW w, w = ProcessMessage(v, msg)
  PROVE  /\ w \in Page /\ ~w.reconnecting /\ (w.timer => v.timer)
         /\ w.queue = v.queue /\ w.senders = v.senders /\ w.pollers = v.pollers /\ w.stream = v.stream
         /\ w.method = v.method /\ w.first = v.first /\ w.started = v.started
  BY DEF ProcessMessage, Page

\* A sender takes the whole queue if the page is connected.
LEMMA Sending ==
  ASSUME NEW v \in Page, NEW w, w = AfterSending(v)
  PROVE  /\ w \in Page
         /\ w.pollers = v.pollers /\ w.stream = v.stream /\ w.method = v.method /\ w.first = v.first
         /\ w.started = v.started /\ w.timer = v.timer /\ w.connected = v.connected
         /\ w.reconnecting = v.reconnecting
         /\ w.queue = IF v.connected THEN <<>> ELSE v.queue
         /\ w.senders = IF v.connected /\ v.queue = <<>> THEN v.senders + 1 ELSE v.senders
         /\ w = [v EXCEPT !.queue = w.queue, !.senders = w.senders]
  <1>1. v.queue \in Seq(1..MaxMessages) /\ <<>> \in Seq(1..MaxMessages) /\ v.senders \in Nat
    BY DEF Page
  <1>2. (IF v.connected THEN <<>> ELSE v.queue) \in Seq(1..MaxMessages)
    BY <1>1
  <1> DEFINE q == IF v.connected THEN <<>> ELSE v.queue
             n == IF v.connected /\ v.queue = <<>> THEN v.senders + 1 ELSE v.senders
  <1>3. w = [v EXCEPT !.queue = q, !.senders = n]
    BY DEF AfterSending
  <1>4. q \in Seq(1..MaxMessages) /\ n \in Nat
    BY <1>1, <1>2
  <1> HIDE DEF q, n
  <1>5. w \in Page /\ w.queue = q /\ w.senders = n
    BY <1>3, <1>4 DEF Page
  <1>6. /\ w.pollers = v.pollers /\ w.stream = v.stream /\ w.method = v.method /\ w.first = v.first
        /\ w.started = v.started /\ w.timer = v.timer /\ w.connected = v.connected
        /\ w.reconnecting = v.reconnecting
    BY <1>3 DEF Page
  <1> QED BY <1>3, <1>5, <1>6 DEF q, n

\* The senders are started if they have not been, and then take the queue.
LEMMA Starting ==
  ASSUME NEW v \in Page, NEW w, w = CheckStarted(v)
  PROVE  /\ w \in Page /\ w.started
         /\ w.pollers = v.pollers /\ w.stream = v.stream /\ w.method = v.method /\ w.first = v.first
         /\ w.timer = v.timer /\ w.connected = v.connected /\ w.reconnecting = v.reconnecting
         /\ v.started => w = v
         /\ ~v.started => /\ w.queue = IF v.connected THEN <<>> ELSE v.queue
                          /\ w.senders = IF v.connected /\ v.queue = <<>> THEN v.senders + 1 ELSE v.senders
  <1> DEFINE u == AfterSending(v)
  <1>1. /\ u \in Page
        /\ u.pollers = v.pollers /\ u.stream = v.stream /\ u.method = v.method /\ u.first = v.first
        /\ u.timer = v.timer /\ u.connected = v.connected /\ u.reconnecting = v.reconnecting
        /\ u.queue = IF v.connected THEN <<>> ELSE v.queue
        /\ u.senders = IF v.connected /\ v.queue = <<>> THEN v.senders + 1 ELSE v.senders
    BY Sending
  <1>2. CASE v.started
    BY <1>2 DEF CheckStarted
  <1>3. CASE ~v.started
    <2>1. w = [u EXCEPT !.started = TRUE]
      BY <1>3 DEF CheckStarted
    <2> HIDE DEF u
    <2>2. /\ w \in Page /\ w.started /\ w.pollers = u.pollers /\ w.stream = u.stream
          /\ w.method = u.method /\ w.first = u.first /\ w.timer = u.timer
          /\ w.connected = u.connected /\ w.reconnecting = u.reconnecting
          /\ w.queue = u.queue /\ w.senders = u.senders
      BY <1>1, <2>1 DEF Page
    <2> QED BY <1>1, <1>3, <2>2
  <1> QED BY <1>2, <1>3

LEMMA LastOfSequence == ASSUME NEW S, NEW q \in Seq(S), q # <<>> PROVE q[Len(q)] \in S
  <1>1. Len(q) \in Nat /\ Len(q) # 0
    BY EmptySeq
  <1>2. Len(q) \in 1..Len(q)
    BY <1>1
  <1> QED BY <1>2

\* A POST takes the whole queue.
LEMMA Posted ==
  ASSUME NEW v \in Page, NEW p \in PostOf(v)
  PROVE  /\ p \in Post /\ p.todo = v.queue /\ p.waited
         /\ v.connected /\ v.queue # <<>> /\ PostOf(v) = {p}
  <1>1. /\ v.connected /\ v.queue # <<>>
        /\ p = [todo |-> v.queue, last |-> v.queue[Len(v.queue)], waited |-> TRUE]
        /\ PostOf(v) = {p}
    BY DEF PostOf
  <1>2. v.queue \in Seq(1..MaxMessages)
    BY DEF Page
  <1>3. v.queue[Len(v.queue)] \in 1..MaxMessages
    BY <1>1, <1>2, LastOfSequence
  <1> QED BY <1>1, <1>2, <1>3 DEF Post

-----------------------------------------------------------------------------
(* Types *)

\* What several actions make of the polls keeps them well typed.
LEMMA PollTypes ==
  ASSUME TypeOK
  PROVE  /\ FreeGets # {} => NewGet(page) \in Get /\ NewGet(page).waited
         /\ Pinged \subseteq Get
         /\ \A g \in gets : [g EXCEPT !.waited = FALSE] \in Get
         /\ \A g \in gets, c \in {"sent", "tested", "acquiring", "held", "answered"} :
              [g EXCEPT !.phase = c] \in Get
         /\ \A g \in gets, a \in Answer : [g EXCEPT !.phase = "answered", !.msg = a] \in Get
  <1>1. ASSUME FreeGets # {} PROVE NewGet(page) \in Get /\ NewGet(page).waited
    <2> DEFINE i == CHOOSE i \in FreeGets : TRUE
    <2>1. i \in 1..MaxGets
      BY <1>1 DEF FreeGets
    <2>2. page.started \in BOOLEAN /\ page.connected \in BOOLEAN
      BY DEF TypeOK, Page
    <2> DEFINE b == ~page.started \/ ~page.connected
    <2>3. b \in BOOLEAN
      OBVIOUS
    <2>4. NewGet(page) = [id |-> i, init |-> b, waited |-> TRUE, msg |-> "none", phase |-> "sent"]
      BY DEF NewGet
    <2> HIDE DEF i, b
    <2> QED BY <2>1, <2>3, <2>4 DEF Get, Answer
  <1>2. gets \subseteq Get
    BY DEF TypeOK
  <1>3. \A g \in gets, a \in Answer : [g EXCEPT !.phase = "answered", !.msg = a] \in Get
    BY <1>2 DEF Get
  <1>4. Pinged \subseteq Get
    <2>1. "data" \in Answer
      BY DEF Answer
    <2> QED BY <1>2, <1>3, <2>1 DEF Pinged
  <1>5. \A g \in gets, c \in {"sent", "tested", "acquiring", "held", "answered"} :
              [g EXCEPT !.phase = c] \in Get
    BY <1>2 DEF Get
  <1>6. \A g \in gets : [g EXCEPT !.waited = FALSE] \in Get
    BY <1>2 DEF Get
  <1> QED BY <1>1, <1>3, <1>4, <1>5, <1>6

\* What a page or the server does to a POST keeps it well typed.
LEMMA PostTypes ==
  ASSUME NEW p \in Post
  PROVE  /\ [p EXCEPT !.waited = FALSE] \in Post
         /\ p.todo # <<>> => /\ Head(p.todo) \in 1..MaxMessages
                             /\ [p EXCEPT !.todo = IF known THEN Tail(@) ELSE <<>>] \in Post
  <1>1. p.todo \in Seq(1..MaxMessages) /\ <<>> \in Seq(1..MaxMessages)
    BY DEF Post
  <1>2. ASSUME p.todo # <<>>
        PROVE  Head(p.todo) \in 1..MaxMessages /\ Tail(p.todo) \in Seq(1..MaxMessages)
    BY <1>1, <1>2, HeadTailProperties
  <1>3. [p EXCEPT !.waited = FALSE] \in Post
    BY DEF Post
  <1>4. \A s \in Seq(1..MaxMessages) : [p EXCEPT !.todo = s] \in Post
    BY DEF Post
  <1> QED BY <1>1, <1>2, <1>3, <1>4

\* So do the stream's handler that is left, and a test for interactivity.
LEMMA UserTypes ==
  ASSUME TypeOK
  PROVE  /\ LeaveStream \in [User -> UseState]
         /\ \A u \in User, c \in UseState : [use EXCEPT ![u] = c] \in [User -> UseState]
  BY DEF TypeOK, LeaveStream, User, UseState

LEMMA TypeInit == Init => TypeOK
  <1> SUFFICES ASSUME Init PROVE TypeOK
    OBVIOUS
  <1>1. <<>> \in Seq(1..MaxMessages) /\ <<>> \in Seq(Answer)
    OBVIOUS
  <1>2. page \in Page
    BY <1>1, MethodAssumption DEF Init, Page
  <1>3. use \in [User -> UseState]
    BY DEF Init, UseState
  <1>4. sent \in 0..MaxMessages /\ faults \in 0..MaxFaults /\ visits \in 0..MaxVisits
    BY BoundAssumption DEF Init
  <1>5. /\ gets \subseteq Get /\ posts \subseteq Post
        /\ wire \in Seq(1..MaxMessages) /\ down \in Seq(Answer) /\ handled \in Seq(1..MaxMessages)
    BY <1>1 DEF Init
  <1> QED BY <1>2, <1>3, <1>4, <1>5 DEF Init, TypeOK

\* The page's own steps.
LEMMA TypePage ==
  ASSUME TypeOK, PageStep \/ SendMessage
  PROVE  TypeOK'
  <1> USE DEF pageVars, netVars, serverVars, historyVars, boundVars
  <1>0. page \in Page /\ page.queue \in Seq(1..MaxMessages) /\ <<>> \in Seq(1..MaxMessages) /\ <<>> \in Seq(Answer)
    BY DEF TypeOK, Page
  <1>1. CASE SendMessage
    <2>1. sent + 1 \in 1..MaxMessages
      BY <1>1, BoundAssumption DEF SendMessage, TypeOK
    <2>2. Append(page.queue, sent + 1) \in Seq(1..MaxMessages) /\ Append(wire, sent + 1) \in Seq(1..MaxMessages)
      BY <1>0, <2>1, AppendProperties DEF TypeOK
    <2>3. [page EXCEPT !.queue = Append(@, sent + 1)] \in Page
      BY <1>0, <2>2 DEF Page
    <2>4. page' \in Page /\ wire' \in Seq(1..MaxMessages)
      BY <1>1, <2>2, <2>3 DEF SendMessage, TypeOK
    <2>5. sent' \in 0..MaxMessages
      BY <1>1, <2>1 DEF SendMessage
    <2> QED BY <1>1, <2>4, <2>5 DEF SendMessage, TypeOK
  <1>2. CASE Connect
    <2>1. CASE page.method = "lp"
      <3>1. page' \in Page
        BY <1>0, <1>2, <2>1 DEF Connect, Page
      <3>2. gets' \subseteq Get
        BY <1>2, <2>1, PollTypes DEF Connect, TypeOK
      <3> QED BY <1>2, <2>1, <3>1, <3>2 DEF Connect, TypeOK
    <2>2. CASE page.method # "lp"
      <3>0. page' = [page EXCEPT !.timer = FALSE, !.refused = FALSE, !.stream = "opening"]
        BY <1>2, <2>2 DEF Connect
      <3>1. page' \in Page
        BY <1>0, <3>0 DEF Page
      <3>2. use' \in [User -> UseState]
        BY <1>2, <2>2, UserTypes DEF Connect
      <3>3. down' \in Seq(Answer) /\ wire' \in Seq(1..MaxMessages)
        BY <1>0, <1>2, <2>2 DEF Connect
      <3>4. stream' \in {"upgrade", "sent"} /\ gets' = gets
        BY <1>2, <2>2 DEF Connect
      <3> QED BY <1>2, <3>1, <3>2, <3>3, <3>4 DEF Connect, TypeOK
    <2> QED BY <2>1, <2>2
  <1>3. CASE SendInputEvents
    <2> DEFINE v == [page EXCEPT !.senders = @ - 1]
    <2>1. v \in Page
      BY <1>0, <1>3 DEF SendInputEvents, Page
    <2>2. page' = AfterSending(v)
      BY <1>3 DEF SendInputEvents
    <2> HIDE DEF v
    <2>3. page' \in Page
      BY <2>1, <2>2, Sending
    <2>4. PostOf(page) \subseteq Post
      BY <1>0, Posted
    <2> QED BY <1>3, <2>3, <2>4 DEF SendInputEvents, TypeOK
  <1>4. CASE ReceiveOutputMessages
    <2>1. page' \in Page
      BY <1>0, <1>4 DEF ReceiveOutputMessages, Page
    <2>2. gets' \subseteq Get
      BY <1>4, PollTypes DEF ReceiveOutputMessages, TypeOK
    <2> QED BY <1>4, <2>1, <2>2 DEF ReceiveOutputMessages, TypeOK
  <1>5. CASE StreamOpens
    <2>1. wire \o page.queue \in Seq(1..MaxMessages)
      BY <1>0, ConcatProperties DEF TypeOK
    <2>2. page' \in Page
      BY <1>0, <1>5 DEF StreamOpens, Page
    <2>3. wire' \in Seq(1..MaxMessages)
      BY <1>5, <2>1 DEF StreamOpens, TypeOK
    <2> QED BY <1>5, <2>2, <2>3 DEF StreamOpens, TypeOK
  <1>6. CASE ReceiveFromStream
    <2> DEFINE v == ProcessMessage(page, Head(down))
    <2>1. v \in Page
      BY <1>0, Processed
    <2>2. CheckStarted(v) \in Page
      BY <2>1, Starting
    <2>3. PostOfStart(v) \subseteq Post
      BY <2>1, Posted DEF PostOfStart
    <2>4. Tail(down) \in Seq(Answer)
      BY <1>6, HeadTailProperties DEF ReceiveFromStream, TypeOK
    <2>5. (cancelled /\ ~page'.connected) \in BOOLEAN /\ (stranded \/ (~v.connected /\ ~v.started)) \in BOOLEAN
      OBVIOUS
    <2> HIDE DEF v
    <2>6. page' \in Page /\ posts' \subseteq Post /\ stranded' \in BOOLEAN /\ cancelled' \in BOOLEAN
      <3>1. CASE page.method = "ws"
        BY <1>6, <2>1, <2>5, <3>1 DEF ReceiveFromStream, TypeOK, v
      <3>2. CASE page.method # "ws"
        <4>1. page' = CheckStarted(v) /\ posts' = posts \cup PostOfStart(v)
          BY <1>6, <3>2 DEF ReceiveFromStream, v
        <4>2. stranded' = (stranded \/ (~v.connected /\ ~v.started)) /\ cancelled' = (cancelled /\ ~page'.connected)
          BY <1>6, <3>2 DEF ReceiveFromStream, v
        <4>3. stranded' \in BOOLEAN
          BY <2>5, <4>2
        <4>4. cancelled' \in BOOLEAN
          BY <2>5, <4>2
        <4> QED BY <2>2, <2>3, <4>1, <4>3, <4>4 DEF TypeOK
      <3> QED BY <3>1, <3>2
    <2> QED BY <1>6, <2>4, <2>6 DEF ReceiveFromStream, TypeOK
  <1>7. CASE StreamEnds
    <2>1. PICK downgrade \in {FALSE, page.reconnecting} :
                page' = [HandleDisconnect(page, downgrade) EXCEPT !.stream = "none"]
      BY <1>7 DEF StreamEnds
    <2>2. downgrade \in BOOLEAN
      BY <1>0 DEF Page
    <2>3. HandleDisconnect(page, downgrade) \in Page
      BY <1>0, <2>2, Disconnected
    <2>4. page' \in Page
      BY <2>1, <2>3 DEF Page
    <2>5. disturbed' \in BOOLEAN
      BY <1>7, Zenon DEF StreamEnds
    <2> QED BY <1>0, <1>7, <2>4, <2>5 DEF StreamEnds, TypeOK
  <1>8. ASSUME NEW p \in posts, PostSucceeds(p) PROVE TypeOK'
    <2>1. page' \in Page
      BY <1>0, <1>8 DEF PostSucceeds, Page
    <2> QED BY <1>8, <2>1 DEF PostSucceeds, TypeOK
  <1>9. ASSUME NEW g \in gets, PollSucceeds(g) PROVE TypeOK'
    <2> DEFINE v == ProcessMessage(page, g.msg)
    <2>1. v \in Page
      BY <1>0, Processed
    <2>2. CheckStarted(v) \in Page
      BY <2>1, Starting
    <2>3. [CheckStarted(v) EXCEPT !.pollers = @ + 1] \in Page
      BY <2>2 DEF Page
    <2>4. PostOfStart(v) \subseteq Post
      BY <2>1, Posted DEF PostOfStart
    <2>5. (~v.connected /\ (cancelled \/ Cancels(page, g.msg))) \in BOOLEAN
      OBVIOUS
    <2> HIDE DEF v
    <2>6. page' \in Page /\ posts' \subseteq Post
      BY <1>9, <2>1, <2>3, <2>4 DEF PollSucceeds, TypeOK, v
    <2>7. cancelled' \in BOOLEAN
      BY <1>9, <2>5, Zenon DEF PollSucceeds, v
    <2> QED BY <1>9, <2>6, <2>7 DEF PollSucceeds, TypeOK
  <1> QED BY <1>1, <1>2, <1>3, <1>4, <1>5, <1>6, <1>7, <1>8, <1>9 DEF PageStep

\* Faults.
LEMMA TypeFault ==
  ASSUME TypeOK, Fault
  PROVE  TypeOK'
  <1> USE DEF pageVars, netVars, serverVars, historyVars, boundVars
  <1>0. page \in Page /\ page.reconnecting \in BOOLEAN
    BY DEF TypeOK, Page
  <1>1. ASSUME NEW p \in posts, Abandon(p) PROVE posts' \subseteq Post
    BY <1>1, PostTypes DEF Abandon, TypeOK
  <1>2. ASSUME NEW g \in gets, GiveUp(g) PROVE gets' \subseteq Get
    BY <1>2, PollTypes DEF GiveUp, TypeOK
  <1>3. faults < MaxFaults => faults + 1 \in 0..MaxFaults
    BY BoundAssumption DEF TypeOK
  <1>4. ASSUME NEW p \in posts, PostTimesOut(p) PROVE TypeOK'
    <2>1. page' \in Page
      BY <1>0, <1>4 DEF PostTimesOut, Page
    <2>2. posts' \subseteq Post
      BY <1>1, <1>4 DEF PostTimesOut
    <2> QED BY <1>3, <1>4, <2>1, <2>2 DEF PostTimesOut, TypeOK
  <1>5. ASSUME NEW p \in posts, PostFails(p) PROVE TypeOK'
    <2>1. page' \in Page
      BY <1>0, <1>5, Disconnected DEF PostFails
    <2>2. posts' \subseteq Post
      BY <1>1, <1>5 DEF PostFails
    <2> QED BY <1>3, <1>5, <2>1, <2>2 DEF PostFails, TypeOK
  <1>6. ASSUME NEW g \in gets, PollTimesOut(g) PROVE TypeOK'
    <2>1. page' \in Page
      BY <1>0, <1>6 DEF PollTimesOut, Page
    <2>2. gets' \subseteq Get
      BY <1>2, <1>6 DEF PollTimesOut
    <2> QED BY <1>3, <1>6, <2>1, <2>2 DEF PollTimesOut, TypeOK
  <1>7. ASSUME NEW g \in gets, PollFails(g) PROVE TypeOK'
    <2>1. page' \in Page
      BY <1>0, <1>7, Disconnected DEF PollFails
    <2>2. gets' \subseteq Get
      BY <1>2, <1>7 DEF PollFails
    <2>3. disturbed' \in BOOLEAN
      BY <1>7, Zenon DEF PollFails
    <2> QED BY <1>3, <1>7, <2>1, <2>2, <2>3 DEF PollFails, TypeOK
  <1>8. CASE StreamBreaks
    <2>1. PICK downgrade \in {FALSE, page.reconnecting} :
                page' = [HandleDisconnect(page, downgrade) EXCEPT !.stream = "none"]
      BY <1>8 DEF StreamBreaks
    <2>2. downgrade \in BOOLEAN
      BY <1>0
    <2>3. HandleDisconnect(page, downgrade) \in Page
      BY <1>0, <2>2, Disconnected
    <2>4. page' \in Page
      BY <2>1, <2>3 DEF Page
    <2>5. disturbed' \in BOOLEAN
      BY <1>8, Zenon DEF StreamBreaks
    <2>6. wire \in Seq(1..MaxMessages)
      BY DEF TypeOK
    <2>7. wire # <<>> => [todo |-> wire, last |-> wire[Len(wire)], waited |-> FALSE] \in Post
      BY <2>6, LastOfSequence DEF Post
    <2>8. posts' \subseteq Post
      BY <1>8, <2>7 DEF StreamBreaks, TypeOK
    <2>9. use' \in [User -> UseState]
      BY <1>8, UserTypes DEF StreamBreaks
    <2>10. wire' \in Seq(1..MaxMessages) /\ down' \in Seq(Answer)
      BY <1>8 DEF StreamBreaks
    <2>11. stream' = "none"
      BY <1>8 DEF StreamBreaks
    <2> QED BY <1>3, <1>8, <2>4, <2>5, <2>8, <2>9, <2>10, <2>11 DEF StreamBreaks, TypeOK
  <1>9. CASE SessionExpires
    <2>1. visits' \in 0..MaxVisits
      BY <1>9, BoundAssumption DEF SessionExpires, TypeOK
    <2> QED BY <1>9, <2>1 DEF SessionExpires, TypeOK
  <1> QED BY <1>4, <1>5, <1>6, <1>7, <1>8, <1>9 DEF Fault

\* A test for interactivity tells handlers to release the session, and no more.
LEMMA Tested ==
  ASSUME TypeOK, NEW users \in [User -> UseState], NEW polls, TestForInteractivity(users, polls)
  PROVE  /\ polls \in {gets, Pinged} /\ polls \subseteq Get
         /\ \A u \in User : users[u] \in {use[u], "no"}
  <1>1. polls \in {gets, Pinged}
    BY DEF TestForInteractivity
  <1>2. gets \subseteq Get
    BY DEF TypeOK
  <1>3. polls \subseteq Get
    BY <1>1, <1>2, PollTypes
  <1>4. \A u \in User : users[u] \in {use[u], "no"}
    BY DEF TestForInteractivity
  <1> QED BY <1>1, <1>3, <1>4

\* The server, another tab, and steps that leave everything as it is.
LEMMA TypeServer ==
  ASSUME TypeOK, ServerStep \/ WriteToStream \/ OtherTab \/ UNCHANGED vars
  PROVE  TypeOK'
  <1> USE DEF vars, pageVars, netVars, serverVars, historyVars, boundVars
  <1>0. /\ page \in Page /\ gets \subseteq Get /\ posts \subseteq Post
        /\ use \in [User -> UseState]
    BY DEF TypeOK
  <1>u. {"no", "acquiring", "counted"} = UseState /\ {"stream", "stale", "other"} = User
    BY DEF UseState, User
  <1>a. \A m \in Answer : <<m>> \in Seq(Answer)
    OBVIOUS
  <1>b. {"none", "info", "reattached", "inuse", "data"} = Answer
    BY DEF Answer
  <1>1. ASSUME NEW g \in gets, TestPoll(g) PROVE TypeOK'
    <2>1. PICK users \in [User -> UseState], polls \in {gets, Pinged} :
            /\ TestForInteractivity(users, polls)
            /\ use' = users
            /\ gets' = (polls \ {g}) \cup {[g EXCEPT !.phase = "tested"]}
            /\ stream' = IF use["stream"] = "counted" /\ users["stream"] = "no" THEN "ended" ELSE stream
      BY <1>1 DEF TestPoll
    <2>p. polls \subseteq Get
      BY <2>1, Tested
    <2>t. [g EXCEPT !.phase = "tested"] \in Get
      BY PollTypes
    <2>2. gets' \subseteq Get
      BY <2>1, <2>p, <2>t
    <2>3. stream' \in {"none", "upgrade", "sent", "tested", "up", "refused", "ended"}
      BY <2>1 DEF TypeOK
    <2> QED BY <1>1, <2>1, <2>2, <2>3 DEF TestPoll, TypeOK
  <1>2. ASSUME NEW g \in gets, AnswerHandshake(g) PROVE TypeOK'
    <2> DEFINE a == IF ~known THEN "info" ELSE IF UseCount = 0 THEN "reattached" ELSE "inuse"
    <2>1. a \in Answer
      BY <1>b
    <2>2. gets' = (gets \ {g}) \cup {[g EXCEPT !.phase = "answered", !.msg = a]}
      BY <1>2 DEF AnswerHandshake
    <2> HIDE DEF a
    <2>3. gets' \subseteq Get
      BY <1>0, <2>1, <2>2, PollTypes
    <2> QED BY <1>2, <2>3 DEF AnswerHandshake, TypeOK
  <1>3. ASSUME NEW g \in gets, AcquireForPoll(g) PROVE TypeOK'
    <2>1. gets' \subseteq Get
      BY <1>0, <1>3, PollTypes DEF AcquireForPoll
    <2> QED BY <1>3, <2>1 DEF AcquireForPoll, TypeOK
  <1>4. ASSUME NEW g \in gets, AnswerPoll(g) PROVE TypeOK'
    <2>1. gets' \subseteq Get
      BY <1>0, <1>4, <1>b, PollTypes DEF AnswerPoll
    <2> QED BY <1>4, <2>1 DEF AnswerPoll, TypeOK
  <1>5. ASSUME NEW g \in gets, DropAnswer(g) PROVE TypeOK'
    BY <1>5 DEF DropAnswer, TypeOK
  <1>6. CASE TestStream
    <2>1. gets' \subseteq Get /\ use' \in [User -> UseState]
      BY <1>6, Tested DEF TestStream
    <2> QED BY <1>6, <2>1 DEF TestStream, TypeOK
  <1>7. CASE AdmitStream
    <2>1. down' \in Seq(Answer)
      BY <1>7, <1>a, <1>b DEF AdmitStream
    <2>2. use' \in [User -> UseState]
      BY <1>7, <1>0, <1>u, UserTypes DEF AdmitStream
    <2>3. raced' \in BOOLEAN
      <3>1. (raced \/ IncrementWaits) \in BOOLEAN
        OBVIOUS
      <3>2. raced \in BOOLEAN
        BY DEF TypeOK
      <3>3. raced' = (raced \/ IncrementWaits) \/ raced' = raced
        BY <1>7 DEF AdmitStream
      <3> QED BY <3>1, <3>2, <3>3
    <2>4. stream' \in {"none", "upgrade", "sent", "tested", "up", "refused", "ended"} /\ known'
      BY <1>7 DEF AdmitStream
    <2> QED BY <1>7, <2>1, <2>2, <2>3, <2>4 DEF AdmitStream, TypeOK
  <1>8. CASE CloseSilentStream
    BY <1>8, <1>u, UserTypes DEF CloseSilentStream, TypeOK
  <1>9. CASE NoticeStaleStream
    BY <1>9, <1>u, UserTypes DEF NoticeStaleStream, TypeOK
  <1>10. ASSUME NEW u \in User, CountUser(u) PROVE TypeOK'
    BY <1>10, <1>u, UserTypes DEF CountUser, TypeOK
  <1>11. ASSUME NEW p \in posts, HandlePost(p) PROVE TypeOK'
    <2> DEFINE q == [p EXCEPT !.todo = IF known THEN Tail(@) ELSE <<>>]
    <2>1. q \in Post /\ Head(p.todo) \in 1..MaxMessages
      BY <1>0, <1>11, PostTypes DEF HandlePost
    <2>2. posts' = (posts \ {p}) \cup (IF q.todo = <<>> /\ ~p.waited THEN {} ELSE {q})
      BY <1>11 DEF HandlePost
    <2> HIDE DEF q
    <2>3. posts' \subseteq Post
      BY <1>0, <2>1, <2>2
    <2>4. handled' \in Seq(1..MaxMessages)
      BY <1>11, <2>1, AppendProperties DEF HandlePost, TypeOK
    <2> QED BY <1>11, <2>3, <2>4 DEF HandlePost, TypeOK
  <1>12. CASE HandleSocketMessage
    <2>1. Head(wire) \in 1..MaxMessages /\ Tail(wire) \in Seq(1..MaxMessages)
      BY <1>12, HeadTailProperties DEF HandleSocketMessage, TypeOK
    <2>2. handled' \in Seq(1..MaxMessages)
      BY <1>12, <2>1, AppendProperties DEF HandleSocketMessage, TypeOK
    <2> QED BY <1>12, <2>1, <2>2 DEF HandleSocketMessage, TypeOK
  <1>13. CASE WriteToStream
    <2>1. down' \in Seq(Answer)
      BY <1>13, <1>a, <1>b DEF WriteToStream
    <2> QED BY <1>13, <2>1 DEF WriteToStream, TypeOK
  <1>14. CASE OtherTab
    <2>1. use' \in [User -> UseState]
      BY <1>14, <1>u, UserTypes DEF OtherTab
    <2>2. visits' \in 0..MaxVisits
      BY <1>14, BoundAssumption DEF OtherTab, TypeOK
    <2>3. raced' \in BOOLEAN
      <3>1. (raced \/ IncrementWaits) \in BOOLEAN
        OBVIOUS
      <3>2. raced \in BOOLEAN
        BY DEF TypeOK
      <3>3. raced' = (raced \/ IncrementWaits) \/ raced' = raced
        BY <1>14 DEF OtherTab
      <3> QED BY <3>1, <3>2, <3>3
    <2> QED BY <1>14, <2>1, <2>2, <2>3 DEF OtherTab, TypeOK
  <1>15. CASE UNCHANGED vars
    BY <1>15 DEF TypeOK
  <1> QED BY <1>1, <1>2, <1>3, <1>4, <1>5, <1>6, <1>7, <1>8, <1>9, <1>10, <1>11, <1>12,
             <1>13, <1>14, <1>15 DEF ServerStep, PollHandler

LEMMA TypeNext == TypeOK /\ [Next]_vars => TypeOK'
  BY TypePage, TypeFault, TypeServer DEF Next

-----------------------------------------------------------------------------
(* Streams exclude each other *)

\* Only so many polls are under way: the sets UseCount counts are finite.
LEMMA GetsAreFinite == TypeOK => IsFiniteSet(gets)
  <1> DEFINE Phase == {"sent", "tested", "acquiring", "held", "answered"}
             E == Answer \X Phase
             D == BOOLEAN \X E
             C == BOOLEAN \X D
             B == (1..MaxGets) \X C
             record(t) == [id |-> t[1], init |-> t[2][1], waited |-> t[2][2][1],
                           msg |-> t[2][2][2][1], phase |-> t[2][2][2][2]]
             f == [t \in B |-> record(t)]
  <1>1. IsFiniteSet(Answer) /\ IsFiniteSet(Phase) /\ IsFiniteSet(BOOLEAN) /\ IsFiniteSet(1..MaxGets)
    <2>1. IsFiniteSet({}) /\ \A S, x : IsFiniteSet(S) => IsFiniteSet(S \cup {x})
      BY FS_EmptySet, FS_AddElement
    <2>2. /\ Answer = (((({} \cup {"none"}) \cup {"info"}) \cup {"reattached"}) \cup {"inuse"}) \cup {"data"}
          /\ Phase = (((({} \cup {"sent"}) \cup {"tested"}) \cup {"acquiring"}) \cup {"held"}) \cup {"answered"}
          /\ BOOLEAN = ({} \cup {TRUE}) \cup {FALSE}
      BY DEF Answer
    <2>3. IsFiniteSet((((({} \cup {"none"}) \cup {"info"}) \cup {"reattached"}) \cup {"inuse"}) \cup {"data"})
      BY ONLY <2>1, Zenon
    <2>4. IsFiniteSet((((({} \cup {"sent"}) \cup {"tested"}) \cup {"acquiring"}) \cup {"held"}) \cup {"answered"})
      BY ONLY <2>1, Zenon
    <2>5. IsFiniteSet(({} \cup {TRUE}) \cup {FALSE})
      BY ONLY <2>1, Zenon
    <2>6. IsFiniteSet(1..MaxGets)
      BY BoundAssumption, FS_Interval
    <2> HIDE DEF Phase
    <2>7. IsFiniteSet(Answer) /\ IsFiniteSet(Phase)
      BY <2>2, <2>3, <2>4
    <2>8. IsFiniteSet(BOOLEAN)
      BY <2>2, <2>5, Zenon
    <2> QED BY <2>6, <2>7, <2>8
  <1> HIDE DEF Phase
  <1>2. IsFiniteSet(E)
    BY <1>1, FS_Product
  <1>3. IsFiniteSet(D)
    <2> HIDE DEF E
    <2> QED BY <1>1, <1>2, FS_Product
  <1>4. IsFiniteSet(C)
    <2> HIDE DEF D
    <2> QED BY <1>1, <1>3, FS_Product
  <1>5. IsFiniteSet(B)
    <2> HIDE DEF C
    <2> QED BY <1>1, <1>4, FS_Product
  <1>6. Get \subseteq {record(t) : t \in B}
    <2> SUFFICES ASSUME NEW g \in Get PROVE \E t \in B : g = record(t)
      OBVIOUS
    <2> DEFINE t == <<g.id, <<g.init, <<g.waited, <<g.msg, g.phase>>>>>>>>
    <2>1. t \in B
      BY DEF Get, Phase
    <2>2. g = record(t)
      BY DEF Get
    <2> QED BY <2>1, <2>2
  <1>7. IsFiniteSet({record(t) : t \in B})
    <2> DEFINE S == {record(t) : t \in B}
    <2>1. f \in Surjection(B, S)
      <3> HIDE DEF B, record
      <3> QED BY DEF Surjection
    <2> HIDE DEF f, B, S
    <2>2. IsFiniteSet(S)
      BY <1>5, <2>1, FS_Surjection
    <2> QED BY <2>2 DEF S
  <1>8. IsFiniteSet(Get)
    BY <1>6, <1>7, FS_Subset
  <1> QED BY <1>8, FS_Subset DEF TypeOK

LEMMA UsersAreFinite == IsFiniteSet(User)
  <1>1. User = (({} \cup {"stream"}) \cup {"stale"}) \cup {"other"}
    BY DEF User
  <1>2. IsFiniteSet({}) /\ \A Q, x : IsFiniteSet(Q) => IsFiniteSet(Q \cup {x})
    BY FS_EmptySet, FS_AddElement
  <1>3. IsFiniteSet((({} \cup {"stream"}) \cup {"stale"}) \cup {"other"})
    BY ONLY <1>2, Zenon
  <1> QED BY <1>1, <1>3

\* The use count is a number: it is zero or positive.
LEMMA UseCountIsANumber == TypeOK => UseCount \in Nat
  <1> SUFFICES ASSUME TypeOK PROVE UseCount \in Nat
    OBVIOUS
  <1> DEFINE S == {u \in User : use[u] = "counted"}
             T == {g \in gets : g.phase = "held"}
  <1>1. IsFiniteSet(S) /\ IsFiniteSet(T)
    BY UsersAreFinite, GetsAreFinite, FS_Subset
  <1>2. Cardinality(S) \in Nat /\ Cardinality(T) \in Nat
    BY <1>1, FS_CardinalityType
  <1>3. UseCount = Cardinality(S) + Cardinality(T)
    BY DEF UseCount
  <1> HIDE DEF S, T
  <1> QED BY <1>2, <1>3

\* A session whose use count is zero has no handler that is counted.
LEMMA NobodyIsCounted == TypeOK /\ UseCount = 0 => \A u \in User : use[u] # "counted"
  <1> SUFFICES ASSUME TypeOK, UseCount = 0 PROVE \A u \in User : use[u] # "counted"
    OBVIOUS
  <1> DEFINE S == {u \in User : use[u] = "counted"}
             T == {g \in gets : g.phase = "held"}
  <1>2. IsFiniteSet(S) /\ IsFiniteSet(T)
    BY UsersAreFinite, GetsAreFinite, FS_Subset
  <1>3. Cardinality(S) \in Nat /\ Cardinality(T) \in Nat
    BY <1>2, FS_CardinalityType
  <1>4. Cardinality(S) + Cardinality(T) = 0
    BY DEF UseCount
  <1>5. Cardinality(S) = 0
    <2> HIDE DEF S, T
    <2> QED BY <1>3, <1>4
  <1>6. S = {}
    <2> HIDE DEF S
    <2> QED BY <1>2, <1>5, FS_EmptySet
  <1> QED BY <1>6

\* What keeps two streams apart: another tab holds a session only while there
\* is one, and next to the page's stream only if the two were admitted while an
\* increment waited.
OneHolds ==
    /\ use["stream"] # "no" /\ use["other"] # "no" => raced
    /\ ~known => use["other"] = "no"

LEMMA OneHoldsNext ==
  ASSUME TypeOK, OneHolds, [Next]_vars
  PROVE  OneHolds'
  <1> USE DEF pageVars, netVars, serverVars, historyVars, boundVars, OneHolds
  <1>0. /\ use \in [User -> UseState] /\ raced \in BOOLEAN /\ known \in BOOLEAN
        /\ "stream" \in User /\ "stale" \in User /\ "other" \in User
    BY DEF TypeOK, User
  \* The steps that leave the users alone, or only take some away.
  <1>1. ASSUME \A u \in {"stream", "other"} : use'[u] = use[u] \/ use'[u] = "no",
               raced => raced', known => known'
        PROVE  OneHolds'
    BY <1>0, <1>1
  <1>2. /\ LeaveStream["other"] = use["other"]
        /\ LeaveStream["stream"] = use["stream"] \/ LeaveStream["stream"] = "no"
    BY <1>0 DEF LeaveStream
  <1>3. UseCount = 0 => \A u \in User : use[u] \in {"no", "acquiring"}
    BY <1>0, NobodyIsCounted DEF UseState
  <1>4. CASE PageStep
    <2>1. CASE Connect
      <3>1. use' \in {use, LeaveStream} /\ raced' = raced /\ known' = known
        BY <2>1 DEF Connect
      <3> QED BY <1>1, <1>2, <3>1
    <2>2. CASE ~Connect
      <3>1. use' = use /\ raced' = raced /\ known' = known
        BY <1>4, <2>2 DEF PageStep, SendInputEvents, ReceiveOutputMessages, StreamOpens, ReceiveFromStream,
                          StreamEnds, PostSucceeds, PollSucceeds
      <3> QED BY <1>1, <3>1
    <2> QED BY <2>1, <2>2
  <1>5. CASE Fault
    <2>1. CASE StreamBreaks
      <3>1. use' = LeaveStream /\ raced' = raced /\ known' = known
        BY <2>1 DEF StreamBreaks
      <3> QED BY <1>1, <1>2, <3>1
    <2>2. CASE SessionExpires
      <3>1. use["other"] \in {"no", "acquiring"} /\ use["other"] # "acquiring"
        BY <1>0, <1>3, <2>2 DEF SessionExpires, IncrementWaits
      <3> QED BY <2>2, <3>1 DEF SessionExpires
    <2>3. CASE ~StreamBreaks /\ ~SessionExpires
      <3>1. use' = use /\ raced' = raced /\ known' = known
        BY <1>5, <2>3 DEF Fault, PostTimesOut, PostFails, PollTimesOut, PollFails
      <3> QED BY <1>1, <3>1
    <2> QED BY <2>1, <2>2, <2>3
  <1>6. CASE ServerStep
    <2>1. ASSUME NEW g \in gets, TestPoll(g) PROVE OneHolds'
      <3>1. PICK users \in [User -> UseState], polls \in {gets, Pinged} :
              TestForInteractivity(users, polls) /\ use' = users
        BY <2>1 DEF TestPoll
      <3>2. \A u \in User : users[u] \in {use[u], "no"}
        BY <3>1, Tested
      <3> QED BY <1>0, <1>1, <2>1, <3>1, <3>2 DEF TestPoll
    <2>2. CASE TestStream
      <3>1. PICK users \in [User -> UseState], polls \in {gets, Pinged} :
              TestForInteractivity(users, polls) /\ use' = users
        BY <2>2 DEF TestStream
      <3>2. \A u \in User : users[u] \in {use[u], "no"}
        BY <3>1, Tested
      <3> QED BY <1>0, <1>1, <2>2, <3>1, <3>2 DEF TestStream
    <2>3. CASE AdmitStream
      <3>1. CASE known /\ UseCount > 0
        <4>1. use' = use /\ raced' = raced /\ known'
          BY <2>3, <3>1 DEF AdmitStream
        <4> QED BY <1>1, <4>1
      <3>2. CASE ~known
        <4>1. use'["other"] = "no" /\ known'
          BY <1>0, <2>3, <3>2 DEF AdmitStream
        <4> QED BY <4>1
      <3>3. CASE known /\ ~(UseCount > 0)
        <4>1. UseCount = 0
          BY <3>3, UseCountIsANumber
        <4>2. use["other"] # "no" => IncrementWaits
          BY <1>0, <1>3, <4>1 DEF IncrementWaits
        <4>3. use'["other"] = use["other"] /\ known' /\ raced' = (raced \/ IncrementWaits)
          BY <1>0, <2>3, <3>3 DEF AdmitStream
        <4> QED BY <4>2, <4>3
      <3> QED BY <3>1, <3>2, <3>3
    <2>4. CASE CloseSilentStream
      BY <1>0, <1>1, <2>4 DEF CloseSilentStream
    <2>5. CASE NoticeStaleStream
      BY <1>0, <1>1, <2>5 DEF NoticeStaleStream
    <2>6. ASSUME NEW u \in User, CountUser(u) PROVE OneHolds'
      BY <1>0, <2>6 DEF CountUser
    <2>7. ASSUME NEW g \in gets, AnswerHandshake(g) PROVE OneHolds'
      BY <2>7 DEF AnswerHandshake
    <2>8. ASSUME NEW g \in gets, AcquireForPoll(g) \/ AnswerPoll(g) \/ DropAnswer(g) PROVE OneHolds'
      BY <2>8 DEF AcquireForPoll, AnswerPoll, DropAnswer
    <2>9. ASSUME NEW p \in posts, HandlePost(p) PROVE OneHolds'
      BY <2>9 DEF HandlePost
    <2>10. CASE HandleSocketMessage
      BY <2>10 DEF HandleSocketMessage
    <2> QED BY <1>6, <2>1, <2>2, <2>3, <2>4, <2>5, <2>6, <2>7, <2>8, <2>9, <2>10 DEF ServerStep, PollHandler
  <1>7. CASE WriteToStream \/ SendMessage
    BY <1>7 DEF WriteToStream, SendMessage
  <1>8. CASE OtherTab
    <2>1. CASE use["other"] = "counted" /\ use' = [use EXCEPT !["other"] = "no"]
      BY <1>0, <2>1
    <2>2. CASE /\ known /\ UseCount = 0 /\ use["other"] = "no" /\ raced' = (raced \/ IncrementWaits)
               /\ use' = [use EXCEPT !["other"] = "acquiring"]
      <3>1. use["stream"] # "no" => IncrementWaits
        BY <1>0, <1>3, <2>2 DEF IncrementWaits
      <3>2. use'["stream"] = use["stream"] /\ known' = known
        BY <1>0, <1>8, <2>2 DEF OtherTab
      <3> QED BY <2>2, <3>1, <3>2
    <2> QED BY <1>8, <2>1, <2>2 DEF OtherTab
  <1>9. CASE UNCHANGED vars
    BY <1>9 DEF vars
  <1> QED BY <1>4, <1>5, <1>6, <1>7, <1>8, <1>9 DEF Next

\* Streams exclude each other: a second one is admitted to a session only while
\* the increment of the use count for the first is still queued
\* (StreamsExcludeEachOther), for any number of polls, faults and visits.  The
\* use count is that of incrementUseCount and decrementUseCount in
\* src/src/viriditysessionmanager.cpp, and the tests of it those of
\* WebSocketHandler::handleUpgrade and SSEHandler::doHandleRequest.
THEOREM SecondStreamRaces == Spec => []StreamsExcludeEachOther
  <1>1. Init => TypeOK /\ OneHolds
    BY TypeInit DEF Init, OneHolds, User
  <1>2. TypeOK /\ OneHolds /\ [Next]_vars => (TypeOK /\ OneHolds)'
    BY TypeNext, OneHoldsNext
  <1>3. TypeOK /\ OneHolds => StreamsExcludeEachOther
    BY DEF OneHolds, StreamsExcludeEachOther
  <1> QED BY <1>1, <1>2, <1>3, PTL DEF Spec

-----------------------------------------------------------------------------
(* Sequences of messages *)

Increasing(s) == \A i, j \in DOMAIN s : i < j => s[i] < s[j]
Before(M, N) == \A m \in M, n \in N : m < n

LEMMA NoMessages ==
  /\ \A S : <<>> \in Seq(S)
  /\ Range(<<>>) = {} /\ IsInjective(<<>>) /\ Increasing(<<>>)
  <1>1. DOMAIN <<>> = {}
    BY EmptySeq, LenProperties
  <1>2. \A S : <<>> \in Seq(S)
    OBVIOUS
  <1> QED BY <1>1, <1>2 DEF Range, IsInjective, Increasing

\* One message more.
LEMMA OneMore ==
  ASSUME NEW q \in Seq(Nat), NEW m \in Nat
  PROVE  /\ Append(q, m) \in Seq(Nat) /\ Range(Append(q, m)) = Range(q) \cup {m}
         /\ IsInjective(q) /\ m \notin Range(q) => IsInjective(Append(q, m))
         /\ Increasing(q) /\ Before(Range(q), {m}) => Increasing(Append(q, m))
  <1> DEFINE r == Append(q, m)
             n == Len(q)
  <1>1. n \in Nat /\ DOMAIN q = 1..n
    BY LenProperties
  <1>2. r \in Seq(Nat) /\ Len(r) = n + 1 /\ DOMAIN r = 1..(n + 1)
    <2>1. r \in Seq(Nat) /\ Len(r) = n + 1
      BY AppendProperties
    <2> QED BY <2>1, LenProperties
  <1>3. \A i \in 1..n : r[i] = q[i] /\ q[i] \in Nat
    BY AppendProperties, ElementOfSeq
  <1>4. r[n + 1] = m
    BY AppendProperties
  <1> HIDE DEF r, n
  <1>5. \A i \in 1..(n + 1) : i \in 1..n \/ i = n + 1
    BY <1>1
  <1>6. \A i \in 1..n : i \in 1..(n + 1) /\ q[i] \in Range(q)
    BY <1>1 DEF Range
  <1>7. n + 1 \in 1..(n + 1)
    BY <1>1
  <1>8. Range(r) = Range(q) \cup {m}
    <2>1. ASSUME NEW i \in DOMAIN r PROVE r[i] \in Range(q) \cup {m}
      BY <1>2, <1>3, <1>4, <1>5, <1>6
    <2>2. ASSUME NEW i \in DOMAIN q PROVE q[i] \in Range(r)
      BY <1>1, <1>2, <1>3, <1>6 DEF Range
    <2>3. m \in Range(r)
      BY <1>2, <1>4, <1>7 DEF Range
    <2>4. Range(r) \subseteq Range(q) \cup {m}
      BY <2>1 DEF Range
    <2>5. Range(q) \subseteq Range(r)
      <3> SUFFICES ASSUME NEW x \in Range(q) PROVE x \in Range(r)
        OBVIOUS
      <3>1. PICK i \in DOMAIN q : x = q[i]
        BY DEF Range
      <3> QED BY <2>2, <3>1
    <2> QED BY <2>3, <2>4, <2>5
  <1>9. ASSUME IsInjective(q), m \notin Range(q) PROVE IsInjective(r)
    BY <1>1, <1>2, <1>3, <1>4, <1>5, <1>6, <1>9 DEF IsInjective
  <1>10. ASSUME Increasing(q), Before(Range(q), {m}) PROVE Increasing(r)
    <2> SUFFICES ASSUME NEW i \in 1..(n + 1), NEW j \in 1..(n + 1), i < j PROVE r[i] < r[j]
      BY <1>2 DEF Increasing
    <2>1. i \in 1..n
      BY <1>1
    <2>2. CASE j \in 1..n
      BY <1>1, <1>3, <1>10, <2>1, <2>2 DEF Increasing
    <2>3. CASE j = n + 1
      BY <1>3, <1>4, <1>6, <1>10, <2>1, <2>3 DEF Before
    <2> QED BY <1>5, <2>2, <2>3
  <1> QED BY <1>2, <1>8, <1>9, <1>10 DEF r

\* All but the first.
LEMMA OneLess ==
  ASSUME NEW q \in Seq(Nat), q # <<>>
  PROVE  /\ Tail(q) \in Seq(Nat) /\ Head(q) \in Nat /\ Range(q) = {Head(q)} \cup Range(Tail(q))
         /\ IsInjective(q) => IsInjective(Tail(q)) /\ Head(q) \notin Range(Tail(q))
         /\ Increasing(q) => Increasing(Tail(q)) /\ Before({Head(q)}, Range(Tail(q)))
  <1> DEFINE r == Tail(q)
             n == Len(q)
  <1>1. n \in Nat /\ n # 0 /\ DOMAIN q = 1..n
    BY LenProperties, EmptySeq
  <1>2. r \in Seq(Nat) /\ Len(r) = n - 1 /\ DOMAIN r = 1..(n - 1)
    <2>1. r \in Seq(Nat) /\ Len(r) = n - 1
      BY HeadTailProperties
    <2> QED BY <2>1, LenProperties
  <1>3. \A i \in 1..(n - 1) : r[i] = q[i + 1]
    BY HeadTailProperties
  <1>4. Head(q) = q[1] /\ Head(q) \in Nat
    BY HeadTailProperties
  <1>5. \A i \in 1..n : q[i] \in Nat
    BY ElementOfSeq
  <1> HIDE DEF r, n
  <1>6. \A i \in 1..(n - 1) : i + 1 \in 1..n /\ 1 < i + 1
    BY <1>1
  <1>7. \A i \in 1..n : i = 1 \/ (i - 1 \in 1..(n - 1) /\ (i - 1) + 1 = i)
    BY <1>1
  <1>8. Range(q) = {Head(q)} \cup Range(r)
    <2>1. ASSUME NEW x \in Range(q) PROVE x \in {Head(q)} \cup Range(r)
      <3>1. PICK i \in 1..n : x = q[i]
        BY <1>1, <2>1 DEF Range
      <3>2. CASE i = 1
        BY <1>4, <3>1, <3>2
      <3>3. CASE i # 1
        <4>1. x = r[i - 1] /\ i - 1 \in DOMAIN r
          BY <1>2, <1>3, <1>7, <3>1, <3>3
        <4> QED BY <4>1 DEF Range
      <3> QED BY <3>2, <3>3
    <2>2. ASSUME NEW x \in Range(r) PROVE x \in Range(q)
      <3>1. PICK i \in 1..(n - 1) : x = r[i]
        BY <1>2, <2>2 DEF Range
      <3> QED BY <1>1, <1>3, <1>6, <3>1 DEF Range
    <2>3. 1 \in DOMAIN q
      BY <1>1
    <2>4. Head(q) \in Range(q)
      BY <1>4, <2>3 DEF Range
    <2> QED BY <2>1, <2>2, <2>4
  <1>9. ASSUME IsInjective(q) PROVE IsInjective(r) /\ Head(q) \notin Range(r)
    <2>1. ASSUME NEW i \in 1..(n - 1), NEW j \in 1..(n - 1), r[i] = r[j] PROVE i = j
      <3>1. i + 1 = j + 1
        BY <1>1, <1>3, <1>6, <1>9, <2>1 DEF IsInjective
      <3> QED BY <3>1
    <2>2. ASSUME NEW i \in 1..(n - 1) PROVE r[i] # Head(q)
      <3>1. q[i + 1] # q[1]
        BY <1>1, <1>6, <1>9 DEF IsInjective
      <3> QED BY <1>3, <1>4, <3>1
    <2> QED BY <1>2, <2>1, <2>2 DEF IsInjective, Range
  <1>10. ASSUME Increasing(q) PROVE Increasing(r) /\ Before({Head(q)}, Range(r))
    <2>1. ASSUME NEW i \in 1..(n - 1), NEW j \in 1..(n - 1), i < j PROVE r[i] < r[j]
      <3>1. i + 1 < j + 1
        BY <2>1
      <3> QED BY <1>1, <1>3, <1>6, <1>10, <3>1 DEF Increasing
    <2>2. ASSUME NEW i \in 1..(n - 1) PROVE Head(q) < r[i]
      <3>1. 1 \in 1..n
        BY <1>1
      <3> QED BY <1>1, <1>3, <1>4, <1>6, <1>10, <3>1 DEF Increasing
    <2> QED BY <1>2, <2>1, <2>2 DEF Increasing, Before, Range
  <1> QED BY <1>2, <1>4, <1>8, <1>9, <1>10 DEF r

\* One sequence after the other.
LEMMA OneAfterTheOther ==
  ASSUME NEW q \in Seq(Nat), NEW s \in Seq(Nat)
  PROVE  /\ q \o s \in Seq(Nat) /\ Range(q \o s) = Range(q) \cup Range(s)
         /\ IsInjective(q) /\ IsInjective(s) /\ Range(q) \cap Range(s) = {} => IsInjective(q \o s)
         /\ Increasing(q) /\ Increasing(s) /\ Before(Range(q), Range(s)) => Increasing(q \o s)
  <1> DEFINE r == q \o s
             n == Len(q)
             k == Len(s)
  <1>1. n \in Nat /\ DOMAIN q = 1..n /\ k \in Nat /\ DOMAIN s = 1..k
    BY LenProperties
  <1>2. r \in Seq(Nat) /\ DOMAIN r = 1..(n + k)
    <2>1. r \in Seq(Nat) /\ Len(r) = n + k
      BY ConcatProperties
    <2> QED BY <2>1, LenProperties
  <1>3. \A i \in 1..(n + k) : r[i] = IF i <= n THEN q[i] ELSE s[i - n]
    BY ConcatProperties
  <1>4. (\A i \in 1..n : q[i] \in Nat) /\ (\A i \in 1..k : s[i] \in Nat)
    BY ElementOfSeq
  <1> HIDE DEF r, n, k
  <1>5. /\ \A i \in 1..n : i \in 1..(n + k) /\ i <= n
        /\ \A i \in 1..k : i + n \in 1..(n + k) /\ ~(i + n <= n) /\ (i + n) - n = i
    BY <1>1
  <1>6. \A i \in 1..(n + k) : (i \in 1..n /\ i <= n) \/ (~(i <= n) /\ i - n \in 1..k)
    <2> SUFFICES ASSUME NEW i \in 1..(n + k)
                 PROVE  (i \in 1..n /\ i <= n) \/ (~(i <= n) /\ i - n \in 1..k)
      OBVIOUS
    <2>1. CASE i <= n
      BY <1>1, <2>1
    <2>2. CASE ~(i <= n)
      BY <1>1, <2>2
    <2> QED BY <2>1, <2>2
  <1>7. /\ \A i \in 1..n : r[i] = q[i] /\ q[i] \in Range(q)
        /\ \A i \in 1..k : r[i + n] = s[i] /\ s[i] \in Range(s)
    <2>1. /\ \A i \in 1..n : r[i] = q[i]
          /\ \A i \in 1..k : r[i + n] = s[i]
      BY <1>3, <1>5
    <2> QED BY <1>1, <2>1 DEF Range
  <1>8. Range(r) = Range(q) \cup Range(s)
    <2>1. ASSUME NEW x \in Range(r) PROVE x \in Range(q) \cup Range(s)
      <3>1. PICK i \in 1..(n + k) : x = r[i]
        BY <1>2, <2>1 DEF Range
      <3>2. CASE i \in 1..n
        BY <1>7, <3>1, <3>2
      <3>3. CASE ~(i <= n) /\ i - n \in 1..k
        <4>1. x = s[i - n]
          BY <1>3, <3>1, <3>3
        <4> QED BY <1>7, <3>3, <4>1
      <3> QED BY <1>6, <3>2, <3>3
    <2>2. ASSUME NEW x \in Range(q) PROVE x \in Range(r)
      <3>1. PICK i \in 1..n : x = q[i]
        BY <1>1, <2>2 DEF Range
      <3> QED BY <1>2, <1>5, <1>7, <3>1 DEF Range
    <2>3. ASSUME NEW x \in Range(s) PROVE x \in Range(r)
      <3>1. PICK i \in 1..k : x = s[i]
        BY <1>1, <2>3 DEF Range
      <3> QED BY <1>2, <1>5, <1>7, <3>1 DEF Range
    <2> QED BY <2>1, <2>2, <2>3
  <1>9. ASSUME IsInjective(q), IsInjective(s), Range(q) \cap Range(s) = {},
               NEW i \in 1..(n + k), NEW j \in 1..(n + k), r[i] = r[j]
        PROVE  i = j
    <2>1. CASE i <= n /\ j <= n
      BY <1>1, <1>6, <1>7, <1>9, <2>1 DEF IsInjective
    <2>2. CASE ~(i <= n) /\ ~(j <= n)
      <3>1. i - n \in 1..k /\ j - n \in 1..k /\ s[i - n] = s[j - n]
        BY <1>3, <1>6, <1>9, <2>2
      <3>2. i - n = j - n
        BY <1>1, <1>9, <3>1 DEF IsInjective
      <3> QED BY <1>1, <3>2
    <2>3. CASE i <= n /\ ~(j <= n)
      <3>1. r[i] \in Range(q) /\ j - n \in 1..k /\ r[j] = s[j - n]
        BY <1>3, <1>6, <1>7, <2>3
      <3> QED BY <1>7, <1>9, <3>1
    <2>4. CASE ~(i <= n) /\ j <= n
      <3>1. r[j] \in Range(q) /\ i - n \in 1..k /\ r[i] = s[i - n]
        BY <1>3, <1>6, <1>7, <2>4
      <3> QED BY <1>7, <1>9, <3>1
    <2> QED BY <2>1, <2>2, <2>3, <2>4
  <1>10. ASSUME Increasing(q), Increasing(s), Before(Range(q), Range(s)),
                NEW i \in 1..(n + k), NEW j \in 1..(n + k), i < j
         PROVE  r[i] < r[j]
    <2>1. CASE i <= n /\ j <= n
      BY <1>1, <1>6, <1>7, <1>10, <2>1 DEF Increasing
    <2>2. CASE ~(i <= n) /\ ~(j <= n)
      <3>1. i - n \in 1..k /\ j - n \in 1..k /\ r[i] = s[i - n] /\ r[j] = s[j - n]
        BY <1>3, <1>6, <2>2
      <3>2. i - n < j - n
        BY <1>1, <1>10
      <3> QED BY <1>1, <1>10, <3>1, <3>2 DEF Increasing
    <2>3. CASE i <= n /\ ~(j <= n)
      <3>1. r[i] \in Range(q) /\ j - n \in 1..k /\ r[j] = s[j - n]
        BY <1>3, <1>6, <1>7, <2>3
      <3>2. r[j] \in Range(s)
        BY <1>7, <3>1
      <3> QED BY <1>10, <3>1, <3>2 DEF Before
    <2>4. ~(~(i <= n) /\ j <= n)
      BY <1>1, <1>10
    <2> QED BY <2>1, <2>2, <2>3, <2>4
  <1>11. IsInjective(q) /\ IsInjective(s) /\ Range(q) \cap Range(s) = {} => IsInjective(r)
    BY <1>2, <1>9 DEF IsInjective
  <1>12. Increasing(q) /\ Increasing(s) /\ Before(Range(q), Range(s)) => Increasing(r)
    BY <1>2, <1>10 DEF Increasing
  <1> QED BY <1>2, <1>8, <1>11, <1>12 DEF r

-----------------------------------------------------------------------------
(* How a step moves messages *)

\* A POST under way is taken back, given up, or answered; what is in a stream
\* that breaks is lost.
NothingMoves ==
    /\ handled' = handled /\ sent' = sent /\ page'.queue = page.queue
    /\ wire' = wire \/ wire' = <<>>
    /\ \/ posts' \subseteq posts
       \/ \E p \in posts, r \in Post : r.todo = p.todo /\ posts' = (posts \ {p}) \cup {r}
QueueIsPosted ==
    /\ handled' = handled /\ sent' = sent /\ wire' = wire /\ page'.queue = <<>>
    /\ \E p \in Post : p.todo = page.queue /\ posts' = posts \cup {p}
QueueIsWired ==
    /\ handled' = handled /\ sent' = sent /\ posts' = posts /\ page'.queue = <<>>
    /\ wire' = wire \o page.queue
WireIsPosted ==
    /\ handled' = handled /\ sent' = sent /\ page'.queue = page.queue
    /\ wire # <<>> /\ wire' = <<>> /\ disturbed'
    /\ \E p \in Post : p.todo = wire /\ posts' = posts \cup {p}
PostIsHandled(p) ==
    /\ sent' = sent /\ wire' = wire /\ page'.queue = page.queue
    /\ p.todo # <<>>
    /\ handled' = handled \/ handled' = Append(handled, Head(p.todo))
    /\ \E r \in Post : /\ r.todo = Tail(p.todo) \/ r.todo = <<>>
                       /\ posts' \subseteq (posts \ {p}) \cup {r}
WireIsHandled ==
    /\ sent' = sent /\ posts' = posts /\ page'.queue = page.queue
    /\ wire # <<>> /\ wire' = Tail(wire)
    /\ handled' = handled \/ handled' = Append(handled, Head(wire))

Moves ==
    \/ NothingMoves \/ QueueIsPosted \/ QueueIsWired \/ WireIsPosted \/ SendMessage
    \/ (\E p \in posts : PostIsHandled(p)) \/ WireIsHandled

\* The senders start: what is queued is posted if the page is connected.
LEMMA StartMoves ==
  ASSUME TypeOK, NEW v \in Page, v.queue = page.queue, sent' = sent, handled' = handled, wire' = wire,
         page'.queue = CheckStarted(v).queue, posts' = posts \cup PostOfStart(v)
  PROVE  NothingMoves \/ QueueIsPosted
  <1>1. CASE v.started
    BY <1>1, Starting DEF PostOfStart, NothingMoves
  <1>2. CASE ~v.started /\ v.connected /\ v.queue # <<>>
    <2>1. page'.queue = <<>> /\ posts' = posts \cup PostOf(v)
      BY <1>2, Starting DEF PostOfStart
    <2>2. PICK p \in PostOf(v) : TRUE
      BY <1>2 DEF PostOf
    <2>3. p \in Post /\ p.todo = v.queue /\ PostOf(v) = {p}
      BY <2>2, Posted
    <2> QED BY <2>1, <2>3 DEF QueueIsPosted
  <1>3. CASE ~v.started /\ ~(v.connected /\ v.queue # <<>>)
    <2>1. page'.queue = page.queue /\ posts' = posts
      BY <1>3, Starting DEF PostOfStart, PostOf
    <2> QED BY <2>1 DEF NothingMoves
  <1> QED BY <1>1, <1>2, <1>3

LEMMA Losing ==
  ASSUME TypeOK, NEW downgrade \in {FALSE, page.reconnecting}
  PROVE  LET w == HandleDisconnect(page, downgrade)
         IN  /\ w \in Page /\ w.timer /\ w.queue = page.queue
             /\ w.senders = page.senders /\ w.pollers = page.pollers /\ w.stream = page.stream
             /\ page.first \/ page.method # "ws" => w.method # "ws"
             /\ (page.reconnecting => ~page.connected) => ~w.connected
  <1> DEFINE w == HandleDisconnect(page, downgrade)
  <1>1. page \in Page /\ downgrade \in BOOLEAN
    BY DEF TypeOK, Page
  <1>2. /\ w \in Page /\ w.timer /\ w.queue = page.queue
        /\ w.senders = page.senders /\ w.pollers = page.pollers /\ w.stream = page.stream
        /\ page.first \/ page.method # "ws" => w.method # "ws"
        /\ (page.reconnecting => ~page.connected) => ~w.connected
    BY <1>1, Disconnected
  <1> QED BY <1>2

LEMMA PageMoves ==
  ASSUME TypeOK, PageStep \/ SendMessage
  PROVE  Moves
  <1> USE DEF Moves, pageVars, netVars, serverVars, historyVars, boundVars
  <1>0. page \in Page /\ page.reconnecting \in BOOLEAN /\ page.connected \in BOOLEAN /\ page.senders \in Nat
    BY DEF TypeOK, Page
  <1>1. CASE SendMessage
    BY <1>1
  <1>2. CASE Connect
    <2>1. page'.queue = page.queue
      BY <1>0, <1>2 DEF Connect, Page
    <2> QED BY <1>2, <2>1 DEF Connect, NothingMoves
  <1>3. CASE SendInputEvents
    <2> DEFINE v == [page EXCEPT !.senders = @ - 1]
    <2>1. v \in Page /\ v.queue = page.queue /\ v.connected = page.connected
      BY <1>0, <1>3 DEF SendInputEvents, Page
    <2>2. page' = AfterSending(v)
      BY <1>3 DEF SendInputEvents
    <2> HIDE DEF v
    <2>p. page'.queue = IF v.connected THEN <<>> ELSE v.queue
      BY <2>1, <2>2, Sending
    <2>3. page'.queue = IF page.connected THEN <<>> ELSE page.queue
      BY <2>1, <2>p
    <2>4. CASE page.connected /\ page.queue # <<>>
      <3>1. PICK p \in PostOf(page) : TRUE
        BY <2>4 DEF PostOf
      <3>2. p \in Post /\ p.todo = page.queue /\ PostOf(page) = {p}
        BY <1>0, <3>1, Posted
      <3> QED BY <1>3, <2>3, <2>4, <3>2 DEF SendInputEvents, QueueIsPosted
    <2>5. CASE ~(page.connected /\ page.queue # <<>>)
      <3>1. page'.queue = page.queue /\ PostOf(page) = {}
        BY <2>3, <2>5 DEF PostOf
      <3> QED BY <1>3, <3>1 DEF SendInputEvents, NothingMoves
    <2> QED BY <2>4, <2>5
  <1>4. CASE ReceiveOutputMessages
    <2>1. page'.queue = page.queue
      BY <1>0, <1>4 DEF ReceiveOutputMessages, Page
    <2> QED BY <1>4, <2>1 DEF ReceiveOutputMessages, NothingMoves
  <1>5. CASE StreamOpens
    <2>1. page.method = "ws" => page'.queue = <<>>
      BY <1>0, <1>5 DEF StreamOpens, Page
    <2>2. page.method # "ws" => page'.queue = page.queue
      BY <1>0, <1>5 DEF StreamOpens, Page
    <2> QED BY <1>5, <2>1, <2>2 DEF StreamOpens, NothingMoves, QueueIsWired
  <1>6. CASE ReceiveFromStream
    <2> DEFINE v == ProcessMessage(page, Head(down))
    <2>1. v \in Page /\ v.queue = page.queue
      BY <1>0, Processed
    <2>2. page.method = "ws" => page' = v /\ posts' = posts
      BY <1>6 DEF ReceiveFromStream
    <2>3. page.method # "ws" => page' = CheckStarted(v) /\ posts' = posts \cup PostOfStart(v)
      BY <1>6 DEF ReceiveFromStream
    <2>4. sent' = sent /\ handled' = handled /\ wire' = wire
      BY <1>6 DEF ReceiveFromStream
    <2> HIDE DEF v
    <2>5. CASE page.method = "ws"
      BY <2>1, <2>2, <2>4, <2>5 DEF NothingMoves
    <2>6. CASE page.method # "ws"
      BY <2>1, <2>3, <2>4, <2>6, StartMoves
    <2> QED BY <2>5, <2>6
  <1>7. CASE StreamEnds
    <2>1. PICK downgrade \in {FALSE, page.reconnecting} :
                page' = [HandleDisconnect(page, downgrade) EXCEPT !.stream = "none"]
      BY <1>7 DEF StreamEnds
    <2>2. HandleDisconnect(page, downgrade) \in Page /\ HandleDisconnect(page, downgrade).queue = page.queue
      BY Losing
    <2>3. page'.queue = page.queue
      BY <2>1, <2>2 DEF Page
    <2> QED BY <1>7, <2>3 DEF StreamEnds, NothingMoves
  <1>8. ASSUME NEW p \in posts, PostSucceeds(p) PROVE Moves
    <2>1. page'.queue = page.queue
      BY <1>0, <1>8 DEF PostSucceeds, Page
    <2> QED BY <1>8, <2>1 DEF PostSucceeds, NothingMoves
  <1>9. ASSUME NEW g \in gets, PollSucceeds(g) PROVE Moves
    <2> DEFINE v == ProcessMessage(page, g.msg)
    <2>1. v \in Page /\ v.queue = page.queue
      BY <1>0, Processed
    <2>2. ~v.connected => page' = v /\ posts' = posts
      BY <1>9 DEF PollSucceeds
    <2>3. v.connected => page' = [CheckStarted(v) EXCEPT !.pollers = @ + 1] /\ posts' = posts \cup PostOfStart(v)
      BY <1>9 DEF PollSucceeds
    <2>4. sent' = sent /\ handled' = handled /\ wire' = wire
      BY <1>9 DEF PollSucceeds
    <2>5. CheckStarted(v) \in Page
      BY <2>1, Starting
    <2> HIDE DEF v
    <2>6. CASE ~v.connected
      BY <2>1, <2>2, <2>4, <2>6 DEF NothingMoves
    <2>7. CASE v.connected
      <3>1. page'.queue = CheckStarted(v).queue
        BY <2>3, <2>5, <2>7 DEF Page
      <3> QED BY <2>1, <2>3, <2>4, <2>7, <3>1, StartMoves
    <2> QED BY <2>6, <2>7
  <1> QED BY <1>1, <1>2, <1>3, <1>4, <1>5, <1>6, <1>7, <1>8, <1>9 DEF PageStep

LEMMA OtherMoves ==
  ASSUME TypeOK, Fault \/ ServerStep \/ WriteToStream \/ OtherTab \/ UNCHANGED vars
  PROVE  Moves
  <1> USE DEF Moves, vars, pageVars, netVars, serverVars, historyVars, boundVars
  <1>0. /\ page \in Page /\ page.reconnecting \in BOOLEAN /\ posts \subseteq Post
        /\ wire \in Seq(1..MaxMessages)
    BY DEF TypeOK, Page
  <1>1. ASSUME NEW p \in posts, PostTimesOut(p) \/ PostFails(p) PROVE Moves
    <2>1. page'.queue = page.queue
      <3>1. CASE PostTimesOut(p)
        BY <1>0, <3>1 DEF PostTimesOut, Page
      <3>2. CASE PostFails(p)
        <4>1. PICK downgrade \in {FALSE, page.reconnecting} : page' = HandleDisconnect(page, downgrade)
          BY <3>2 DEF PostFails
        <4> QED BY <4>1, Losing
      <3> QED BY <1>1, <3>1, <3>2
    <2>2. Abandon(p) /\ sent' = sent /\ handled' = handled /\ wire' = wire
      BY <1>1 DEF PostTimesOut, PostFails
    <2>3. [p EXCEPT !.waited = FALSE] \in Post /\ [p EXCEPT !.waited = FALSE].todo = p.todo
      BY <1>0 DEF Post
    <2> HIDE DEF Moves
    <2>4. NothingMoves
      BY <2>1, <2>2, <2>3 DEF Abandon, NothingMoves
    <2> QED BY <2>4 DEF Moves
  <1>2. ASSUME NEW g \in gets, PollTimesOut(g) \/ PollFails(g) PROVE Moves
    <2>1. page'.queue = page.queue
      <3>1. CASE PollTimesOut(g)
        BY <1>0, <3>1 DEF PollTimesOut, Page
      <3>2. CASE PollFails(g)
        <4>1. PICK downgrade \in {FALSE, page.reconnecting} : page' = HandleDisconnect(page, downgrade)
          BY <3>2 DEF PollFails
        <4> QED BY <4>1, Losing
      <3> QED BY <1>2, <3>1, <3>2
    <2> QED BY <1>2, <2>1 DEF PollTimesOut, PollFails, NothingMoves
  <1>3. CASE StreamBreaks
    <2>1. PICK downgrade \in {FALSE, page.reconnecting} :
                page' = [HandleDisconnect(page, downgrade) EXCEPT !.stream = "none"]
      BY <1>3 DEF StreamBreaks
    <2>2. HandleDisconnect(page, downgrade) \in Page /\ HandleDisconnect(page, downgrade).queue = page.queue
      BY Losing
    <2>3. page'.queue = page.queue
      BY <2>1, <2>2 DEF Page
    <2>4. wire # <<>> => [todo |-> wire, last |-> wire[Len(wire)], waited |-> FALSE] \in Post
      BY <1>0, LastOfSequence DEF Post
    <2>5. wire' = <<>> /\ handled' = handled /\ sent' = sent /\ (wire # <<>> => disturbed')
      BY <1>3 DEF StreamBreaks
    <2>6. \/ posts' = posts
          \/ wire # <<>> /\ posts' = posts \cup {[todo |-> wire, last |-> wire[Len(wire)], waited |-> FALSE]}
      BY <1>3 DEF StreamBreaks
    <2> QED BY <2>3, <2>4, <2>5, <2>6 DEF NothingMoves, WireIsPosted
  <1>4. CASE SessionExpires
    BY <1>4 DEF SessionExpires, NothingMoves
  <1>5. ASSUME NEW g \in gets, PollHandler(g) PROVE Moves
    BY <1>5 DEF PollHandler, TestPoll, AnswerHandshake, AcquireForPoll, AnswerPoll, DropAnswer, NothingMoves
  <1>6. CASE TestStream \/ AdmitStream \/ CloseSilentStream \/ NoticeStaleStream
    BY <1>6 DEF TestStream, AdmitStream, CloseSilentStream, NoticeStaleStream, NothingMoves
  <1>7. ASSUME NEW u \in User, CountUser(u) PROVE Moves
    BY <1>7 DEF CountUser, NothingMoves
  <1>8. ASSUME NEW p \in posts, HandlePost(p) PROVE Moves
    <2> DEFINE q == [p EXCEPT !.todo = IF known THEN Tail(@) ELSE <<>>]
    <2>1. q \in Post
      BY <1>0, <1>8, PostTypes DEF HandlePost
    <2>2. q.todo = Tail(p.todo) \/ q.todo = <<>>
      BY <1>0 DEF Post
    <2>3. posts' = (posts \ {p}) \cup (IF q.todo = <<>> /\ ~p.waited THEN {} ELSE {q})
      BY <1>8 DEF HandlePost
    <2> HIDE DEF q, Moves
    <2>4. posts' \subseteq (posts \ {p}) \cup {q}
      BY <2>3
    <2>5. PostIsHandled(p)
      BY <1>8, <2>1, <2>2, <2>4 DEF HandlePost, PostIsHandled
    <2> QED BY <2>5 DEF Moves
  <1>9. CASE HandleSocketMessage
    BY <1>9 DEF HandleSocketMessage, WireIsHandled
  <1>10. CASE WriteToStream \/ OtherTab
    BY <1>10 DEF WriteToStream, OtherTab, NothingMoves
  <1>11. CASE UNCHANGED vars
    BY <1>11 DEF NothingMoves
  <1> QED BY <1>1, <1>2, <1>3, <1>4, <1>5, <1>6, <1>7, <1>8, <1>9, <1>10, <1>11 DEF Fault, ServerStep

-----------------------------------------------------------------------------
(* A message is in one place only *)

SentOnce ==
    /\ IsInjective(handled) /\ IsInjective(wire) /\ IsInjective(page.queue)
    /\ \A p \in posts : IsInjective(p.todo)
    /\ Range(handled) \cap Range(wire) = {}
    /\ Range(handled) \cap Range(page.queue) = {}
    /\ Range(wire) \cap Range(page.queue) = {}
    /\ \A p \in posts : Range(p.todo) \cap (Range(handled) \cup Range(wire) \cup Range(page.queue)) = {}
    /\ \A p, q \in posts : p # q => Range(p.todo) \cap Range(q.todo) = {}
    /\ Range(handled) \cup Range(wire) \cup Range(page.queue) \subseteq 1..sent
    /\ \A p \in posts : Range(p.todo) \subseteq 1..sent

\* The messages are numbers.
LEMMA Numbers ==
  ASSUME TypeOK
  PROVE  /\ handled \in Seq(Nat) /\ wire \in Seq(Nat) /\ page.queue \in Seq(Nat) /\ sent \in Nat
         /\ \A p \in posts : p.todo \in Seq(Nat)
  <1>1. 1..MaxMessages \subseteq Nat /\ (\A n \in 0..MaxMessages : n \in Nat)
    BY BoundAssumption
  <1>2. \A q \in Seq(1..MaxMessages) : q \in Seq(Nat)
    BY <1>1, SeqMonotonic
  <1>3. /\ handled \in Seq(1..MaxMessages) /\ wire \in Seq(1..MaxMessages)
        /\ page.queue \in Seq(1..MaxMessages) /\ \A p \in posts : p.todo \in Seq(1..MaxMessages)
    BY DEF TypeOK, Page, Post
  <1>4. sent \in 0..MaxMessages
    BY DEF TypeOK
  <1> QED BY <1>1, <1>2, <1>3, <1>4

LEMMA SentOnceNext ==
  ASSUME TypeOK, SentOnce, Moves
  PROVE  SentOnce'
  <1> DEFINE q == page.queue
             q1 == page'.queue
  <1>n. /\ handled \in Seq(Nat) /\ wire \in Seq(Nat) /\ q \in Seq(Nat) /\ sent \in Nat
        /\ \A p \in posts : p.todo \in Seq(Nat)
    BY Numbers
  <1>e. Range(<<>>) = {} /\ IsInjective(<<>>)
    BY NoMessages
  <1>o. /\ IsInjective(handled) /\ IsInjective(wire) /\ IsInjective(q)
        /\ \A p \in posts : IsInjective(p.todo)
        /\ Range(handled) \cap Range(wire) = {}
        /\ Range(handled) \cap Range(q) = {}
        /\ Range(wire) \cap Range(q) = {}
        /\ \A p \in posts : Range(p.todo) \cap (Range(handled) \cup Range(wire) \cup Range(q)) = {}
        /\ \A p, r \in posts : p # r => Range(p.todo) \cap Range(r.todo) = {}
        /\ Range(handled) \cup Range(wire) \cup Range(q) \subseteq 1..sent
        /\ \A p \in posts : Range(p.todo) \subseteq 1..sent
    BY DEF SentOnce
  <1>g. SUFFICES
        /\ IsInjective(handled') /\ IsInjective(wire') /\ IsInjective(q1)
        /\ \A p \in posts' : IsInjective(p.todo)
        /\ Range(handled') \cap Range(wire') = {}
        /\ Range(handled') \cap Range(q1) = {}
        /\ Range(wire') \cap Range(q1) = {}
        /\ \A p \in posts' : Range(p.todo) \cap (Range(handled') \cup Range(wire') \cup Range(q1)) = {}
        /\ \A p, r \in posts' : p # r => Range(p.todo) \cap Range(r.todo) = {}
        /\ Range(handled') \cup Range(wire') \cup Range(q1) \subseteq 1..sent'
        /\ \A p \in posts' : Range(p.todo) \subseteq 1..sent'
    BY DEF SentOnce
  <1>1. CASE NothingMoves
    <2>1. /\ handled' = handled /\ sent' = sent /\ q1 = q
          /\ wire' = wire \/ wire' = <<>>
      BY <1>1 DEF NothingMoves
    <2>2. CASE posts' \subseteq posts
      <3> HIDE DEF q, q1
      <3> QED BY <1>e, <1>o, <2>1, <2>2
    <2>3. CASE \E p \in posts, r \in Post : r.todo = p.todo /\ posts' = (posts \ {p}) \cup {r}
      <3>1. PICK p \in posts, r \in Post : r.todo = p.todo /\ posts' = (posts \ {p}) \cup {r}
        BY <2>3
      <3> HIDE DEF q, q1
      <3> QED BY <1>e, <1>o, <2>1, <3>1
    <2> QED BY <1>1, <2>2, <2>3 DEF NothingMoves
  <1>2. CASE QueueIsPosted
    <2>1. /\ handled' = handled /\ sent' = sent /\ wire' = wire /\ q1 = <<>>
      BY <1>2 DEF QueueIsPosted
    <2>2. PICK p \in Post : p.todo = q /\ posts' = posts \cup {p}
      BY <1>2 DEF QueueIsPosted
    <2> HIDE DEF q, q1
    <2> QED BY <1>e, <1>o, <2>1, <2>2
  <1>3. CASE QueueIsWired
    <2>1. /\ handled' = handled /\ sent' = sent /\ posts' = posts /\ q1 = <<>>
          /\ wire' = wire \o q
      BY <1>3 DEF QueueIsWired
    <2>2. Range(wire \o q) = Range(wire) \cup Range(q) /\ IsInjective(wire \o q)
      BY <1>n, <1>o, OneAfterTheOther
    <2> HIDE DEF q, q1
    <2> QED BY <1>e, <1>o, <2>1, <2>2
  <1>4. CASE WireIsPosted
    <2>1. /\ handled' = handled /\ sent' = sent /\ wire' = <<>> /\ q1 = q
      BY <1>4 DEF WireIsPosted
    <2>2. PICK p \in Post : p.todo = wire /\ posts' = posts \cup {p}
      BY <1>4 DEF WireIsPosted
    <2> HIDE DEF q, q1
    <2> QED BY <1>e, <1>o, <2>1, <2>2
  <1>5. CASE SendMessage
    <2>0. /\ handled' = handled /\ posts' = posts /\ sent' = sent + 1
          /\ sent + 1 \in Nat /\ sent + 1 \notin 1..sent
          /\ 1..sent \subseteq 1..(sent + 1) /\ sent + 1 \in 1..(sent + 1)
      BY <1>5, <1>n DEF SendMessage, serverVars
    <2>1. CASE page.method = "ws" /\ page.stream = "open"
      <3>1. wire' = Append(wire, sent + 1) /\ q1 = q
        BY <1>5, <2>1 DEF SendMessage
      <3>2. Range(wire') = Range(wire) \cup {sent + 1} /\ IsInjective(wire')
        BY <1>n, <1>o, <2>0, <3>1, OneMore
      <3> HIDE DEF q, q1
      <3>3. sent + 1 \notin Range(handled) \cup Range(wire) \cup Range(q)
        BY <1>o, <2>0
      <3>4. \A p \in posts : sent + 1 \notin Range(p.todo) /\ Range(p.todo) \subseteq 1..sent'
        BY <1>o, <2>0
      <3>5. Range(handled') \cup Range(wire') \cup Range(q1) \subseteq 1..sent'
        BY <1>o, <2>0, <3>1, <3>2
      <3>6. \A p \in posts : Range(p.todo) \cap (Range(handled') \cup Range(wire') \cup Range(q1)) = {}
        BY <1>o, <2>0, <3>1, <3>2, <3>4
      <3>7. /\ Range(handled') \cap Range(wire') = {} /\ Range(handled') \cap Range(q1) = {}
            /\ Range(wire') \cap Range(q1) = {}
        BY <1>o, <2>0, <3>1, <3>2, <3>3
      <3> QED BY <1>o, <2>0, <3>1, <3>2, <3>4, <3>5, <3>6, <3>7
    <2>2. CASE ~(page.method = "ws" /\ page.stream = "open")
      <3>1. wire' = wire /\ q1 = Append(q, sent + 1)
        <4>1. page \in Page /\ wire' = wire /\ page' = [page EXCEPT !.queue = Append(@, sent + 1)]
          BY <1>5, <2>2 DEF SendMessage, TypeOK
        <4> QED BY <4>1 DEF Page
      <3> HIDE DEF q, q1
      <3>a. q \in Seq(Nat) /\ IsInjective(q) /\ sent + 1 \notin Range(q)
        BY <1>n, <1>o, <2>0
      <3>2. Range(q1) = Range(q) \cup {sent + 1} /\ IsInjective(q1)
        BY <2>0, <3>1, <3>a, OneMore
      <3>3. sent + 1 \notin Range(handled) \cup Range(wire) \cup Range(q)
        BY <1>o, <2>0
      <3>4. \A p \in posts : sent + 1 \notin Range(p.todo) /\ Range(p.todo) \subseteq 1..sent'
        BY <1>o, <2>0
      <3>5. Range(handled') \cup Range(wire') \cup Range(q1) \subseteq 1..sent'
        BY <1>o, <2>0, <3>1, <3>2
      <3>6. \A p \in posts : Range(p.todo) \cap (Range(handled') \cup Range(wire') \cup Range(q1)) = {}
        BY <1>o, <2>0, <3>1, <3>2, <3>4
      <3>7. /\ Range(handled') \cap Range(wire') = {} /\ Range(handled') \cap Range(q1) = {}
            /\ Range(wire') \cap Range(q1) = {}
        BY <1>o, <2>0, <3>1, <3>2, <3>3
      <3> QED BY <1>o, <2>0, <3>1, <3>2, <3>4, <3>5, <3>6, <3>7
    <2> QED BY <2>1, <2>2
  <1>6. CASE \E p \in posts : PostIsHandled(p)
    <2>0. PICK p \in posts : PostIsHandled(p)
      BY <1>6
    <2>1. /\ sent' = sent /\ wire' = wire /\ q1 = q /\ p.todo # <<>>
          /\ handled' = handled \/ handled' = Append(handled, Head(p.todo))
      BY <2>0 DEF PostIsHandled
    <2>2. PICK r \in Post : /\ r.todo = Tail(p.todo) \/ r.todo = <<>>
                            /\ posts' \subseteq (posts \ {p}) \cup {r}
      BY <2>0 DEF PostIsHandled
    <2>3. /\ Head(p.todo) \in Nat /\ Range(p.todo) = {Head(p.todo)} \cup Range(Tail(p.todo))
          /\ IsInjective(Tail(p.todo)) /\ Head(p.todo) \notin Range(Tail(p.todo))
      BY <1>n, <1>o, <2>1, OneLess
    <2>4. /\ Range(Append(handled, Head(p.todo))) = Range(handled) \cup {Head(p.todo)}
          /\ IsInjective(Append(handled, Head(p.todo)))
      <3>1. Head(p.todo) \notin Range(handled)
        BY <1>o, <2>3
      <3> QED BY <1>n, <1>o, <2>3, <3>1, OneMore
    <2>5. /\ IsInjective(handled')
          /\ Range(handled') \subseteq Range(handled) \cup {Head(p.todo)}
      BY <1>o, <2>1, <2>4
    <2>6. IsInjective(r.todo) /\ Range(r.todo) \subseteq Range(Tail(p.todo))
      BY <1>e, <2>2, <2>3
    <2> HIDE DEF q, q1
    <2>7. \A s \in posts' : s = r \/ (s \in posts /\ s # p)
      BY <2>2
    <2>8. \A s \in posts : s # p => Range(s.todo) \cap Range(p.todo) = {}
      BY <1>o
    <2>9. \A s \in posts' : IsInjective(s.todo) /\ Range(s.todo) \subseteq 1..sent'
      BY <1>o, <2>1, <2>3, <2>6, <2>7
    <2>10. \A s \in posts' : Range(s.todo) \cap (Range(handled') \cup Range(wire') \cup Range(q1)) = {}
      BY <1>o, <2>1, <2>3, <2>5, <2>6, <2>7, <2>8
    <2>11. \A s, t \in posts' : s # t => Range(s.todo) \cap Range(t.todo) = {}
      BY <1>o, <2>3, <2>6, <2>7, <2>8
    <2>12. /\ Range(handled') \cap Range(wire') = {} /\ Range(handled') \cap Range(q1) = {}
           /\ Range(handled') \cup Range(wire') \cup Range(q1) \subseteq 1..sent'
      BY <1>o, <2>1, <2>3, <2>5
    <2> QED BY <1>o, <2>1, <2>5, <2>9, <2>10, <2>11, <2>12
  <1>7. CASE WireIsHandled
    <2>1. /\ sent' = sent /\ posts' = posts /\ q1 = q /\ wire # <<>> /\ wire' = Tail(wire)
          /\ handled' = handled \/ handled' = Append(handled, Head(wire))
      BY <1>7 DEF WireIsHandled
    <2>3. /\ Head(wire) \in Nat /\ Range(wire) = {Head(wire)} \cup Range(Tail(wire))
          /\ IsInjective(Tail(wire)) /\ Head(wire) \notin Range(Tail(wire))
      BY <1>n, <1>o, <2>1, OneLess
    <2>4. /\ Range(Append(handled, Head(wire))) = Range(handled) \cup {Head(wire)}
          /\ IsInjective(Append(handled, Head(wire)))
      <3>1. Head(wire) \notin Range(handled)
        BY <1>o, <2>3
      <3> QED BY <1>n, <1>o, <2>3, <3>1, OneMore
    <2>5. /\ IsInjective(handled')
          /\ Range(handled') \subseteq Range(handled) \cup {Head(wire)}
      BY <1>o, <2>1, <2>4
    <2> HIDE DEF q, q1
    <2> QED BY <1>o, <2>1, <2>3, <2>5
  <1> HIDE DEF q, q1
  <1> QED BY <1>1, <1>2, <1>3, <1>4, <1>5, <1>6, <1>7 DEF Moves

-----------------------------------------------------------------------------
(* Until a POST is disturbed, one request at a time carries messages *)

\* The polls the page waits for.
Waited == {g \in gets : g.waited}

\* The page has one way to learn that it is connected: the reconnect timer, a
\* stream, a poller's timer or a poll.
OneLifeline ==
    /\ page.timer => page.stream = "none" /\ page.pollers = 0 /\ Waited = {} /\ ~page.connected
    /\ page.stream # "none" => page.pollers = 0 /\ Waited = {}
    /\ page.pollers # 0 => page.pollers = 1 /\ Waited = {}
    /\ \A g, h \in Waited : g = h

\* One sender carries what is queued: its timer runs, or its POST is under way.
OneSender ==
    /\ page.senders # 0 => page.senders = 1 /\ posts = {} /\ (page.started \/ page.timer)
    /\ \A p, q \in posts : p = q
    /\ posts # {} => page.started

\* A page that has a web socket has had nothing else.
SocketFirst ==
    /\ page.method = "ws" => /\ page.first /\ posts = {} /\ page.senders = 0
                             /\ Waited = {} /\ page.pollers = 0
    /\ page.method = "ws" /\ page.stream = "open" => page.queue = <<>>
    /\ wire # <<>> => page.method = "ws" /\ page.stream = "open"

\* A page that reconnects is not connected.
Reconnects == page.reconnecting => ~page.connected

OneCarrier == OneLifeline /\ OneSender /\ SocketFirst

\* The senders start: a page that has none gets one, or its POST.
LEMMA StartedOnce ==
  ASSUME NEW v \in Page, ~v.started => v.senders = 0 /\ posts = {},
         v.senders # 0 => v.senders = 1 /\ posts = {},
         \A p, q \in posts : p = q,
         NEW w, w = CheckStarted(v), NEW P, P = posts \cup PostOfStart(v)
  PROVE  /\ w.senders # 0 => w.senders = 1 /\ P = {}
         /\ \A p, q \in P : p = q
  <1>1. CASE v.started
    BY <1>1, Starting DEF PostOfStart
  <1>2. CASE ~v.started
    <2>1. w.senders = IF v.connected /\ v.queue = <<>> THEN 1 ELSE 0
      <3>1. w.senders = IF v.connected /\ v.queue = <<>> THEN v.senders + 1 ELSE v.senders
        BY <1>2, Starting
      <3> QED BY <1>2, <3>1
    <2>2. P = PostOf(v)
      BY <1>2 DEF PostOfStart
    <2> QED BY <2>1, <2>2 DEF PostOf
  <1> QED BY <1>1, <1>2

LEMMA ReconnectsNext ==
  ASSUME TypeOK, Reconnects, [Next]_vars
  PROVE  Reconnects'
  <1> USE DEF pageVars, netVars, serverVars, historyVars, boundVars, Reconnects
  <1>0. page \in Page /\ page.reconnecting \in BOOLEAN /\ page.senders \in Nat
    BY DEF TypeOK, Page
  <1>d. ASSUME NEW downgrade \in {FALSE, page.reconnecting}
        PROVE  /\ HandleDisconnect(page, downgrade) \in Page
               /\ ~HandleDisconnect(page, downgrade).connected
    <2>1. downgrade \in BOOLEAN
      BY <1>0
    <2> QED BY <1>0, <2>1, Disconnected, Zenon
  <1>1. CASE page'.reconnecting = page.reconnecting /\ page'.connected = page.connected
    BY <1>1
  <1>2. CASE SendMessage \/ Connect \/ ReceiveOutputMessages \/ StreamOpens
    BY <1>0, <1>1, <1>2 DEF SendMessage, Connect, ReceiveOutputMessages, StreamOpens, Page
  <1>3. CASE SendInputEvents
    <2> DEFINE v == [page EXCEPT !.senders = @ - 1]
    <2>1. v \in Page /\ v.connected = page.connected /\ v.reconnecting = page.reconnecting
      BY <1>0, <1>3 DEF SendInputEvents, Page
    <2>2. page' = AfterSending(v)
      BY <1>3 DEF SendInputEvents
    <2> HIDE DEF v
    <2>3. page'.connected = v.connected /\ page'.reconnecting = v.reconnecting
      BY <2>1, <2>2, Sending
    <2> QED BY <2>1, <2>3
  <1>4. CASE ReceiveFromStream
    <2> DEFINE v == ProcessMessage(page, Head(down))
    <2>1. v \in Page /\ ~v.reconnecting
      BY <1>0, Processed
    <2>2. ~CheckStarted(v).reconnecting
      BY <2>1, Starting
    <2> QED BY <1>4, <2>1, <2>2 DEF ReceiveFromStream
  <1>5. CASE StreamEnds \/ StreamBreaks
    <2>1. PICK downgrade \in {FALSE, page.reconnecting} :
                page' = [HandleDisconnect(page, downgrade) EXCEPT !.stream = "none"]
      BY <1>5 DEF StreamEnds, StreamBreaks
    <2> QED BY <1>d, <2>1 DEF Page
  <1>6. ASSUME NEW p \in posts, PostSucceeds(p) \/ PostTimesOut(p) PROVE Reconnects'
    BY <1>0, <1>1, <1>6 DEF PostSucceeds, PostTimesOut, Page
  <1>7. ASSUME NEW p \in posts, PostFails(p) PROVE Reconnects'
    <2>1. PICK downgrade \in {FALSE, page.reconnecting} : page' = HandleDisconnect(page, downgrade)
      BY <1>7 DEF PostFails
    <2> QED BY <1>d, <2>1
  <1>8. ASSUME NEW g \in gets, PollSucceeds(g) PROVE Reconnects'
    <2> DEFINE v == ProcessMessage(page, g.msg)
    <2>1. v \in Page /\ ~v.reconnecting
      BY <1>0, Processed
    <2>2. CheckStarted(v) \in Page /\ ~CheckStarted(v).reconnecting
      BY <2>1, Starting
    <2>3. page' = IF v.connected THEN [CheckStarted(v) EXCEPT !.pollers = @ + 1] ELSE v
      BY <1>8 DEF PollSucceeds
    <2> HIDE DEF v
    <2>4. ~[CheckStarted(v) EXCEPT !.pollers = @ + 1].reconnecting
      BY <2>2 DEF Page
    <2> QED BY <2>1, <2>3, <2>4
  <1>9. ASSUME NEW g \in gets, PollTimesOut(g) PROVE Reconnects'
    BY <1>0, <1>1, <1>9 DEF PollTimesOut, Page
  <1>10. ASSUME NEW g \in gets, PollFails(g) PROVE Reconnects'
    <2>1. PICK downgrade \in {FALSE, page.reconnecting} : page' = HandleDisconnect(page, downgrade)
      BY <1>10 DEF PollFails
    <2> QED BY <1>d, <2>1
  <1>11. CASE page' = page
    BY <1>11
  <1>12. CASE ServerStep
    <2>1. page' = page
      BY <1>12 DEF ServerStep, PollHandler, TestPoll, AnswerHandshake, AcquireForPoll, AnswerPoll, DropAnswer,
                   TestStream, AdmitStream, CloseSilentStream, NoticeStaleStream, CountUser, HandlePost,
                   HandleSocketMessage
    <2> QED BY <1>11, <2>1
  <1>13. CASE WriteToStream \/ OtherTab \/ SessionExpires \/ UNCHANGED vars
    BY <1>11, <1>13 DEF WriteToStream, OtherTab, SessionExpires, vars
  <1> QED BY <1>2, <1>3, <1>4, <1>5, <1>6, <1>7, <1>8, <1>9, <1>10, <1>12, <1>13 DEF Next, PageStep, Fault

LEMMA CarrierPage ==
  ASSUME TypeOK, Reconnects, OneCarrier, PageStep \/ SendMessage, ~disturbed'
  PROVE  OneCarrier'
  <1> USE DEF pageVars, netVars, serverVars, historyVars, boundVars, OneCarrier, OneLifeline, OneSender, SocketFirst
  <1>0. /\ page \in Page /\ page.reconnecting \in BOOLEAN /\ page.connected \in BOOLEAN /\ page.started \in BOOLEAN
        /\ page.timer \in BOOLEAN /\ page.senders \in Nat /\ page.pollers \in Nat
    BY DEF TypeOK, Page
  <1>n. FreeGets # {} => NewGet(page) \in Get /\ NewGet(page).waited
    BY PollTypes
  <1>1. CASE SendMessage
    <2>1. gets' = gets /\ posts' = posts /\ Waited' = Waited
      BY <1>1 DEF SendMessage, Waited
    <2>2. CASE page.method = "ws" /\ page.stream = "open"
      <3>1. page' = page
        BY <1>1, <2>2 DEF SendMessage
      <3> QED BY <2>1, <2>2, <3>1
    <2>3. CASE ~(page.method = "ws" /\ page.stream = "open")
      <3>1. page' = [page EXCEPT !.queue = Append(@, sent + 1)] /\ wire' = wire
        BY <1>1, <2>3 DEF SendMessage
      <3>2. /\ page'.timer = page.timer /\ page'.stream = page.stream /\ page'.pollers = page.pollers
            /\ page'.connected = page.connected /\ page'.senders = page.senders /\ page'.started = page.started
            /\ page'.method = page.method /\ page'.first = page.first
        BY <1>0, <3>1 DEF Page
      <3> QED BY <2>1, <2>3, <3>1, <3>2
    <2> QED BY <2>2, <2>3
  <1>2. CASE Connect
    <2>0. page.timer /\ page.senders = 0 /\ posts' = posts
      BY <1>2 DEF Connect
    <2>1. CASE page.method = "lp"
      <3>1. /\ gets' = gets \cup {NewGet(page)} /\ wire' = wire
            /\ page' = [page EXCEPT !.timer = FALSE, !.refused = FALSE]
        BY <1>2, <2>1 DEF Connect
      <3>2. /\ ~page'.timer /\ page'.stream = page.stream /\ page'.pollers = page.pollers
            /\ page'.senders = page.senders /\ page'.started = page.started
            /\ page'.method = "lp" /\ page'.queue = page.queue
        BY <1>0, <2>1, <3>1 DEF Page
      <3>3. Waited' \subseteq Waited \cup {NewGet(page)}
        BY <3>1 DEF Waited
      <3> QED BY <2>0, <2>1, <3>1, <3>2, <3>3
    <2>2. CASE page.method # "lp"
      <3>1. /\ gets' = gets /\ wire' = <<>>
            /\ page' = [page EXCEPT !.timer = FALSE, !.refused = FALSE, !.stream = "opening"]
        BY <1>2, <2>2 DEF Connect
      <3>2. /\ ~page'.timer /\ page'.stream = "opening" /\ page'.pollers = page.pollers
            /\ page'.senders = page.senders /\ page'.started = page.started
            /\ page'.method = page.method /\ page'.queue = page.queue /\ page'.first = page.first
        BY <1>0, <3>1 DEF Page
      <3>3. Waited' = Waited
        BY <3>1 DEF Waited
      <3> QED BY <2>0, <3>1, <3>2, <3>3
    <2> QED BY <2>1, <2>2
  <1>3. CASE SendInputEvents
    <2> DEFINE v == [page EXCEPT !.senders = @ - 1]
    <2>0. /\ page.senders = 1 /\ posts = {} /\ (page.connected => page.queue # <<>>)
          /\ page' = AfterSending(v) /\ posts' = posts \cup PostOf(page)
          /\ gets' = gets /\ wire' = wire
      BY <1>3 DEF SendInputEvents
    <2>1. /\ v \in Page /\ v.queue = page.queue /\ v.connected = page.connected /\ v.senders = 0
          /\ v.timer = page.timer /\ v.stream = page.stream /\ v.pollers = page.pollers
          /\ v.started = page.started /\ v.method = page.method /\ v.first = page.first
      <3>1. page.senders - 1 \in Nat /\ page.senders - 1 = 0
        BY <2>0
      <3>2. v \in Page
        BY <1>0, <3>1 DEF Page
      <3>3. /\ v.queue = page.queue /\ v.connected = page.connected /\ v.timer = page.timer
            /\ v.stream = page.stream /\ v.pollers = page.pollers /\ v.started = page.started
            /\ v.method = page.method /\ v.first = page.first
        BY <1>0 DEF Page
      <3>4. v.senders = 0
        BY <1>0, <3>1 DEF Page
      <3> QED BY <3>2, <3>3, <3>4
    <2> HIDE DEF v
    <2>2. /\ page'.timer = v.timer /\ page'.stream = v.stream /\ page'.pollers = v.pollers
          /\ page'.connected = v.connected /\ page'.started = v.started
          /\ page'.method = v.method /\ page'.first = v.first
          /\ page'.queue = IF v.connected THEN <<>> ELSE v.queue
          /\ page'.senders = IF v.connected /\ v.queue = <<>> THEN v.senders + 1 ELSE v.senders
      <3> HIDE DEF OneCarrier, OneLifeline, OneSender, SocketFirst
      <3>1. page' = AfterSending(v) /\ v \in Page
        BY <2>0, <2>1
      <3> QED BY <3>1, Sending
    <2>3. page'.senders = 0
      BY <2>0, <2>1, <2>2
    <2>4. page.method # "ws" /\ wire = <<>> /\ Waited' = Waited
      BY <2>0 DEF Waited
    <2>5. (\A p, q \in posts' : p = q) /\ (posts' # {} => page.connected)
      BY <2>0 DEF PostOf
    <2> QED BY <2>0, <2>1, <2>2, <2>3, <2>4, <2>5
  <1>4. CASE ReceiveOutputMessages
    <2>0. /\ page.pollers = 1 /\ Waited = {} /\ posts' = posts /\ wire' = wire
          /\ gets' = gets \cup {NewGet(page)} /\ page' = [page EXCEPT !.pollers = @ - 1]
      BY <1>4 DEF ReceiveOutputMessages
    <2>1. /\ page'.timer = page.timer /\ page'.stream = page.stream /\ page'.pollers = 0
          /\ page'.senders = page.senders /\ page'.started = page.started
          /\ page'.method = page.method /\ page'.queue = page.queue
      BY <1>0, <2>0 DEF Page
    <2>2. Waited' \subseteq {NewGet(page)}
      BY <2>0 DEF Waited
    <2>3. ~page.timer /\ page.stream = "none" /\ page.method # "ws" /\ wire = <<>>
      BY <2>0
    <2> QED BY <2>0, <2>1, <2>2, <2>3
  <1>5. CASE StreamOpens
    <2>0. page.stream = "opening" /\ gets' = gets /\ posts' = posts /\ Waited' = Waited
      BY <1>5 DEF StreamOpens, Waited
    <2>1. /\ page'.timer = page.timer /\ page'.stream = "open" /\ page'.pollers = page.pollers
          /\ page'.senders = page.senders /\ page'.started = page.started
          /\ page'.method = page.method /\ page'.first = page.first
          /\ page.method = "ws" => page'.queue = <<>>
      <3> HIDE DEF OneCarrier, OneLifeline, OneSender, SocketFirst
      <3>1. CASE page.method = "ws"
        <4>1. page' = [page EXCEPT !.stream = "open", !.queue = <<>>]
          BY <1>5, <3>1 DEF StreamOpens
        <4> QED BY <1>0, <3>1, <4>1 DEF Page
      <3>2. CASE page.method # "ws"
        <4>1. page' = [page EXCEPT !.stream = "open"]
          BY <1>5, <3>2 DEF StreamOpens
        <4> QED BY <1>0, <3>2, <4>1 DEF Page
      <3> QED BY <3>1, <3>2
    <2>2. page.method # "ws" => wire' = <<>>
      BY <1>5 DEF StreamOpens
    <2> QED BY <2>0, <2>1, <2>2
  <1>6. CASE ReceiveFromStream
    <2> DEFINE v == ProcessMessage(page, Head(down))
    <2>0. page.stream = "open" /\ gets' = gets /\ wire' = wire /\ Waited' = Waited
      BY <1>6 DEF ReceiveFromStream, Waited
    <2>1. /\ v \in Page /\ (v.timer => page.timer)
          /\ v.queue = page.queue /\ v.senders = page.senders /\ v.pollers = page.pollers /\ v.stream = page.stream
          /\ v.method = page.method /\ v.first = page.first /\ v.started = page.started
      BY <1>0, Processed
    <2>2. page.method = "ws" => page' = v /\ posts' = posts
      BY <1>6 DEF ReceiveFromStream
    <2>3. page.method # "ws" => page' = CheckStarted(v) /\ posts' = posts \cup PostOfStart(v)
      BY <1>6 DEF ReceiveFromStream
    <2> HIDE DEF v
    <2>4. ~page.timer /\ page.pollers = 0 /\ Waited = {}
      BY <2>0
    <2>5. CASE page.method = "ws"
      BY <2>0, <2>1, <2>2, <2>4, <2>5
    <2>6. CASE page.method # "ws"
      <3>1. /\ page'.started
            /\ page'.pollers = v.pollers /\ page'.stream = v.stream /\ page'.method = v.method
            /\ page'.timer = v.timer
        BY <2>1, <2>3, <2>6, Starting
      <3>2. /\ ~v.started => v.senders = 0 /\ posts = {}
            /\ v.senders # 0 => v.senders = 1 /\ posts = {}
            /\ \A p, q \in posts : p = q
        BY <2>1, <2>4
      <3>3. /\ page'.senders # 0 => page'.senders = 1 /\ posts' = {}
            /\ \A p, q \in posts' : p = q
        BY <2>1, <2>3, <2>6, <3>2, StartedOnce
      <3>4. page'.method # "ws" /\ ~page'.timer /\ page'.pollers = 0 /\ wire' = <<>>
        BY <2>0, <2>1, <2>4, <2>6, <3>1
      <3> QED BY <2>0, <2>1, <2>4, <3>1, <3>3, <3>4
    <2> QED BY <2>5, <2>6
  <1>7. CASE StreamEnds
    <2>0. /\ page.stream # "none" /\ gets' = gets /\ wire' = <<>> /\ posts' = {} /\ Waited' = Waited
      BY <1>7 DEF StreamEnds, Waited
    <2>1. PICK downgrade \in {FALSE, page.reconnecting} :
                page' = [HandleDisconnect(page, downgrade) EXCEPT !.stream = "none"]
      BY <1>7 DEF StreamEnds
    <2> DEFINE w == HandleDisconnect(page, downgrade)
    <2>2. /\ w \in Page /\ w.timer
          /\ w.senders = page.senders /\ w.pollers = page.pollers /\ ~w.connected
          /\ page.first \/ page.method # "ws" => w.method # "ws"
      BY Losing DEF Reconnects
    <2>3. page' = [w EXCEPT !.stream = "none"]
      BY <2>1
    <2> HIDE DEF w
    <2>4. /\ page'.stream = "none" /\ page'.timer
          /\ page'.senders = page.senders /\ page'.pollers = page.pollers /\ ~page'.connected
          /\ page'.method = w.method
      BY <2>2, <2>3 DEF Page
    <2> QED BY <2>0, <2>2, <2>4
  <1>8. ASSUME NEW p \in posts, PostSucceeds(p) PROVE OneCarrier'
    <2>0. /\ posts' = {} /\ gets' = gets /\ wire' = wire /\ Waited' = Waited
          /\ page' = [page EXCEPT !.senders = @ + 1]
      BY <1>8 DEF PostSucceeds, Waited
    <2>1. /\ page'.timer = page.timer /\ page'.stream = page.stream /\ page'.pollers = page.pollers
          /\ page'.connected = page.connected /\ page'.senders = page.senders + 1
          /\ page'.started = page.started /\ page'.method = page.method /\ page'.queue = page.queue
      BY <1>0, <2>0 DEF Page
    <2>2. page.senders = 0 /\ page.started /\ page.method # "ws" /\ wire = <<>>
      OBVIOUS
    <2> QED BY <2>0, <2>1, <2>2
  <1>9. ASSUME NEW g \in gets, PollSucceeds(g) PROVE OneCarrier'
    <2> DEFINE v == ProcessMessage(page, g.msg)
    <2>0. /\ g \in Waited /\ gets' = gets \ {g} /\ wire' = wire
      BY <1>9 DEF PollSucceeds, Waited
    <2>1. /\ v \in Page /\ (v.timer => page.timer)
          /\ v.queue = page.queue /\ v.senders = page.senders /\ v.pollers = page.pollers /\ v.stream = page.stream
          /\ v.method = page.method /\ v.first = page.first /\ v.started = page.started
      BY <1>0, Processed
    <2>2. ~v.connected => page' = v /\ posts' = posts
      BY <1>9 DEF PollSucceeds
    <2>3. v.connected => /\ page' = [CheckStarted(v) EXCEPT !.pollers = @ + 1]
                         /\ posts' = posts \cup PostOfStart(v)
      BY <1>9 DEF PollSucceeds
    <2> HIDE DEF v
    <2>4. /\ ~page.timer /\ page.pollers = 0 /\ page.stream = "none" /\ page.method # "ws" /\ wire = <<>>
          /\ Waited' = {}
      <3>1. Waited' \subseteq Waited \ {g}
        BY <2>0 DEF Waited
      <3> QED BY <2>0, <3>1
    <2>5. CASE ~v.connected
      BY <2>0, <2>1, <2>2, <2>4, <2>5
    <2>6. CASE v.connected
      <3> DEFINE u == CheckStarted(v)
      <3>1. /\ u \in Page /\ u.started
            /\ u.pollers = v.pollers /\ u.stream = v.stream /\ u.method = v.method
            /\ u.timer = v.timer
        BY <2>1, Starting
      <3>2. /\ ~v.started => v.senders = 0 /\ posts = {}
            /\ v.senders # 0 => v.senders = 1 /\ posts = {}
            /\ \A p, q \in posts : p = q
        BY <2>1, <2>4
      <3>3. /\ u.senders # 0 => u.senders = 1 /\ posts' = {}
            /\ \A p, q \in posts' : p = q
        BY <2>1, <2>3, <2>6, <3>2, StartedOnce
      <3>4. page' = [u EXCEPT !.pollers = @ + 1]
        BY <2>3, <2>6
      <3> HIDE DEF u
      <3>5. /\ page'.started /\ page'.pollers = u.pollers + 1 /\ page'.stream = u.stream
            /\ page'.method = u.method /\ page'.timer = u.timer /\ page'.senders = u.senders
        BY <3>1, <3>4 DEF Page
      <3>6. /\ page'.pollers = 1 /\ page'.stream = "none" /\ page'.method # "ws" /\ ~page'.timer
        BY <2>1, <2>4, <3>1, <3>5
      <3> QED BY <2>0, <2>4, <3>3, <3>5, <3>6
    <2> QED BY <2>5, <2>6
  <1> QED BY <1>1, <1>2, <1>3, <1>4, <1>5, <1>6, <1>7, <1>8, <1>9 DEF PageStep

LEMMA CarrierFault ==
  ASSUME TypeOK, Reconnects, OneCarrier, Fault, ~disturbed'
  PROVE  OneCarrier'
  <1> USE DEF pageVars, netVars, serverVars, historyVars, boundVars, OneCarrier, OneLifeline, OneSender, SocketFirst
  <1>0. page \in Page /\ page.pollers \in Nat
    BY DEF TypeOK, Page
  <1>1. ASSUME NEW p \in posts, PostTimesOut(p) \/ PostFails(p) PROVE FALSE
    BY <1>1 DEF PostTimesOut, PostFails
  \* Giving up the poll the page waits for leaves it none.
  <1>2. ASSUME NEW g \in gets, g.waited, GiveUp(g) PROVE Waited' = {}
    <2>1. g \in Waited
      BY <1>2 DEF Waited
    <2>2. [g EXCEPT !.waited = FALSE].waited = FALSE
      BY DEF TypeOK, Get
    <2>3. Waited' \subseteq Waited \ {g}
      BY <1>2, <2>2 DEF GiveUp, Waited
    <2> QED BY <2>1, <2>3
  <1>3. ASSUME NEW g \in gets, PollTimesOut(g) PROVE OneCarrier'
    <2>0. /\ g \in Waited /\ Waited' = {} /\ posts' = posts /\ wire' = wire
          /\ page' = [page EXCEPT !.pollers = @ + 1]
      BY <1>2, <1>3 DEF PollTimesOut, Waited
    <2>1. ~page.timer /\ page.stream = "none" /\ page.pollers = 0 /\ page.method # "ws" /\ wire = <<>>
      BY <2>0
    <2>2. /\ page'.timer = page.timer /\ page'.stream = page.stream /\ page'.pollers = page.pollers + 1
          /\ page'.senders = page.senders /\ page'.started = page.started
          /\ page'.method = page.method
      BY <1>0, <2>0 DEF Page
    <2> QED BY <2>0, <2>1, <2>2
  <1>4. ASSUME NEW g \in gets, PollFails(g) PROVE OneCarrier'
    <2>0. g \in Waited /\ Waited' = {} /\ posts' = posts /\ posts = {} /\ wire' = wire
      BY <1>2, <1>4 DEF PollFails, Waited
    <2>1. PICK downgrade \in {FALSE, page.reconnecting} : page' = HandleDisconnect(page, downgrade)
      BY <1>4 DEF PollFails
    <2>2. page.stream = "none" /\ page.pollers = 0 /\ page.method # "ws" /\ wire = <<>>
      BY <2>0
    <2>3. /\ page'.timer /\ page'.senders = page.senders /\ page'.pollers = page.pollers
          /\ page'.stream = page.stream /\ page'.method # "ws" /\ ~page'.connected
      BY <2>1, <2>2, Losing DEF Reconnects
    <2> QED BY <2>0, <2>2, <2>3
  <1>5. CASE StreamBreaks
    <2>0. /\ page.stream # "none" /\ gets' = gets /\ wire' = <<>> /\ posts' = {} /\ posts = {} /\ Waited' = Waited
      BY <1>5 DEF StreamBreaks, Waited
    <2>1. PICK downgrade \in {FALSE, page.reconnecting} :
                page' = [HandleDisconnect(page, downgrade) EXCEPT !.stream = "none"]
      BY <1>5 DEF StreamBreaks
    <2> DEFINE w == HandleDisconnect(page, downgrade)
    <2>2. /\ w \in Page /\ w.timer
          /\ w.senders = page.senders /\ w.pollers = page.pollers /\ ~w.connected
          /\ page.first \/ page.method # "ws" => w.method # "ws"
      BY Losing DEF Reconnects
    <2>3. page' = [w EXCEPT !.stream = "none"]
      BY <2>1
    <2> HIDE DEF w
    <2>4. /\ page'.stream = "none" /\ page'.timer
          /\ page'.senders = page.senders /\ page'.pollers = page.pollers /\ ~page'.connected
          /\ page'.method = w.method
      BY <2>2, <2>3 DEF Page
    <2> QED BY <2>0, <2>2, <2>4
  <1>6. CASE SessionExpires
    BY <1>6 DEF SessionExpires, Waited
  <1> QED BY <1>1, <1>3, <1>4, <1>5, <1>6 DEF Fault

\* The server answers polls and takes messages: nothing the page waits for is
\* added.
LEMMA AnsweredPolls ==
  ASSUME NEW f, gets' \subseteq {f[g] : g \in gets}, \A g \in gets : f[g].waited => g.waited,
         \A g, h \in Waited : g = h
  PROVE  /\ \A g, h \in Waited' : g = h
         /\ Waited = {} => Waited' = {}
  <1>1. ASSUME NEW h \in Waited' PROVE \E g \in Waited : h = f[g]
    <2>1. PICK g \in gets : h = f[g]
      BY <1>1 DEF Waited
    <2>2. f[g].waited
      BY <1>1, <2>1 DEF Waited
    <2> QED BY <2>1, <2>2 DEF Waited
  <1> QED BY <1>1

LEMMA CarrierServer ==
  ASSUME TypeOK, OneCarrier, ServerStep \/ WriteToStream \/ OtherTab \/ UNCHANGED vars
  PROVE  OneCarrier'
  <1> USE DEF vars, pageVars, netVars, serverVars, historyVars, boundVars
  <1>c. OneLifeline /\ OneSender /\ SocketFirst /\ \A g, h \in Waited : g = h
    BY DEF OneCarrier, OneLifeline
  <1>t. gets \subseteq Get
    BY DEF TypeOK
  <1>1. ASSUME page' = page, gets' = gets, posts' = posts, wire' = wire PROVE OneCarrier'
    BY <1>1 DEF OneCarrier, OneLifeline, OneSender, SocketFirst, Waited
  <1>2. ASSUME page' = page, posts' = posts, wire' = wire,
               NEW f, gets' \subseteq {f[g] : g \in gets}, \A g \in gets : f[g].waited => g.waited
        PROVE  OneCarrier'
    <2>1. (\A g, h \in Waited' : g = h) /\ (Waited = {} => Waited' = {})
      BY <1>2, <1>c, AnsweredPolls
    <2> QED BY <1>2, <1>c, <2>1 DEF OneCarrier, OneLifeline, OneSender, SocketFirst
  <1> DEFINE ping == [g \in gets |-> IF g.phase = "held" THEN [g EXCEPT !.phase = "answered", !.msg = "data"] ELSE g]
  <1>3. Pinged \subseteq {ping[g] : g \in gets} /\ \A g \in gets : ping[g].waited = g.waited /\ (g.phase # "held" => ping[g] = g)
    BY <1>t DEF Pinged, Get
  <1>4. ASSUME NEW g \in gets, TestPoll(g) PROVE OneCarrier'
    <2>0. g.phase = "sent" /\ page' = page /\ posts' = posts /\ wire' = wire
      BY <1>4 DEF TestPoll
    <2>1. PICK polls \in {gets, Pinged} : gets' = (polls \ {g}) \cup {[g EXCEPT !.phase = "tested"]}
      BY <1>4 DEF TestPoll
    <2> DEFINE f == [h \in gets |-> IF h = g THEN [g EXCEPT !.phase = "tested"]
                                    ELSE IF polls = Pinged THEN ping[h] ELSE h]
    <2>2. \A h \in gets : f[h].waited => h.waited
      <3>1. [g EXCEPT !.phase = "tested"].waited = g.waited
        BY <1>t DEF Get
      <3> HIDE DEF ping
      <3> QED BY <1>3, <3>1
    <2>3. gets' \subseteq {f[h] : h \in gets}
      <3> HIDE DEF ping
      <3> SUFFICES ASSUME NEW k \in gets' PROVE \E h \in gets : k = f[h]
        OBVIOUS
      <3>1. CASE k = [g EXCEPT !.phase = "tested"]
        BY <3>1
      <3>2. CASE k \in polls /\ k # g /\ polls = Pinged
        <4>1. PICK h \in gets : k = ping[h]
          BY <1>3, <3>2
        <4>2. h # g
          BY <1>3, <2>0, <3>2, <4>1
        <4> QED BY <3>2, <4>1, <4>2
      <3>3. CASE k \in polls /\ k # g /\ polls # Pinged
        BY <3>3
      <3> QED BY <2>1, <3>1, <3>2, <3>3
    <2> HIDE DEF f
    <2> QED BY <1>2, <2>0, <2>2, <2>3
  <1>5. CASE TestStream
    <2>0. page' = page /\ posts' = posts /\ wire' = wire /\ gets' \in {gets, Pinged}
      BY <1>5 DEF TestStream
    <2>1. CASE gets' = gets
      BY <1>1, <2>0, <2>1
    <2>2. CASE gets' = Pinged
      <3> HIDE DEF ping
      <3> QED BY <1>2, <1>3, <2>0, <2>2
    <2> QED BY <2>0, <2>1, <2>2
  <1>6. ASSUME NEW g \in gets, AnswerHandshake(g) \/ AcquireForPoll(g) \/ AnswerPoll(g) \/ DropAnswer(g)
        PROVE  OneCarrier'
    <2>0. page' = page /\ posts' = posts /\ wire' = wire
      BY <1>6 DEF AnswerHandshake, AcquireForPoll, AnswerPoll, DropAnswer
    <2>1. \E k : gets' \subseteq (gets \ {g}) \cup {k} /\ (k.waited => g.waited)
      <3>1. \A c, a : [g EXCEPT !.phase = c].waited = g.waited /\ [g EXCEPT !.phase = c, !.msg = a].waited = g.waited
        BY <1>t DEF Get
      <3>2. CASE AnswerHandshake(g)
        <4>1. \E a : gets' = (gets \ {g}) \cup {[g EXCEPT !.phase = "answered", !.msg = a]}
          BY <3>2 DEF AnswerHandshake
        <4> QED BY <3>1, <4>1
      <3>3. CASE AcquireForPoll(g)
        <4>1. \E c : gets' = (gets \ {g}) \cup {[g EXCEPT !.phase = c]}
          BY <3>3 DEF AcquireForPoll
        <4> QED BY <3>1, <4>1
      <3>4. CASE AnswerPoll(g)
        <4>1. gets' \subseteq (gets \ {g}) \cup {[g EXCEPT !.phase = "answered", !.msg = "data"]}
          BY <3>4 DEF AnswerPoll
        <4> QED BY <3>1, <4>1
      <3>5. CASE DropAnswer(g)
        BY <3>5 DEF DropAnswer
      <3> QED BY <1>6, <3>2, <3>3, <3>4, <3>5
    <2>2. PICK k : gets' \subseteq (gets \ {g}) \cup {k} /\ (k.waited => g.waited)
      BY <2>1
    <2> DEFINE f == [h \in gets |-> IF h = g THEN k ELSE h]
    <2>3. gets' \subseteq {f[h] : h \in gets}
      BY <2>2
    <2>4. \A h \in gets : f[h].waited => h.waited
      BY <2>2
    <2> HIDE DEF f
    <2> QED BY <1>2, <2>0, <2>3, <2>4
  <1>7. CASE AdmitStream \/ CloseSilentStream \/ NoticeStaleStream \/ WriteToStream \/ OtherTab \/ UNCHANGED vars
    BY <1>1, <1>7 DEF AdmitStream, CloseSilentStream, NoticeStaleStream, WriteToStream, OtherTab
  <1>8. ASSUME NEW u \in User, CountUser(u) PROVE OneCarrier'
    BY <1>1, <1>8 DEF CountUser
  <1>9. ASSUME NEW p \in posts, HandlePost(p) PROVE OneCarrier'
    <2>1. page' = page /\ gets' = gets /\ wire' = wire /\ Waited' = Waited
      BY <1>9 DEF HandlePost, Waited
    <2>2. \E r : posts' \subseteq (posts \ {p}) \cup {r}
      <3> DEFINE q == [p EXCEPT !.todo = IF known THEN Tail(@) ELSE <<>>]
      <3>1. posts' = (posts \ {p}) \cup (IF q.todo = <<>> /\ ~p.waited THEN {} ELSE {q})
        BY <1>9 DEF HandlePost
      <3> HIDE DEF q
      <3> QED BY <3>1
    <2>3. \A q, r \in posts' : q = r
      BY <1>c, <2>2 DEF OneSender
    <2>4. page.started /\ page.senders = 0 /\ page.method # "ws" /\ wire = <<>>
      BY <1>c DEF OneSender, SocketFirst
    <2> QED BY <1>c, <2>1, <2>3, <2>4 DEF OneCarrier, OneLifeline, OneSender, SocketFirst
  <1>10. CASE HandleSocketMessage
    <2>1. page' = page /\ gets' = gets /\ posts' = posts /\ wire # <<>> /\ Waited' = Waited
      BY <1>10 DEF HandleSocketMessage, Waited
    <2> QED BY <1>c, <2>1 DEF OneCarrier, OneLifeline, OneSender, SocketFirst
  <1> HIDE DEF ping
  <1> QED BY <1>4, <1>5, <1>6, <1>7, <1>8, <1>9, <1>10 DEF ServerStep, PollHandler

-----------------------------------------------------------------------------
(* Until a POST is disturbed, messages keep their order *)

InOrder ==
    /\ Increasing(handled) /\ Increasing(wire) /\ Increasing(page.queue)
    /\ Before(Range(handled), Range(wire)) /\ Before(Range(handled), Range(page.queue))
    /\ Before(Range(wire), Range(page.queue))
    /\ \A p \in posts : /\ Increasing(p.todo) /\ Before(Range(handled), Range(p.todo))
                        /\ Before(Range(p.todo), Range(page.queue))

\* While one request carries messages, what is handled or goes one stage on
\* stays before what is behind it.
LEMMA InOrderNext ==
  ASSUME TypeOK, SentOnce, OneCarrier, InOrder, Moves, ~disturbed'
  PROVE  InOrder'
  <1> DEFINE q == page.queue
             q1 == page'.queue
  <1>n. /\ handled \in Seq(Nat) /\ wire \in Seq(Nat) /\ q \in Seq(Nat) /\ sent \in Nat
        /\ \A p \in posts : p.todo \in Seq(Nat)
    BY Numbers
  <1>e. Range(<<>>) = {} /\ Increasing(<<>>)
    BY NoMessages
  <1>b. \A M : Before(M, {}) /\ Before({}, M)
    BY DEF Before
  <1>s. \A L, M, N : /\ L \subseteq M /\ Before(M, N) => Before(L, N)
                     /\ L \subseteq M /\ Before(N, M) => Before(N, L)
                     /\ Before(L, N) /\ Before(M, N) => Before(L \cup M, N)
                     /\ Before(N, L) /\ Before(N, M) => Before(N, L \cup M)
    BY DEF Before
  <1>o. /\ Increasing(handled) /\ Increasing(wire) /\ Increasing(q)
        /\ Before(Range(handled), Range(wire)) /\ Before(Range(handled), Range(q))
        /\ Before(Range(wire), Range(q))
        /\ \A p \in posts : /\ Increasing(p.todo) /\ Before(Range(handled), Range(p.todo))
                            /\ Before(Range(p.todo), Range(q))
    BY DEF InOrder
  <1>l. /\ Range(handled) \subseteq 1..sent /\ Range(wire) \subseteq 1..sent /\ Range(q) \subseteq 1..sent
        /\ \A p \in posts : Range(p.todo) \subseteq 1..sent
    BY DEF SentOnce
  <1>c. /\ \A p, r \in posts : p = r
        /\ wire # <<>> => page.method = "ws" /\ page.stream = "open"
        /\ page.method = "ws" => posts = {}
        /\ page.method = "ws" /\ page.stream = "open" => q = <<>>
    BY DEF OneCarrier, OneSender, SocketFirst
  <1> SUFFICES
        /\ Increasing(handled') /\ Increasing(wire') /\ Increasing(q1)
        /\ Before(Range(handled'), Range(wire')) /\ Before(Range(handled'), Range(q1))
        /\ Before(Range(wire'), Range(q1))
        /\ \A p \in posts' : /\ Increasing(p.todo) /\ Before(Range(handled'), Range(p.todo))
                             /\ Before(Range(p.todo), Range(q1))
    BY DEF InOrder
  <1> HIDE DEF q, q1
  <1>1. CASE NothingMoves
    <2>1. /\ handled' = handled /\ q1 = q
          /\ wire' = wire \/ wire' = <<>>
      BY <1>1 DEF NothingMoves, q, q1
    <2>2. \A r \in posts' : \E p \in posts : r.todo = p.todo
      BY <1>1 DEF NothingMoves
    <2>3. \A r \in posts' : /\ Increasing(r.todo) /\ Before(Range(handled'), Range(r.todo))
                            /\ Before(Range(r.todo), Range(q1))
      BY <1>o, <2>1, <2>2
    <2> QED BY <1>b, <1>e, <1>o, <2>1, <2>3
  <1>2. CASE QueueIsPosted
    <2>1. handled' = handled /\ wire' = wire /\ q1 = <<>>
      BY <1>2 DEF QueueIsPosted, q1
    <2>2. PICK p \in Post : p.todo = q /\ posts' = posts \cup {p}
      BY <1>2 DEF QueueIsPosted, q
    <2> QED BY <1>b, <1>e, <1>o, <2>1, <2>2
  <1>3. CASE QueueIsWired
    <2>1. handled' = handled /\ posts' = posts /\ q1 = <<>> /\ wire' = wire \o q
      BY <1>3 DEF QueueIsWired, q, q1
    <2>2. Range(wire \o q) = Range(wire) \cup Range(q) /\ Increasing(wire \o q)
      BY <1>n, <1>o, OneAfterTheOther
    <2>3. Before(Range(handled), Range(wire) \cup Range(q))
      BY <1>o, <1>s
    <2> QED BY <1>b, <1>e, <1>o, <2>1, <2>2, <2>3
  <1>4. CASE WireIsPosted
    BY <1>4 DEF WireIsPosted
  <1>5. CASE SendMessage
    <2>0. handled' = handled /\ posts' = posts /\ sent + 1 \in Nat
      BY <1>5, <1>n DEF SendMessage, serverVars
    <2>m. \A M : M \subseteq 1..sent => Before(M, {sent + 1})
      BY <1>n DEF Before
    <2>n. /\ Before(Range(handled), {sent + 1}) /\ Before(Range(wire), {sent + 1}) /\ Before(Range(q), {sent + 1})
          /\ \A p \in posts : Before(Range(p.todo), {sent + 1})
      BY <1>l, <2>m
    <2>1. CASE page.method = "ws" /\ page.stream = "open"
      <3>1. wire' = Append(wire, sent + 1) /\ q1 = <<>> /\ q = <<>>
        BY <1>5, <1>c, <2>1 DEF SendMessage, q, q1
      <3>2. Range(wire') = Range(wire) \cup {sent + 1} /\ Increasing(wire')
        BY <1>n, <1>o, <2>0, <2>n, <3>1, OneMore
      <3>3. Before(Range(handled), Range(wire'))
        BY <1>o, <1>s, <2>n, <3>2
      <3> QED BY <1>b, <1>e, <1>o, <2>0, <3>1, <3>2, <3>3
    <2>2. CASE ~(page.method = "ws" /\ page.stream = "open")
      <3>1. wire' = wire /\ q1 = Append(q, sent + 1)
        <4>1. page \in Page /\ wire' = wire /\ page' = [page EXCEPT !.queue = Append(@, sent + 1)]
          BY <1>5, <2>2 DEF SendMessage, TypeOK
        <4> QED BY <4>1 DEF Page, q, q1
      <3>2. Range(q1) = Range(q) \cup {sent + 1} /\ Increasing(q1)
        BY <1>n, <1>o, <2>0, <2>n, <3>1, OneMore
      <3>3. /\ Before(Range(handled), Range(q1)) /\ Before(Range(wire), Range(q1))
            /\ \A p \in posts : Before(Range(p.todo), Range(q1))
        BY <1>o, <1>s, <2>n, <3>2
      <3> QED BY <1>o, <2>0, <3>1, <3>2, <3>3
    <2> QED BY <2>1, <2>2
  <1>6. CASE \E p \in posts : PostIsHandled(p)
    <2>0. PICK p \in posts : PostIsHandled(p)
      BY <1>6
    <2>1. /\ wire' = wire /\ q1 = q /\ p.todo # <<>>
          /\ handled' = handled \/ handled' = Append(handled, Head(p.todo))
      BY <2>0 DEF PostIsHandled, q, q1
    <2>2. PICK r \in Post : /\ r.todo = Tail(p.todo) \/ r.todo = <<>>
                            /\ posts' \subseteq (posts \ {p}) \cup {r}
      BY <2>0 DEF PostIsHandled
    <2>3. /\ posts' \subseteq {r} /\ wire = <<>>
      BY <1>c, <2>2
    <2>4. /\ Head(p.todo) \in Nat /\ Range(p.todo) = {Head(p.todo)} \cup Range(Tail(p.todo))
          /\ Increasing(Tail(p.todo)) /\ Before({Head(p.todo)}, Range(Tail(p.todo)))
      BY <1>n, <1>o, <2>1, OneLess
    <2>5. /\ Before(Range(handled), {Head(p.todo)}) /\ Before(Range(handled), Range(Tail(p.todo)))
          /\ Before({Head(p.todo)}, Range(q)) /\ Before(Range(Tail(p.todo)), Range(q))
      <3>1. {Head(p.todo)} \subseteq Range(p.todo) /\ Range(Tail(p.todo)) \subseteq Range(p.todo)
        BY <2>4
      <3>2. Before(Range(handled), Range(p.todo)) /\ Before(Range(p.todo), Range(q))
        BY <1>o
      <3> QED BY <1>s, <3>1, <3>2
    <2>6. /\ Range(Append(handled, Head(p.todo))) = Range(handled) \cup {Head(p.todo)}
          /\ Increasing(Append(handled, Head(p.todo)))
      BY <1>n, <1>o, <2>4, <2>5, OneMore
    <2>7. /\ Increasing(handled')
          /\ Before(Range(handled'), Range(q)) /\ Before(Range(handled'), Range(Tail(p.todo)))
      <3>1. Before(Range(handled), Range(q))
        BY <1>o
      <3>2. /\ Before(Range(handled) \cup {Head(p.todo)}, Range(q))
            /\ Before(Range(handled) \cup {Head(p.todo)}, Range(Tail(p.todo)))
        BY <1>s, <2>4, <2>5, <3>1
      <3>3. CASE handled' = handled
        BY <1>o, <2>5, <3>1, <3>3
      <3>4. CASE handled' = Append(handled, Head(p.todo))
        BY <2>6, <3>2, <3>4
      <3> QED BY <2>1, <3>3, <3>4
    <2>8. Increasing(r.todo) /\ Before(Range(handled'), Range(r.todo)) /\ Before(Range(r.todo), Range(q))
      BY <1>b, <1>e, <2>2, <2>4, <2>5, <2>7
    <2> QED BY <1>b, <1>e, <1>o, <2>1, <2>3, <2>7, <2>8
  <1>7. CASE WireIsHandled
    <2>1. /\ posts' = posts /\ q1 = q /\ wire # <<>> /\ wire' = Tail(wire)
          /\ handled' = handled \/ handled' = Append(handled, Head(wire))
      BY <1>7 DEF WireIsHandled, q, q1
    <2>2. posts' = {}
      BY <1>c, <2>1
    <2>4. /\ Head(wire) \in Nat /\ Range(wire) = {Head(wire)} \cup Range(Tail(wire))
          /\ Increasing(Tail(wire)) /\ Before({Head(wire)}, Range(Tail(wire)))
      BY <1>n, <1>o, <2>1, OneLess
    <2>5. /\ Before(Range(handled), {Head(wire)}) /\ Before(Range(handled), Range(Tail(wire)))
          /\ Before({Head(wire)}, Range(q)) /\ Before(Range(Tail(wire)), Range(q))
      <3>1. {Head(wire)} \subseteq Range(wire) /\ Range(Tail(wire)) \subseteq Range(wire)
        BY <2>4
      <3> QED BY <1>o, <1>s, <3>1
    <2>6. /\ Range(Append(handled, Head(wire))) = Range(handled) \cup {Head(wire)}
          /\ Increasing(Append(handled, Head(wire)))
      BY <1>n, <1>o, <2>4, <2>5, OneMore
    <2>7. /\ Increasing(handled')
          /\ Before(Range(handled'), Range(q)) /\ Before(Range(handled'), Range(Tail(wire)))
      <3>1. Before(Range(handled), Range(q))
        BY <1>o
      <3>2. /\ Before(Range(handled) \cup {Head(wire)}, Range(q))
            /\ Before(Range(handled) \cup {Head(wire)}, Range(Tail(wire)))
        BY <1>s, <2>4, <2>5, <3>1
      <3>3. CASE handled' = handled
        BY <1>o, <2>5, <3>1, <3>3
      <3>4. CASE handled' = Append(handled, Head(wire))
        BY <2>6, <3>2, <3>4
      <3> QED BY <2>1, <3>3, <3>4
    <2> QED BY <1>o, <2>1, <2>2, <2>4, <2>5, <2>7
  <1> QED BY <1>1, <1>2, <1>3, <1>4, <1>5, <1>6, <1>7 DEF Moves

Inv ==
    /\ TypeOK /\ Reconnects /\ SentOnce
    /\ ~disturbed => OneCarrier /\ InOrder

LEMMA InvInit == Init => Inv
  <1> SUFFICES ASSUME Init PROVE Inv
    OBVIOUS
  <1>1. TypeOK
    BY TypeInit
  <1>2. /\ handled = <<>> /\ wire = <<>> /\ page.queue = <<>> /\ posts = {} /\ gets = {}
        /\ ~page.connected /\ page.first /\ page.stream = "none" /\ page.senders = 0 /\ page.pollers = 0
    BY DEF Init
  <1>3. Range(<<>>) = {} /\ IsInjective(<<>>) /\ Increasing(<<>>)
    BY NoMessages
  <1>4. SentOnce
    BY <1>2, <1>3 DEF SentOnce
  <1>5. InOrder
    BY <1>2, <1>3 DEF InOrder, Before
  <1>6. OneCarrier /\ Reconnects
    BY <1>2 DEF OneCarrier, OneLifeline, OneSender, SocketFirst, Waited, Reconnects
  <1> QED BY <1>1, <1>4, <1>5, <1>6 DEF Inv

LEMMA InvNext == Inv /\ [Next]_vars => Inv'
  <1> SUFFICES ASSUME Inv, [Next]_vars PROVE Inv'
    OBVIOUS
  <1>1. TypeOK /\ Reconnects /\ SentOnce
    BY DEF Inv
  <1>2. TypeOK'
    BY <1>1, TypeNext
  <1>3. Reconnects'
    BY <1>1, ReconnectsNext
  <1>4. Moves
    BY <1>1, PageMoves, OtherMoves DEF Next
  <1>5. SentOnce'
    BY <1>1, <1>4, SentOnceNext
  <1>6. ASSUME ~disturbed' PROVE ~disturbed
    <2> USE DEF vars, pageVars, netVars, serverVars, historyVars, boundVars
    <2>1. CASE PageStep
      BY <1>6, <2>1 DEF PageStep, Connect, SendInputEvents, ReceiveOutputMessages, StreamOpens, ReceiveFromStream,
                        StreamEnds, PostSucceeds, PollSucceeds
    <2>2. CASE Fault
      BY <1>6, <2>2 DEF Fault, PostTimesOut, PostFails, PollTimesOut, PollFails, StreamBreaks, SessionExpires
    <2>3. CASE ServerStep
      BY <1>6, <2>3 DEF ServerStep, PollHandler, TestPoll, AnswerHandshake, AcquireForPoll, AnswerPoll, DropAnswer,
                   TestStream, AdmitStream, CloseSilentStream, NoticeStaleStream, CountUser, HandlePost,
                   HandleSocketMessage
    <2>4. CASE WriteToStream \/ SendMessage \/ OtherTab \/ UNCHANGED vars
      BY <1>6, <2>4 DEF WriteToStream, SendMessage, OtherTab
    <2> QED BY <2>1, <2>2, <2>3, <2>4 DEF Next
  <1>7. ASSUME ~disturbed' PROVE OneCarrier' /\ InOrder'
    <2>1. OneCarrier /\ InOrder
      BY <1>6, <1>7 DEF Inv
    <2>2. OneCarrier'
      BY <1>1, <1>7, <2>1, CarrierPage, CarrierFault, CarrierServer DEF Next
    <2>3. InOrder'
      BY <1>1, <1>4, <1>7, <2>1, InOrderNext
    <2> QED BY <2>2, <2>3
  <1> QED BY <1>2, <1>3, <1>5, <1>7 DEF Inv

\* The handlers of a session are given no message of the page twice, and get
\* them in the order they were sent in unless a POST was abandoned or was under
\* way when the page lost its connection (HandledOnceInOrder): whatever the
\* number of messages, of requests under way and of faults, and whichever
\* method the page starts with.  Messages go from inputEvents through
\* _longPollingSendInputEvents or the web socket of src/src/js/Viridity.js to
\* InputPostHandler::handleRequestEnd and clientMessageReceived.
THEOREM MessagesAreHandledOnceInOrder == Spec => []HandledOnceInOrder
  <1>1. Inv => HandledOnceInOrder
    <2> SUFFICES ASSUME Inv, NEW i \in 1..Len(handled), NEW j \in 1..Len(handled), i < j
                 PROVE  handled[i] # handled[j] /\ (~disturbed => handled[i] < handled[j])
      BY DEF HandledOnceInOrder
    <2>1. handled \in Seq(Nat)
      BY Numbers DEF Inv
    <2>2. DOMAIN handled = 1..Len(handled) /\ Len(handled) \in Nat
      BY <2>1, LenProperties
    <2>3. IsInjective(handled) /\ (~disturbed => Increasing(handled))
      BY DEF Inv, SentOnce, InOrder
    <2>4. i # j
      BY <2>2
    <2> QED BY <2>2, <2>3, <2>4 DEF IsInjective, Increasing
  <1> QED BY <1>1, InvInit, InvNext, PTL DEF Spec
=============================================================================
