--------------------------- MODULE SessionsProofs ---------------------------
(***************************************************************************)
(* Proofs about Sessions, for every number of sessions, handlers, threads   *)
(* and posted events.  Where a handler serves one session only (~Reused),   *)
(* the inductive invariant describes the events in flight between a handler *)
(* and a session: they alternate, start with what the use count lacks and   *)
(* end with what the handler last did.                                      *)
(***************************************************************************)
EXTENDS Sessions, FiniteSetTheorems, SequenceTheorems, TLAPS

(* The positions of a handler's events in a queue. *)
At(q, u) == {i \in 1..Len(q) : q[i].by = u}

(* The events of u in q fit to u being counted (c) and holding (h). *)
Fits(q, u, c, h) ==
    /\ At(q, u) = {} => (c <=> h)
    /\ \A i \in At(q, u) :
         /\ (\A k \in At(q, u) : i <= k) => (q[i].op = "decrement" <=> c)
         /\ (\A k \in At(q, u) : k <= i) => (q[i].op = "increment" <=> h)
         /\ \A j \in At(q, u) :
              (i < j /\ \A k \in At(q, u) : k <= i \/ j <= k) => q[i].op # q[j].op

-----------------------------------------------------------------------------
(* Queues: what posting and delivering an event do to the events of u. *)

(* The events of a handler are increments and decrements. *)
LEMMA EventOps ==
    ASSUME NEW q \in Seq(Event), NEW u \in User, NEW i \in At(q, u)
    PROVE  q[i].op \in {"increment", "decrement"}
<1>1. q[i] \in Event
  BY ElementOfSeq DEF At
<1>2. q[i].by # NULL
  BY NullAssumption DEF At
<1> QED BY <1>1, <1>2 DEF Event

(* Posting an event of someone else leaves the events of u alone. *)
LEMMA AppendOther ==
    ASSUME NEW q \in Seq(Event), NEW e \in Event, NEW u, e.by # u
    PROVE  /\ At(Append(q, e), u) = At(q, u)
           /\ \A i \in At(q, u) : Append(q, e)[i] = q[i]
<1>1. /\ Len(Append(q, e)) = Len(q) + 1
      /\ \A i \in 1..Len(q) : Append(q, e)[i] = q[i]
      /\ Append(q, e)[Len(q) + 1] = e
      /\ Len(q) \in Nat
  BY AppendProperties, LenProperties
<1> QED BY <1>1 DEF At

\* An event of another handler in the queue does not disturb this one.
LEMMA FitsAppendOther ==
    ASSUME NEW q \in Seq(Event), NEW e \in Event, NEW u, e.by # u,
           NEW c, NEW h, Fits(q, u, c, h)
    PROVE  Fits(Append(q, e), u, c, h)
<1> DEFINE r == Append(q, e)
<1>1. /\ At(r, u) = At(q, u)
      /\ \A i \in At(q, u) : r[i] = q[i]
  BY AppendOther
<1> HIDE DEF r
<1>2. Fits(r, u, c, h)
  BY <1>1 DEF Fits
<1> QED BY <1>2 DEF r

(* Posting the event of u that its holding the session calls for. *)
LEMMA FitsAppendOwn ==
    ASSUME NEW q \in Seq(Event), NEW e \in Event, NEW u \in User, e.by = u,
           NEW c \in BOOLEAN, NEW h \in BOOLEAN, Fits(q, u, c, h),
           e.op = IF h THEN "decrement" ELSE "increment"
    PROVE  Fits(Append(q, e), u, c, ~h)
<1> DEFINE r == Append(q, e)
           n == Len(q) + 1
<1>1. /\ Len(r) = n
      /\ \A i \in 1..Len(q) : r[i] = q[i]
      /\ r[n] = e
      /\ Len(q) \in Nat
  BY AppendProperties, LenProperties
<1>2. At(r, u) = At(q, u) \cup {n}
  BY <1>1 DEF At
<1>3. /\ At(q, u) \subseteq 1..Len(q)
      /\ \A i \in At(q, u) : r[i] = q[i] /\ i < n /\ i \in Nat
  BY <1>1 DEF At
<1>4. \A i \in At(q, u) : q[i].op \in {"increment", "decrement"}
  BY EventOps
<1> HIDE DEF r, n
<1>5. ASSUME NEW i \in At(r, u), \A k \in At(r, u) : i <= k
      PROVE  r[i].op = "decrement" <=> c
  <2>1. CASE At(q, u) = {}
    BY <1>1, <1>2, <1>5, <2>1 DEF Fits
  <2>2. CASE At(q, u) # {}
    <3>1. i \in At(q, u)
      BY <1>1, <1>2, <1>3, <1>5, <2>2 DEF n
    <3> QED BY <1>2, <1>3, <1>5, <3>1 DEF Fits
  <2> QED BY <2>1, <2>2
<1>6. ASSUME NEW i \in At(r, u), \A k \in At(r, u) : k <= i
      PROVE  r[i].op = "increment" <=> ~h
  <2>1. i = n
    BY <1>1, <1>2, <1>3, <1>6 DEF n
  <2> QED BY <1>1, <2>1
<1>7. ASSUME NEW i \in At(r, u), NEW j \in At(r, u), i < j,
             \A k \in At(r, u) : k <= i \/ j <= k
      PROVE  r[i].op # r[j].op
  <2>1. i \in At(q, u)
    BY <1>1, <1>2, <1>3, <1>7 DEF n
  <2>2. CASE j \in At(q, u)
    BY <1>2, <1>3, <1>7, <2>1, <2>2 DEF Fits
  <2>3. CASE j = n
    <3>1. \A k \in At(q, u) : k <= i
      BY <1>1, <1>2, <1>3, <1>7, <2>3 DEF n
    <3>2. q[i].op = "increment" <=> h
      BY <2>1, <3>1 DEF Fits
    <3> QED BY <1>1, <1>3, <1>4, <2>1, <2>3, <3>2
  <2> QED BY <1>2, <2>2, <2>3
<1>8. At(r, u) # {}
  BY <1>2
<1>9. Fits(r, u, c, ~h)
  BY <1>5, <1>6, <1>7, <1>8 DEF Fits
<1> QED BY <1>9 DEF r

(* Delivering the head: what remains is shifted by one. *)
LEMMA TailPositions ==
    ASSUME NEW q \in Seq(Event), q # <<>>, NEW u
    PROVE  /\ \A i \in At(Tail(q), u) : i + 1 \in At(q, u) /\ Tail(q)[i] = q[i + 1]
           /\ \A i \in At(q, u) : i # 1 => i - 1 \in At(Tail(q), u)
           /\ At(q, u) \subseteq Nat \ {0}
           /\ At(Tail(q), u) \subseteq Nat \ {0}
           /\ 1 \in At(q, u) <=> Head(q).by = u
           /\ Head(q) = q[1]
<1>1. /\ Len(Tail(q)) = Len(q) - 1
      /\ \A i \in 1..Len(Tail(q)) : Tail(q)[i] = q[i + 1]
      /\ Len(q) \in Nat /\ Len(q) # 0
      /\ Head(q) = q[1]
  BY HeadTailProperties, LenProperties, EmptySeq
<1> QED BY <1>1 DEF At

\* Nor does executing another handler's event.
LEMMA FitsTailOther ==
    ASSUME NEW q \in Seq(Event), q # <<>>, NEW u, Head(q).by # u,
           NEW c, NEW h, Fits(q, u, c, h)
    PROVE  Fits(Tail(q), u, c, h)
<1> DEFINE r == Tail(q)
<1>0. /\ \A i \in At(r, u) : i + 1 \in At(q, u) /\ r[i] = q[i + 1]
      /\ \A i \in At(q, u) : i # 1 => i - 1 \in At(r, u)
      /\ At(q, u) \subseteq Nat \ {0}
      /\ At(r, u) \subseteq Nat \ {0}
      /\ 1 \notin At(q, u)
  BY TailPositions
<1>1. /\ \A i \in At(r, u) : i + 1 \in At(q, u) /\ r[i] = q[i + 1]
      /\ \A i \in At(q, u) : i - 1 \in At(r, u)
      /\ At(q, u) \subseteq Nat \ {0}
      /\ At(r, u) \subseteq Nat \ {0}
  BY <1>0
<1> HIDE DEF r
<1>2. At(r, u) = {} => (c <=> h)
  BY <1>1 DEF Fits
<1>3. ASSUME NEW i \in At(r, u)
      PROVE  /\ (\A k \in At(r, u) : i <= k) => (r[i].op = "decrement" <=> c)
             /\ (\A k \in At(r, u) : k <= i) => (r[i].op = "increment" <=> h)
  <2>1. (\A k \in At(r, u) : i <= k) => \A k \in At(q, u) : i + 1 <= k
    BY <1>1
  <2>2. (\A k \in At(r, u) : k <= i) => \A k \in At(q, u) : k <= i + 1
    BY <1>1
  <2> QED BY <1>1, <2>1, <2>2 DEF Fits
<1>4. ASSUME NEW i \in At(r, u), NEW j \in At(r, u), i < j,
             \A k \in At(r, u) : k <= i \/ j <= k
      PROVE  r[i].op # r[j].op
  <2>1. ASSUME NEW k \in At(q, u)
        PROVE  k <= i + 1 \/ j + 1 <= k
    <3>1. k - 1 <= i \/ j <= k - 1
      BY <1>1, <1>4
    <3>2. k \in Nat /\ i \in Nat /\ j \in Nat
      BY <1>1
    <3> QED BY <3>1, <3>2
  <2>2. i + 1 < j + 1 /\ i + 1 \in At(q, u) /\ j + 1 \in At(q, u)
    BY <1>1, <1>4
  <2>3. q[i + 1].op # q[j + 1].op
    BY <2>1, <2>2 DEF Fits
  <2> QED BY <1>1, <2>3
<1>5. Fits(r, u, c, h)
  BY <1>2, <1>3, <1>4 DEF Fits
<1> QED BY <1>5 DEF r

(* Delivering an event of u: it is the one its being counted calls for, and
   from then on u is counted if and only if it was not. *)
LEMMA FitsTailOwn ==
    ASSUME NEW q \in Seq(Event), q # <<>>, NEW u \in User, Head(q).by = u,
           NEW c \in BOOLEAN, NEW h \in BOOLEAN, Fits(q, u, c, h)
    PROVE  /\ Fits(Tail(q), u, ~c, h)
           /\ Head(q).op = "decrement" <=> c
           /\ Head(q).op = "increment" <=> ~c
<1> DEFINE r == Tail(q)
<1>1. /\ \A i \in At(r, u) : i + 1 \in At(q, u) /\ r[i] = q[i + 1]
      /\ \A i \in At(q, u) : i # 1 => i - 1 \in At(r, u)
      /\ At(q, u) \subseteq Nat \ {0}
      /\ At(r, u) \subseteq Nat \ {0}
      /\ 1 \in At(q, u)
      /\ Head(q) = q[1]
  BY TailPositions
<1>2. \A i \in At(q, u) : q[i].op \in {"increment", "decrement"}
  BY EventOps
<1> HIDE DEF r
<1>3. q[1].op = "decrement" <=> c
  BY <1>1 DEF Fits
<1>4. q[1].op = "increment" <=> ~c
  BY <1>1, <1>2, <1>3
<1>5. At(r, u) = {} => (~c <=> h)
  <2>1. At(r, u) = {} => \A k \in At(q, u) : k <= 1
    BY <1>1
  <2>2. At(r, u) = {} => (q[1].op = "increment" <=> h)
    BY <1>1, <2>1 DEF Fits
  <2> QED BY <1>4, <2>2
<1>6. ASSUME NEW i \in At(r, u), \A k \in At(r, u) : i <= k
      PROVE  r[i].op = "decrement" <=> ~c
  <2>1. ASSUME NEW k \in At(q, u)
        PROVE  k <= 1 \/ i + 1 <= k
    <3>1. k \in Nat \ {0} /\ i \in Nat
      BY <1>1
    <3>2. k # 1 => i <= k - 1
      BY <1>1, <1>6
    <3> QED BY <3>1, <3>2
  <2>2. 1 < i + 1 /\ i + 1 \in At(q, u)
    BY <1>1
  <2>3. q[1].op # q[i + 1].op
    BY <1>1, <2>1, <2>2 DEF Fits
  <2> QED BY <1>1, <1>2, <1>3, <2>2, <2>3
<1>7. ASSUME NEW i \in At(r, u), \A k \in At(r, u) : k <= i
      PROVE  r[i].op = "increment" <=> h
  <2>1. \A k \in At(q, u) : k <= i + 1
    BY <1>1, <1>7
  <2> QED BY <1>1, <2>1 DEF Fits
<1>8. ASSUME NEW i \in At(r, u), NEW j \in At(r, u), i < j,
             \A k \in At(r, u) : k <= i \/ j <= k
      PROVE  r[i].op # r[j].op
  <2>1. ASSUME NEW k \in At(q, u)
        PROVE  k <= i + 1 \/ j + 1 <= k
    <3>1. k \in Nat \ {0} /\ i \in Nat /\ j \in Nat
      BY <1>1
    <3>2. k # 1 => k - 1 <= i \/ j <= k - 1
      BY <1>1, <1>8
    <3> QED BY <3>1, <3>2
  <2>2. i + 1 < j + 1 /\ i + 1 \in At(q, u) /\ j + 1 \in At(q, u)
    BY <1>1, <1>8
  <2>3. q[i + 1].op # q[j + 1].op
    BY <2>1, <2>2 DEF Fits
  <2> QED BY <1>1, <2>3
<1>9. Fits(r, u, ~c, h)
  BY <1>5, <1>6, <1>7, <1>8 DEF Fits
<1> QED BY <1>1, <1>3, <1>4, <1>9 DEF r

-----------------------------------------------------------------------------
(* Type correctness, whatever Reused is. *)

(* What a handler is in the middle of has a session to be about. *)
StepOK ==
    \A u \in User :
        /\ step[u] = "new" => seen[u] \in Session
        /\ step[u] = "grace" => Target(u) \in Session
        /\ step[u] = "up" => seen[u] \in Session /\ tests[u] < 2
        /\ step[u] = "down" => seen[u] \in Session /\ tests[u] > 0

\* The initial state is well typed.
LEMMA TypeInit == Init => TypeOK /\ StepOK
BY EmptySeq DEF Init, TypeOK, Life, StepOK

(* Posting and consuming keep every queue a sequence of events. *)
LEMMA PostType ==
    ASSUME TypeOK, NEW s \in Session, NEW e \in Event
    PROVE  [posted EXCEPT ![s] = Append(@, e)] \in [Session -> Seq(Event)]
<1>1. Append(posted[s], e) \in Seq(Event)
  BY AppendProperties DEF TypeOK
<1> QED BY <1>1 DEF TypeOK

\* Taking an event from a queue keeps the types.
LEMMA ConsumeType ==
    ASSUME TypeOK, NEW s \in Session, posted[s] # <<>>
    PROVE  [posted EXCEPT ![s] = Tail(@)] \in [Session -> Seq(Event)]
<1>1. Tail(posted[s]) \in Seq(Event)
  BY HeadTailProperties DEF TypeOK
<1> QED BY <1>1 DEF TypeOK

\* So does posting a deletion.
LEMMA DeletionType ==
    ASSUME TypeOK, NEW gone
    PROVE  PostedDeletion(gone) \in [Session -> Seq(Event)]
<1> DEFINE e == [op |-> "deleteLater", by |-> NULL]
<1>1. e \in Event
  BY DEF Event
<1>2. \A s \in Session : Append(posted[s], e) \in Seq(Event)
  BY <1>1, AppendProperties DEF TypeOK
<1> QED BY <1>2 DEF TypeOK, PostedDeletion

(* The head of a queue that delivers a use count event. *)
LEMMA HeadType ==
    ASSUME TypeOK, NEW s \in Session, NEW op, Delivers(s, op)
    PROVE  /\ posted[s] \in Seq(Event) /\ posted[s] # <<>>
           /\ Head(posted[s]) \in Event
           /\ op \in {"increment", "decrement"} => Head(posted[s]).by \in User
<1>1. posted[s] \in Seq(Event) /\ posted[s] # <<>>
  BY DEF TypeOK, Delivers
<1>2. Head(posted[s]) \in Event
  BY <1>1, HeadTailProperties
<1> QED BY <1>1, <1>2 DEF Event, Delivers

\* Every step keeps the types.
LEMMA TypeStep ==
    ASSUME TypeOK, StepOK, [Next]_vars
    PROVE  TypeOK'
<1> USE DEF Life
<1>1. ASSUME NEW u \in User, NEW s \in Session, CreateSession(u, s)
      PROVE  TypeOK'
  <2>1. posted' \in [Session -> Seq(Event)]
    BY <1>1, DeletionType DEF CreateSession, Sweep, TypeOK
  <2>2. object' \in [Session -> Life]
    <3>1. Removed(Doomed, "disposed") \in [Session -> Life] /\ object \in [Session -> Life]
      BY DEF Removed, TypeOK
    <3> QED BY <1>1, <3>1 DEF CreateSession
  <2>3. grace' \subseteq Session
    BY <1>1 DEF CreateSession, Sweep, TypeOK
  <2>4. sweeps' \in [User -> 0..2]
    <3>1. SweepCounted \in [User -> 0..2]
      BY DEF SweepCounted, TypeOK
    <3>2. \/ sweeps' = [SweepCounted EXCEPT ![u] = 0]
          \/ sweeps' = [sweeps EXCEPT ![u] = 0]
      BY <1>1 DEF CreateSession
    <3>3. \A f \in [User -> 0..2] : [f EXCEPT ![u] = 0] \in [User -> 0..2]
      OBVIOUS
    <3>4. sweeps \in [User -> 0..2]
      BY DEF TypeOK
    <3> HIDE DEF SweepCounted
    <3> QED BY <3>1, <3>2, <3>3, <3>4
  <2> QED BY <1>1, <2>1, <2>2, <2>3, <2>4 DEF CreateSession, TypeOK
<1>2. ASSUME NEW u \in User, NEW s \in Session, GetSession(u, s)
      PROVE  TypeOK'
  BY <1>2 DEF GetSession, sessionVars, TypeOK
<1>3. ASSUME NEW u \in User, RegisterNewSession(u)
      PROVE  TypeOK'
  <2>1. [op |-> "increment", by |-> u] \in Event
    BY DEF Event
  <2>2. posted' \in [Session -> Seq(Event)]
    BY <1>3, <2>1, PostType DEF RegisterNewSession, Post, StepOK
  <2> QED BY <1>3, <2>2 DEF RegisterNewSession, TypeOK, StepOK
<1>4. ASSUME NEW u \in User, AcquireSession(u)
      PROVE  TypeOK'
  <2>1. [op |-> "increment", by |-> u] \in Event
    BY DEF Event
  <2>2. seen[u] \in Session
    BY <1>4 DEF AcquireSession, Managed
  <2>3. posted' \in [Session -> Seq(Event)]
    BY <1>4, <2>1, <2>2, PostType DEF AcquireSession, Post
  <2> QED BY <1>4, <2>2, <2>3 DEF AcquireSession, TypeOK
<1>5. ASSUME NEW u \in User, InsertGrace(u)
      PROVE  TypeOK'
  BY <1>5 DEF InsertGrace, TypeOK, StepOK
<1>6. ASSUME NEW u \in User, ReleaseSession(u)
      PROVE  TypeOK'
  <2>1. [op |-> "decrement", by |-> u] \in Event
    BY DEF Event
  <2>2. held[u] \in Session
    BY <1>6 DEF ReleaseSession, TypeOK
  <2>3. posted' \in [Session -> Seq(Event)]
    BY <1>6, <2>1, <2>2, PostType DEF ReleaseSession, Post
  <2> QED BY <1>6, <2>3 DEF ReleaseSession, TypeOK
<1>7. ASSUME NEW u \in User, ForgetSession(u)
      PROVE  TypeOK'
  BY <1>7 DEF ForgetSession, sessionVars, TypeOK
<1>8. ASSUME NEW u \in User, DispatchMessageToHandlers(u)
      PROVE  TypeOK'
  <2>1. [op |-> "message", by |-> NULL, caller |-> u] \in Event
    BY DEF Event
  <2>2. Target(u) \in Session
    BY <1>8 DEF DispatchMessageToHandlers, Managed
  <2>3. posted' \in [Session -> Seq(Event)]
    BY <1>8, <2>1, <2>2, PostType DEF DispatchMessageToHandlers
  <2> QED BY <1>8, <2>3 DEF DispatchMessageToHandlers, TypeOK
<1>9. ASSUME NEW u \in User, NEW d \in {"up", "down"}, LoadTestingState(u, d)
      PROVE  TypeOK'
  <2>1. testingState[seen[u]] \in Int
    BY <1>9 DEF LoadTestingState, TypeOK
  <2> QED BY <1>9, <2>1 DEF LoadTestingState, sessionVars, TypeOK
<1>10. ASSUME NEW u \in User, StoreTestingState(u)
       PROVE  TypeOK'
  <2> DEFINE delta == IF step[u] = "up" THEN 1 ELSE -1
  <2>0. tests[u] \in 0..2 /\ loaded[u] \in Int
    BY DEF TypeOK
  <2>1. tests[u] + delta \in 0..2 /\ loaded[u] + delta \in Int
    <3>1. CASE step[u] = "up"
      BY <2>0, <3>1 DEF StepOK
    <3>2. CASE step[u] = "down"
      BY <2>0, <3>2 DEF StepOK
    <3> QED BY <1>10, <3>1, <3>2 DEF StoreTestingState
  <2>2. /\ testingState' = [testingState EXCEPT ![seen[u]] = loaded[u] + delta]
        /\ tests' = [tests EXCEPT ![u] = tests[u] + delta]
    BY <1>10 DEF StoreTestingState
  <2> HIDE DEF delta
  <2>3. testingState' \in [Session -> Int] /\ tests' \in [User -> 0..2]
    BY <2>1, <2>2 DEF TypeOK
  <2> QED BY <1>10, <2>3 DEF StoreTestingState, TypeOK
<1>11. ASSUME NEW s \in Session, IncrementUseCount(s)
       PROVE  TypeOK'
  <2>1. posted' \in [Session -> Seq(Event)]
    BY <1>11, ConsumeType DEF IncrementUseCount, Delivers, Consume
  <2>2. Head(posted[s]).by \in User
    BY <1>11, HeadType DEF IncrementUseCount
  <2>3. (attached[s] \/ useCount[s] = 0) \in BOOLEAN
    OBVIOUS
  <2>4. attached' \in [Session -> BOOLEAN]
    BY <1>11, <2>3 DEF IncrementUseCount, TypeOK
  <2> QED BY <1>11, <2>1, <2>2, <2>4 DEF IncrementUseCount, userVars, TypeOK
<1>12. ASSUME NEW s \in Session, DecrementUseCount(s)
       PROVE  TypeOK'
  <2>1. posted' \in [Session -> Seq(Event)]
    BY <1>12, ConsumeType DEF DecrementUseCount, Delivers, Consume
  <2>2. useCount' \in [Session -> Int] /\ counted' \in [Session -> SUBSET User]
    BY <1>12 DEF DecrementUseCount, TypeOK
  <2>3. detachDefer' \in [Session -> BOOLEAN]
    BY <1>12 DEF DecrementUseCount, TypeOK
  <2> QED BY <1>12, <2>1, <2>2, <2>3 DEF DecrementUseCount, userVars, TypeOK
<1>13. ASSUME NEW s \in Session, SendMessageToHandlers(s)
       PROVE  TypeOK'
  <2>1. posted' \in [Session -> Seq(Event)]
    BY <1>13, ConsumeType DEF SendMessageToHandlers, Delivers, Consume
  <2> QED BY <1>13, <2>1 DEF SendMessageToHandlers, userVars, TypeOK
<1>14. ASSUME NEW s \in Session, Destroy(s)
       PROVE  TypeOK'
  <2>1. posted' \in [Session -> Seq(Event)]
    BY <1>14, EmptySeq DEF Destroy, TypeOK
  <2> QED BY <1>14, <2>1 DEF Destroy, TypeOK
<1>15. ASSUME NEW s \in Session, DetachDeferTimerTimeout(s)
       PROVE  TypeOK'
  <2>1. (attached[s] /\ useCount[s] # 0) \in BOOLEAN
    OBVIOUS
  <2>2. attached' \in [Session -> BOOLEAN]
    BY <1>15, <2>1 DEF DetachDeferTimerTimeout, TypeOK
  <2> QED BY <1>15, <2>2 DEF DetachDeferTimerTimeout, userVars, TypeOK
<1>16. ASSUME NEW s \in Session, TimeoutElapses(s)
       PROVE  TypeOK'
  BY <1>16 DEF TimeoutElapses, userVars, TypeOK
<1>17. CASE KillExpiredSessions
  <2>1. posted' \in [Session -> Seq(Event)]
    BY <1>17, DeletionType DEF KillExpiredSessions, Sweep
  <2>2. sweeps' \in [User -> 0..2]
    BY <1>17 DEF KillExpiredSessions, SweepCounted, TypeOK
  <2> QED BY <1>17, <2>1, <2>2 DEF KillExpiredSessions, Sweep, Removed, TypeOK
<1>18. CASE KillAllSessions
  <2>1. posted' \in [Session -> Seq(Event)]
    BY <1>18, DeletionType DEF KillAllSessions
  <2> QED BY <1>18, <2>1 DEF KillAllSessions, Removed, TypeOK
<1>19. CASE UNCHANGED vars
  BY <1>19 DEF vars, TypeOK
<1> QED BY <1>1, <1>2, <1>3, <1>4, <1>5, <1>6, <1>7, <1>8, <1>9, <1>10, <1>11,
           <1>12, <1>13, <1>14, <1>15, <1>16, <1>17, <1>18, <1>19
        DEF Next, UserNext, SessionNext, DeliverEvent

\* Every step leaves a handler in the middle of a call with its session.
LEMMA StepOKStep ==
    ASSUME TypeOK, StepOK, [Next]_vars
    PROVE  StepOK'
<1> USE DEF StepOK, Target
<1>1. ASSUME NEW u \in User, NEW s \in Session, CreateSession(u, s)
      PROVE  StepOK'
  BY <1>1 DEF CreateSession, TypeOK
<1>2. ASSUME NEW u \in User, NEW s \in Session, GetSession(u, s)
      PROVE  StepOK'
  BY <1>2, NullAssumption DEF GetSession, sessionVars, TypeOK
<1>3. ASSUME NEW u \in User, RegisterNewSession(u)
      PROVE  StepOK'
  BY <1>3 DEF RegisterNewSession, TypeOK
<1>4. ASSUME NEW u \in User, AcquireSession(u)
      PROVE  StepOK'
  BY <1>4, NullAssumption DEF AcquireSession, Managed, TypeOK
<1>5. ASSUME NEW u \in User, InsertGrace(u)
      PROVE  StepOK'
  BY <1>5 DEF InsertGrace, TypeOK
<1>6. ASSUME NEW u \in User, ReleaseSession(u)
      PROVE  StepOK'
  <2>1. step[u] = "idle"
    BY <1>6 DEF ReleaseSession, Runs
  <2> QED BY <1>6, <2>1 DEF ReleaseSession, TypeOK
<1>7. ASSUME NEW u \in User, ForgetSession(u)
      PROVE  StepOK'
  <2>1. step[u] = "idle"
    BY <1>7 DEF ForgetSession, Runs
  <2> QED BY <1>7, <2>1 DEF ForgetSession, sessionVars, TypeOK
<1>8. ASSUME NEW u \in User, DispatchMessageToHandlers(u)
      PROVE  StepOK'
  BY <1>8 DEF DispatchMessageToHandlers, Managed, TypeOK
<1>9. ASSUME NEW u \in User, NEW d \in {"up", "down"}, LoadTestingState(u, d)
      PROVE  StepOK'
  BY <1>9 DEF LoadTestingState, sessionVars, TypeOK
<1>10. ASSUME NEW u \in User, StoreTestingState(u)
       PROVE  StepOK'
  BY <1>10 DEF StoreTestingState, TypeOK
<1>11. ASSUME NEW s \in Session, Destroy(s)
       PROVE  StepOK'
  BY <1>11 DEF Destroy, TypeOK
<1>12. ASSUME UNCHANGED <<held, seen, step, tests>>
       PROVE  StepOK'
  BY <1>12
<1>13. ASSUME NEW s \in Session,
              \/ IncrementUseCount(s) \/ DecrementUseCount(s) \/ SendMessageToHandlers(s)
              \/ DetachDeferTimerTimeout(s) \/ TimeoutElapses(s)
       PROVE  StepOK'
  BY <1>12, <1>13 DEF IncrementUseCount, DecrementUseCount, SendMessageToHandlers,
                      DetachDeferTimerTimeout, TimeoutElapses, userVars
<1>14. KillExpiredSessions \/ KillAllSessions \/ UNCHANGED vars => StepOK'
  BY <1>12 DEF KillExpiredSessions, KillAllSessions, vars
<1> QED BY <1>1, <1>2, <1>3, <1>4, <1>5, <1>6, <1>7, <1>8, <1>9, <1>10, <1>11,
           <1>13, <1>14
        DEF Next, UserNext, SessionNext, DeliverEvent

(* The type invariant of Sessions, for every value of the constants. *)
THEOREM TypeCorrect == Spec => []TypeOK
<1>1. Init => TypeOK /\ StepOK
  BY TypeInit
<1>2. TypeOK /\ StepOK /\ [Next]_vars => TypeOK' /\ StepOK'
  BY TypeStep, StepOKStep
<1> QED BY <1>1, <1>2, PTL DEF Spec

-----------------------------------------------------------------------------
(* The use count, when every handler serves one session. *)

(* Before it is managed and after it is destroyed, nothing is posted to a    *)
(* session and nobody holds it; before, it was not used either.             *)
Quiet ==
    \A s \in Session :
        /\ object[s] \in {"none", "constructed", "destroyed"} =>
              posted[s] = <<>> /\ \A u \in User : held[u] # s
        /\ object[s] \in {"none", "constructed"} =>
              useCount[s] = 0 /\ counted[s] = {} /\ attached[s] = FALSE

(* A session under construction belongs to one handler. *)
Creating ==
    \A u \in User : step[u] = "new" =>
        /\ object[seen[u]] = "constructed"
        /\ held[u] = NULL
        /\ \A v \in User : v # u /\ step[v] = "new" => seen[v] # seen[u]

(* A handler is linked to one session, the one it holds or looks at. *)
LinkedToOne ==
    \A u \in User :
        /\ held[u] # NULL => held[u] \in linked[u]
        /\ seen[u] # NULL => linked[u] \subseteq {seen[u]}
        /\ \A s, r \in linked[u] : s = r

(* The events in flight fit the use count and the holders. *)
InFlight ==
    \A s \in Session, u \in User : object[s] # "destroyed" =>
        Fits(posted[s], u, u \in counted[s], held[u] = s)

CountOK ==
    \A s \in Session : object[s] # "destroyed" => useCount[s] = Cardinality(counted[s])

IInv ==
    /\ TypeOK /\ StepOK /\ Quiet /\ Creating /\ LinkedToOne
    /\ InFlight /\ CountOK /\ AttachmentFollowsUse

(* The counted handlers are finitely many. *)
LEMMA CountedFinite ==
    ASSUME TypeOK, NEW s \in Session
    PROVE  /\ IsFiniteSet(counted[s])
           /\ Cardinality(counted[s]) \in Nat
<1>1. counted[s] \in SUBSET User
  BY DEF TypeOK
<1>2. IsFiniteSet(counted[s])
  BY <1>1, FS_Subset, FiniteAssumption
<1> QED BY <1>2, FS_CardinalityType

\* The inductive invariant holds at the beginning.
LEMMA IInvInit == Init => IInv
<1> SUFFICES ASSUME Init PROVE IInv
  OBVIOUS
<1>1. TypeOK /\ StepOK
  BY TypeInit
<1>2. Quiet /\ Creating /\ LinkedToOne
  BY NullAssumption DEF Init, Quiet, Creating, LinkedToOne
<1>3. InFlight
  <2>1. \A u : At(<<>>, u) = {}
    BY EmptySeq DEF At
  <2>2. \A s \in Session, u \in User :
           posted[s] = <<>> /\ ~(u \in counted[s]) /\ ~(held[u] = s)
    BY NullAssumption DEF Init
  <2> QED BY <2>1, <2>2 DEF InFlight, Fits
<1>4. CountOK
  BY FS_EmptySet DEF Init, CountOK
<1>5. AttachmentFollowsUse
  BY DEF Init, AttachmentFollowsUse, Alive
<1> QED BY <1>1, <1>2, <1>3, <1>4, <1>5 DEF IInv

(* A step that changes neither queue, nor counting, nor holding. *)
LEMMA InFlightFrame ==
    ASSUME IInv, UNCHANGED <<posted, counted, held>>,
           \A s \in Session : object[s] = "destroyed" => object'[s] = "destroyed"
    PROVE  InFlight'
BY DEF IInv, InFlight

(* A step that posts an event of nobody to some sessions. *)
LEMMA InFlightPosted ==
    ASSUME IInv, UNCHANGED <<counted, held>>,
           \A s \in Session : object[s] = "destroyed" => object'[s] = "destroyed",
           NEW e \in Event, e.by = NULL,
           \A s \in Session : posted'[s] = posted[s] \/ posted'[s] = Append(posted[s], e)
    PROVE  InFlight'
<1> SUFFICES ASSUME NEW s \in Session, NEW u \in User, object'[s] # "destroyed"
             PROVE  Fits(posted'[s], u, u \in counted[s], held[u] = s)
  BY DEF InFlight
<1>1. Fits(posted[s], u, u \in counted[s], held[u] = s)
  BY DEF IInv, InFlight
<1>2. posted[s] \in Seq(Event)
  BY DEF IInv, TypeOK
<1>3. e.by # u
  BY NullAssumption
<1>4. Fits(Append(posted[s], e), u, u \in counted[s], held[u] = s)
  BY <1>1, <1>2, <1>3, FitsAppendOther
<1> QED BY <1>1, <1>4

(* A handler takes a session it did not hold. *)
LEMMA InFlightTake ==
    ASSUME IInv, NEW u \in User, NEW s \in Session,
           held[u] = NULL, held' = [held EXCEPT ![u] = s],
           UNCHANGED counted, Post(s, "increment", u), object[s] # "destroyed",
           \A r \in Session : object[r] = "destroyed" => object'[r] = "destroyed"
    PROVE  InFlight'
<1> DEFINE e == [op |-> "increment", by |-> u]
<1> SUFFICES ASSUME NEW r \in Session, NEW v \in User, object'[r] # "destroyed"
             PROVE  Fits(posted'[r], v, v \in counted[r], held'[v] = r)
  BY DEF InFlight
<1>1. Fits(posted[r], v, v \in counted[r], held[v] = r)
  BY DEF IInv, InFlight
<1>2. posted[r] \in Seq(Event)
  BY DEF IInv, TypeOK
<1>3. e \in Event /\ e.by = u /\ e.op = "increment"
  BY DEF Event
<1>4. posted'[r] = IF r = s THEN Append(posted[s], e) ELSE posted[r]
  BY DEF Post, IInv, TypeOK
<1>5. held'[v] = IF v = u THEN s ELSE held[v]
  BY DEF IInv, TypeOK
<1> HIDE DEF e
<1>6. CASE r # s
  <2>1. held'[v] = r <=> held[v] = r
    BY <1>5, <1>6, NullAssumption
  <2> QED BY <1>1, <1>4, <1>6, <2>1
<1>7. CASE r = s /\ v # u
  <2>1. Fits(Append(posted[r], e), v, v \in counted[r], held[v] = r)
    BY <1>1, <1>2, <1>3, <1>7, FitsAppendOther
  <2> QED BY <1>4, <1>5, <1>7, <2>1
<1>8. CASE r = s /\ v = u
  <2>1. held[v] # r
    BY <1>8, NullAssumption
  <2>2. Fits(posted[r], v, v \in counted[r], FALSE)
    BY <1>1, <2>1
  <2>3. Fits(Append(posted[r], e), v, v \in counted[r], ~FALSE)
    <3> DEFINE c == v \in counted[r]
    <3>1. c \in BOOLEAN /\ FALSE \in BOOLEAN
      OBVIOUS
    <3>2. e.by = v /\ e.op = IF FALSE THEN "decrement" ELSE "increment"
      BY <1>3, <1>8
    <3>3. Fits(posted[r], v, c, FALSE)
      BY <2>2
    <3> HIDE DEF c
    <3>4. Fits(Append(posted[r], e), v, c, ~FALSE)
      BY <1>2, <1>3, <3>1, <3>2, <3>3, FitsAppendOwn
    <3> QED BY <3>4 DEF c
  <2>4. held'[v] = r
    BY <1>5, <1>8
  <2> QED BY <1>4, <1>8, <2>3, <2>4
<1> QED BY <1>6, <1>7, <1>8

(* A handler gives back the session it holds. *)
LEMMA InFlightGive ==
    ASSUME IInv, NEW u \in User, NEW s \in Session,
           held[u] = s, held' = [held EXCEPT ![u] = NULL],
           UNCHANGED <<counted, object>>, Post(s, "decrement", u)
    PROVE  InFlight'
<1> DEFINE e == [op |-> "decrement", by |-> u]
<1> SUFFICES ASSUME NEW r \in Session, NEW v \in User, object[r] # "destroyed"
             PROVE  Fits(posted'[r], v, v \in counted[r], held'[v] = r)
  BY DEF InFlight
<1>1. Fits(posted[r], v, v \in counted[r], held[v] = r)
  BY DEF IInv, InFlight
<1>2. posted[r] \in Seq(Event)
  BY DEF IInv, TypeOK
<1>3. e \in Event /\ e.by = u /\ e.op = "decrement"
  BY DEF Event
<1>4. posted'[r] = IF r = s THEN Append(posted[s], e) ELSE posted[r]
  BY DEF Post, IInv, TypeOK
<1>5. held'[v] = IF v = u THEN NULL ELSE held[v]
  BY DEF IInv, TypeOK
<1> HIDE DEF e
<1>6. CASE r # s
  <2>1. held'[v] = r <=> held[v] = r
    BY <1>5, <1>6, NullAssumption
  <2> QED BY <1>1, <1>4, <1>6, <2>1
<1>7. CASE r = s /\ v # u
  <2>1. Fits(Append(posted[r], e), v, v \in counted[r], held[v] = r)
    BY <1>1, <1>2, <1>3, <1>7, FitsAppendOther
  <2> QED BY <1>4, <1>5, <1>7, <2>1
<1>8. CASE r = s /\ v = u
  <2>1. Fits(posted[r], v, v \in counted[r], TRUE)
    BY <1>1, <1>8
  <2>2. Fits(Append(posted[r], e), v, v \in counted[r], ~TRUE)
    <3> DEFINE c == v \in counted[r]
    <3>1. c \in BOOLEAN /\ TRUE \in BOOLEAN
      OBVIOUS
    <3>2. e.by = v /\ e.op = IF TRUE THEN "decrement" ELSE "increment"
      BY <1>3, <1>8
    <3>3. Fits(posted[r], v, c, TRUE)
      BY <2>1
    <3> HIDE DEF c
    <3>4. Fits(Append(posted[r], e), v, c, ~TRUE)
      BY <1>2, <1>3, <3>1, <3>2, <3>3, FitsAppendOwn
    <3> QED BY <3>4 DEF c
  <2>3. held'[v] # r
    BY <1>5, <1>8, NullAssumption
  <2> QED BY <1>4, <1>8, <2>2, <2>3
<1> QED BY <1>6, <1>7, <1>8

(* An increment is delivered for an uncounted handler, a decrement for a
   counted one. *)
LEMMA IncrementOfUncounted ==
    ASSUME IInv, NEW s \in Session, NEW u \in User, Alive(s),
           posted[s] # <<>>, Head(posted[s]).by = u
    PROVE  /\ Head(posted[s]).op = "decrement" <=> u \in counted[s]
           /\ Head(posted[s]).op = "increment" <=> u \notin counted[s]
           /\ Fits(Tail(posted[s]), u, u \notin counted[s], held[u] = s)
<1> DEFINE c == u \in counted[s]
           h == held[u] = s
<1>1. posted[s] \in Seq(Event)
  BY DEF IInv, TypeOK
<1>2. c \in BOOLEAN /\ h \in BOOLEAN
  OBVIOUS
<1>3. Fits(posted[s], u, c, h)
  BY DEF IInv, InFlight, Alive
<1> HIDE DEF c, h
<1>4. /\ Fits(Tail(posted[s]), u, ~c, h)
      /\ Head(posted[s]).op = "decrement" <=> c
      /\ Head(posted[s]).op = "increment" <=> ~c
  BY <1>1, <1>2, <1>3, FitsTailOwn
<1> QED BY <1>4 DEF c, h

(* A session executes a use count event: it is counted if it was not. *)
LEMMA InFlightCount ==
    ASSUME IInv, NEW s \in Session, NEW u \in User, UNCHANGED <<held, object>>,
           posted[s] # <<>>, Head(posted[s]).by = u, Consume(s), Alive(s),
           counted' = [counted EXCEPT ![s] = IF u \in @ THEN @ \ {u} ELSE @ \cup {u}]
    PROVE  InFlight'
<1>1. \A r \in Session, v \in User : object[r] # "destroyed" =>
         Fits(posted[r], v, v \in counted[r], held[v] = r)
  BY DEF IInv, InFlight
<1>2. \A r \in Session : posted[r] \in Seq(Event)
  BY DEF IInv, TypeOK
<1>3. \A r \in Session : posted'[r] = IF r = s THEN Tail(posted[s]) ELSE posted[r]
  BY DEF Consume, IInv, TypeOK
<1>4. \A r \in Session, v \in User :
         (v \in counted'[r]) <=> IF r = s /\ v = u THEN v \notin counted[r]
                                                 ELSE v \in counted[r]
  BY DEF IInv, TypeOK
<1>6. Fits(Tail(posted[s]), u, u \notin counted[s], held[u] = s)
  BY IncrementOfUncounted
<1>7. ASSUME NEW r \in Session, NEW v \in User, object[r] # "destroyed"
      PROVE  Fits(posted'[r], v, v \in counted'[r], held[v] = r)
  <2>1. CASE r # s
    <3>1. v \in counted'[r] <=> v \in counted[r]
      BY <1>4, <2>1
    <3> QED BY <1>1, <1>3, <1>7, <2>1, <3>1
  <2>2. CASE r = s /\ v # u
    <3>1. v \in counted'[r] <=> v \in counted[r]
      BY <1>4, <2>2
    <3>2. Fits(Tail(posted[r]), v, v \in counted[r], held[v] = r)
      BY <1>1, <1>2, <1>7, <2>2, FitsTailOther
    <3> QED BY <1>3, <2>2, <3>1, <3>2
  <2>3. CASE r = s /\ v = u
    <3>1. v \in counted'[r] <=> u \notin counted[s]
      BY <1>4, <2>3
    <3> QED BY <1>3, <1>6, <2>3, <3>1
  <2> QED BY <2>1, <2>2, <2>3
<1> QED BY <1>7 DEF InFlight

(* What a sweep and killAllSessions remove was managed. *)
LEMMA OnlyManagedRemoved ==
    ASSUME NEW s \in Session, object[s] # "managed"
    PROVE  /\ Removed(Doomed, "disposed")[s] = object[s]
           /\ Removed(Managed, "killed")[s] = object[s]
           /\ PostedDeletion(Doomed)[s] = posted[s]
           /\ PostedDeletion(Managed)[s] = posted[s]
BY DEF Removed, PostedDeletion, Doomed, Managed, Disposable

(* The steps that touch neither the life of a session nor its use. *)
Aside == UNCHANGED <<object, posted, useCount, counted, attached, held, linked, detachDefer>>

\* The steps that leave queues, counts and holders as they are.
LEMMA AsideSteps ==
    /\ \A u \in User :
         /\ \A s \in Session : GetSession(u, s) => Aside
         /\ InsertGrace(u) => Aside
         /\ ForgetSession(u) => Aside
         /\ \A d \in {"up", "down"} : LoadTestingState(u, d) => Aside
         /\ StoreTestingState(u) => Aside
    /\ \A s \in Session : TimeoutElapses(s) => Aside
    /\ UNCHANGED vars => Aside
BY DEF GetSession, InsertGrace, ForgetSession, LoadTestingState, StoreTestingState,
       TimeoutElapses, sessionVars, userVars, vars, Aside

\* What has no events stays without.
LEMMA QuietStep ==
    ASSUME IInv, [Next]_vars
    PROVE  Quiet'
<1> USE DEF IInv
<1>1. ASSUME NEW u \in User, NEW s \in Session, CreateSession(u, s)
      PROVE  Quiet'
  <2> SUFFICES ASSUME NEW r \in Session,
                      object'[r] \in {"none", "constructed", "destroyed"}
               PROVE  /\ posted'[r] = <<>>
                      /\ \A v \in User : held'[v] # r
                      /\ object'[r] # "destroyed" =>
                            useCount'[r] = 0 /\ counted'[r] = {} /\ attached'[r] = FALSE
    BY DEF Quiet
  <2>1. object[r] # "managed"
    BY <1>1 DEF CreateSession, Sweep, Removed, Doomed, Disposable, TypeOK
  <2>2. posted'[r] = posted[r]
    BY <1>1, <2>1, OnlyManagedRemoved DEF CreateSession, Sweep
  <2>3. r # s => object'[r] = object[r]
    BY <1>1, <2>1, OnlyManagedRemoved DEF CreateSession, Removed, TypeOK
  <2> QED BY <1>1, <2>2, <2>3 DEF CreateSession, Quiet
<1>2. ASSUME NEW u \in User, RegisterNewSession(u)
      PROVE  Quiet'
  BY <1>2 DEF RegisterNewSession, Post, Quiet, Creating, StepOK, TypeOK
<1>3. ASSUME NEW u \in User, AcquireSession(u)
      PROVE  Quiet'
  BY <1>3 DEF AcquireSession, Managed, Post, Quiet, TypeOK
<1>4. ASSUME NEW u \in User, ReleaseSession(u)
      PROVE  Quiet'
  BY <1>4, NullAssumption DEF ReleaseSession, Post, Quiet, TypeOK
<1>5. ASSUME NEW u \in User, DispatchMessageToHandlers(u)
      PROVE  Quiet'
  BY <1>5 DEF DispatchMessageToHandlers, Managed, Post, Quiet, TypeOK
<1>6. ASSUME NEW s \in Session, IncrementUseCount(s)
      PROVE  Quiet'
  BY <1>6 DEF IncrementUseCount, Delivers, Alive, Consume, userVars, Quiet, TypeOK
<1>7. ASSUME NEW s \in Session, DecrementUseCount(s)
      PROVE  Quiet'
  BY <1>7 DEF DecrementUseCount, Delivers, Alive, Consume, userVars, Quiet, TypeOK
<1>8. ASSUME NEW s \in Session, SendMessageToHandlers(s)
      PROVE  Quiet'
  BY <1>8 DEF SendMessageToHandlers, Delivers, Alive, Consume, userVars, Quiet, TypeOK
<1>9. ASSUME NEW s \in Session, Destroy(s)
      PROVE  Quiet'
  <2>1. \A u \in User : held'[u] = held[u] \/ held'[u] = NULL
    BY <1>9 DEF Destroy
  <2>2. \A u \in User : held'[u] # s
    BY <1>9, NullAssumption DEF Destroy, LinkedToOne
  <2>3. \A r \in Session : r # s => object'[r] = object[r] /\ posted'[r] = posted[r]
    BY <1>9 DEF Destroy, TypeOK
  <2>4. object'[s] = "destroyed" /\ posted'[s] = <<>>
    BY <1>9 DEF Destroy, TypeOK
  <2>5. UNCHANGED <<useCount, counted, attached>>
    BY <1>9 DEF Destroy
  <2> QED BY <2>1, <2>2, <2>3, <2>4, <2>5, NullAssumption DEF Quiet
<1>10. ASSUME NEW s \in Session, DetachDeferTimerTimeout(s)
       PROVE  Quiet'
  BY <1>10 DEF DetachDeferTimerTimeout, Alive, userVars, Quiet, TypeOK
<1>11. CASE KillExpiredSessions
  <2>1. \A r \in Session : object'[r] \in {"none", "constructed", "destroyed"} =>
           object[r] # "managed"
    BY <1>11 DEF KillExpiredSessions, Removed
  <2> QED BY <1>11, <2>1, OnlyManagedRemoved DEF KillExpiredSessions, Sweep, Quiet
<1>12. CASE KillAllSessions
  <2>1. \A r \in Session : object'[r] \in {"none", "constructed", "destroyed"} =>
           object[r] # "managed"
    BY <1>12 DEF KillAllSessions, Removed
  <2> QED BY <1>12, <2>1, OnlyManagedRemoved DEF KillAllSessions, Quiet
<1>13. CASE Aside
  BY <1>13 DEF Aside, Quiet
<1> QED BY <1>1, <1>2, <1>3, <1>4, <1>5, <1>6, <1>7, <1>8, <1>9, <1>10, <1>11,
           <1>12, <1>13, AsideSteps
        DEF Next, UserNext, SessionNext, DeliverEvent

\* A session that is being made known belongs to the handler that made it.
LEMMA CreatingStep ==
    ASSUME IInv, [Next]_vars
    PROVE  Creating'
<1> USE DEF IInv, Creating
<1>1. ASSUME NEW u \in User, NEW s \in Session, CreateSession(u, s)
      PROVE  Creating'
  <2>1. \A r \in Session : object[r] = "constructed" => object'[r] = "constructed"
    BY <1>1, OnlyManagedRemoved DEF CreateSession, Removed, TypeOK
  <2>2. object'[s] = "constructed" /\ object[s] = "none"
    BY <1>1 DEF CreateSession, Removed, TypeOK
  <2> QED BY <1>1, <2>1, <2>2 DEF CreateSession, StepOK, TypeOK
<1>2. ASSUME NEW u \in User, NEW s \in Session, GetSession(u, s)
      PROVE  Creating'
  BY <1>2 DEF GetSession, sessionVars, TypeOK
<1>3. ASSUME NEW u \in User, RegisterNewSession(u)
      PROVE  Creating'
  BY <1>3 DEF RegisterNewSession, StepOK, TypeOK
<1>4. ASSUME NEW u \in User, AcquireSession(u)
      PROVE  Creating'
  BY <1>4 DEF AcquireSession, TypeOK
<1>5. ASSUME NEW u \in User, InsertGrace(u)
      PROVE  Creating'
  BY <1>5 DEF InsertGrace, TypeOK
<1>6. ASSUME NEW u \in User, ReleaseSession(u)
      PROVE  Creating'
  BY <1>6 DEF ReleaseSession, TypeOK
<1>7. ASSUME NEW u \in User, ForgetSession(u)
      PROVE  Creating'
  <2>1. step[u] = "idle"
    BY <1>7 DEF ForgetSession, Runs
  <2> QED BY <1>7, <2>1 DEF ForgetSession, sessionVars, TypeOK
<1>8. ASSUME NEW u \in User, DispatchMessageToHandlers(u)
      PROVE  Creating'
  BY <1>8 DEF DispatchMessageToHandlers, TypeOK
<1>9. ASSUME NEW u \in User, NEW d \in {"up", "down"}, LoadTestingState(u, d)
      PROVE  Creating'
  BY <1>9 DEF LoadTestingState, sessionVars, TypeOK
<1>10. ASSUME NEW u \in User, StoreTestingState(u)
       PROVE  Creating'
  BY <1>10 DEF StoreTestingState, TypeOK
<1>11. ASSUME NEW s \in Session, Destroy(s)
       PROVE  Creating'
  BY <1>11 DEF Destroy, Delivers, Alive, TypeOK, StepOK
<1>12. CASE UNCHANGED <<object, held, seen, step>>
  BY <1>12
<1>13. ASSUME NEW s \in Session,
              \/ IncrementUseCount(s) \/ DecrementUseCount(s) \/ SendMessageToHandlers(s)
              \/ DetachDeferTimerTimeout(s) \/ TimeoutElapses(s)
       PROVE  Creating'
  BY <1>12, <1>13 DEF IncrementUseCount, DecrementUseCount, SendMessageToHandlers,
                      DetachDeferTimerTimeout, TimeoutElapses, userVars
<1>14. CASE KillExpiredSessions
  BY <1>14, OnlyManagedRemoved DEF KillExpiredSessions, StepOK
<1>15. CASE KillAllSessions
  BY <1>15, OnlyManagedRemoved DEF KillAllSessions, StepOK
<1>16. CASE UNCHANGED vars
  BY <1>12, <1>16 DEF vars
<1> QED BY <1>1, <1>2, <1>3, <1>4, <1>5, <1>6, <1>7, <1>8, <1>9, <1>10, <1>11,
           <1>13, <1>14, <1>15, <1>16
        DEF Next, UserNext, SessionNext, DeliverEvent

\* A handler is connected to no session but its own.
LEMMA LinkedStep ==
    ASSUME IInv, ~Reused, [Next]_vars
    PROVE  LinkedToOne'
<1> USE NullAssumption DEF IInv, LinkedToOne
<1>1. ASSUME NEW u \in User, NEW s \in Session, CreateSession(u, s)
      PROVE  LinkedToOne'
  BY <1>1 DEF CreateSession, MayServe, TypeOK
<1>2. ASSUME NEW u \in User, NEW s \in Session, GetSession(u, s)
      PROVE  LinkedToOne'
  BY <1>2 DEF GetSession, MayServe, sessionVars, TypeOK
<1>3. ASSUME NEW u \in User, RegisterNewSession(u)
      PROVE  LinkedToOne'
  BY <1>3 DEF RegisterNewSession, StepOK, TypeOK
<1>4. ASSUME NEW u \in User, AcquireSession(u)
      PROVE  LinkedToOne'
  BY <1>4 DEF AcquireSession, Managed, TypeOK
<1>5. ASSUME NEW u \in User, ReleaseSession(u)
      PROVE  LinkedToOne'
  BY <1>5 DEF ReleaseSession, TypeOK
<1>6. ASSUME NEW u \in User, ForgetSession(u)
      PROVE  LinkedToOne'
  BY <1>6 DEF ForgetSession, sessionVars, TypeOK
<1>7. ASSUME NEW s \in Session, Destroy(s)
      PROVE  LinkedToOne'
  BY <1>7 DEF Destroy, TypeOK
<1>8. CASE UNCHANGED <<held, linked, seen>>
  BY <1>8
<1>9. ASSUME NEW u \in User,
             \/ InsertGrace(u) \/ DispatchMessageToHandlers(u) \/ StoreTestingState(u)
             \/ \E d \in {"up", "down"} : LoadTestingState(u, d)
      PROVE  LinkedToOne'
  BY <1>8, <1>9 DEF InsertGrace, DispatchMessageToHandlers, StoreTestingState,
                    LoadTestingState
<1>10. ASSUME NEW s \in Session,
              \/ IncrementUseCount(s) \/ DecrementUseCount(s) \/ SendMessageToHandlers(s)
              \/ DetachDeferTimerTimeout(s) \/ TimeoutElapses(s)
       PROVE  LinkedToOne'
  BY <1>8, <1>10 DEF IncrementUseCount, DecrementUseCount, SendMessageToHandlers,
                     DetachDeferTimerTimeout, TimeoutElapses, userVars
<1>11. KillExpiredSessions \/ KillAllSessions \/ UNCHANGED vars => LinkedToOne'
  BY <1>8 DEF KillExpiredSessions, KillAllSessions, vars
<1> QED BY <1>1, <1>2, <1>3, <1>4, <1>5, <1>6, <1>7, <1>9, <1>10, <1>11
        DEF Next, UserNext, SessionNext, DeliverEvent

\* The events under way keep their alternation.
LEMMA InFlightStep ==
    ASSUME IInv, [Next]_vars
    PROVE  InFlight'
<1> USE DEF IInv
<1>0. [op |-> "deleteLater", by |-> NULL] \in Event
  BY DEF Event
<1>1. ASSUME NEW u \in User, NEW s \in Session, CreateSession(u, s)
      PROVE  InFlight'
  <2>1. \A r \in Session : object[r] = "destroyed" => object'[r] = "destroyed"
    BY <1>1, OnlyManagedRemoved DEF CreateSession, Removed, TypeOK
  <2>2. \A r \in Session : \/ posted'[r] = posted[r]
                           \/ posted'[r] = Append(posted[r], [op |-> "deleteLater", by |-> NULL])
    BY <1>1 DEF CreateSession, Sweep, PostedDeletion
  <2>3. UNCHANGED <<counted, held>>
    BY <1>1 DEF CreateSession
  <2> QED BY <1>0, <2>1, <2>2, <2>3, InFlightPosted
<1>2. ASSUME NEW u \in User, RegisterNewSession(u)
      PROVE  InFlight'
  <2>1. seen[u] \in Session /\ object[seen[u]] = "constructed" /\ held[u] = NULL
    BY <1>2 DEF RegisterNewSession, StepOK, Creating
  <2>2. \A r \in Session : object[r] = "destroyed" => object'[r] = "destroyed"
    BY <1>2, <2>1 DEF RegisterNewSession, TypeOK
  <2> QED BY <1>2, <2>1, <2>2, InFlightTake DEF RegisterNewSession
<1>3. ASSUME NEW u \in User, AcquireSession(u)
      PROVE  InFlight'
  BY <1>3, InFlightTake DEF AcquireSession, Managed
<1>4. ASSUME NEW u \in User, ReleaseSession(u)
      PROVE  InFlight'
  <2>1. held[u] \in Session
    BY <1>4 DEF ReleaseSession, TypeOK
  <2> QED BY <1>4, <2>1, InFlightGive DEF ReleaseSession
<1>5. ASSUME NEW u \in User, DispatchMessageToHandlers(u)
      PROVE  InFlight'
  <2>1. \A r \in Session : \/ posted'[r] = posted[r]
                           \/ posted'[r] = Append(posted[r], [op |-> "message", by |-> NULL, caller |-> u])
    BY <1>5 DEF DispatchMessageToHandlers, TypeOK
  <2>2. [op |-> "message", by |-> NULL, caller |-> u] \in Event
    BY DEF Event
  <2> QED BY <1>5, <2>1, <2>2, InFlightPosted DEF DispatchMessageToHandlers
<1>6. ASSUME NEW s \in Session, IncrementUseCount(s)
      PROVE  InFlight'
  <2> DEFINE u == Head(posted[s]).by
  <2>1. u \in User /\ posted[s] # <<>> /\ Alive(s) /\ Consume(s)
    BY <1>6, HeadType DEF IncrementUseCount, Delivers
  <2>2. u \notin counted[s]
    BY <1>6, <2>1, IncrementOfUncounted DEF IncrementUseCount, Delivers
  <2>3. counted' = [counted EXCEPT ![s] = IF u \in @ THEN @ \ {u} ELSE @ \cup {u}]
    BY <1>6, <2>2 DEF IncrementUseCount
  <2>4. UNCHANGED <<held, object>>
    BY <1>6 DEF IncrementUseCount, userVars
  <2> QED BY <2>1, <2>3, <2>4, InFlightCount
<1>7. ASSUME NEW s \in Session, DecrementUseCount(s)
      PROVE  InFlight'
  <2> DEFINE u == Head(posted[s]).by
  <2>1. u \in User /\ posted[s] # <<>> /\ Alive(s) /\ Consume(s)
    BY <1>7, HeadType DEF DecrementUseCount, Delivers
  <2>2. u \in counted[s]
    BY <1>7, <2>1, IncrementOfUncounted DEF DecrementUseCount, Delivers
  <2>3. counted' = [counted EXCEPT ![s] = IF u \in @ THEN @ \ {u} ELSE @ \cup {u}]
    BY <1>7, <2>2 DEF DecrementUseCount
  <2>4. UNCHANGED <<held, object>>
    BY <1>7 DEF DecrementUseCount, userVars
  <2> QED BY <2>1, <2>3, <2>4, InFlightCount
<1>8. ASSUME NEW s \in Session, SendMessageToHandlers(s)
      PROVE  InFlight'
  <2> SUFFICES ASSUME NEW r \in Session, NEW u \in User, object[r] # "destroyed"
               PROVE  Fits(posted'[r], u, u \in counted[r], held[u] = r)
    BY <1>8 DEF SendMessageToHandlers, userVars, InFlight
  <2>1. Fits(posted[r], u, u \in counted[r], held[u] = r)
    BY DEF InFlight
  <2>2. posted'[r] = IF r = s THEN Tail(posted[s]) ELSE posted[r]
    BY <1>8 DEF SendMessageToHandlers, Consume, TypeOK
  <2>3. /\ posted[s] \in Seq(Event) /\ posted[s] # <<>>
        /\ Head(posted[s]).by # u
    BY <1>8, HeadType, NullAssumption DEF SendMessageToHandlers, Delivers, Event
  <2>4. r = s => Fits(Tail(posted[s]), u, u \in counted[r], held[u] = r)
    BY <2>1, <2>3, FitsTailOther
  <2> QED BY <2>1, <2>2, <2>4
<1>9. ASSUME NEW s \in Session, Destroy(s)
      PROVE  InFlight'
  <2> SUFFICES ASSUME NEW r \in Session, NEW u \in User, object'[r] # "destroyed"
               PROVE  Fits(posted'[r], u, u \in counted'[r], held'[u] = r)
    BY DEF InFlight
  <2>1. r # s /\ object[r] # "destroyed" /\ posted'[r] = posted[r] /\ counted' = counted
    BY <1>9 DEF Destroy, TypeOK
  <2>2. held'[u] = r <=> held[u] = r
    BY <1>9, <2>1, NullAssumption DEF Destroy, LinkedToOne
  <2> QED BY <2>1, <2>2 DEF InFlight
<1>10. ASSUME NEW s \in Session, DetachDeferTimerTimeout(s)
       PROVE  InFlight'
  BY <1>10, InFlightFrame DEF DetachDeferTimerTimeout, userVars
<1>11. CASE KillExpiredSessions
  <2>1. \A r \in Session : object[r] = "destroyed" => object'[r] = "destroyed"
    BY <1>11, OnlyManagedRemoved DEF KillExpiredSessions
  <2>2. \A r \in Session : \/ posted'[r] = posted[r]
                           \/ posted'[r] = Append(posted[r], [op |-> "deleteLater", by |-> NULL])
    BY <1>11 DEF KillExpiredSessions, Sweep, PostedDeletion
  <2> QED BY <1>0, <1>11, <2>1, <2>2, InFlightPosted DEF KillExpiredSessions
<1>12. CASE KillAllSessions
  <2>1. \A r \in Session : object[r] = "destroyed" => object'[r] = "destroyed"
    BY <1>12, OnlyManagedRemoved DEF KillAllSessions
  <2>2. \A r \in Session : \/ posted'[r] = posted[r]
                           \/ posted'[r] = Append(posted[r], [op |-> "deleteLater", by |-> NULL])
    BY <1>12 DEF KillAllSessions, PostedDeletion
  <2> QED BY <1>0, <1>12, <2>1, <2>2, InFlightPosted DEF KillAllSessions
<1>13. CASE Aside
  BY <1>13, InFlightFrame DEF Aside
<1> QED BY <1>1, <1>2, <1>3, <1>4, <1>5, <1>6, <1>7, <1>8, <1>9, <1>10, <1>11,
           <1>12, <1>13, AsideSteps
        DEF Next, UserNext, SessionNext, DeliverEvent

\* The use count stays the number of those counted.
LEMMA CountStep ==
    ASSUME IInv, [Next]_vars
    PROVE  CountOK'
<1> USE DEF IInv
<1>1. ASSUME UNCHANGED <<useCount, counted>>,
             \A r \in Session : object[r] = "destroyed" => object'[r] = "destroyed"
      PROVE  CountOK'
  BY <1>1 DEF CountOK
<1>2. ASSUME NEW s \in Session, IncrementUseCount(s)
      PROVE  CountOK'
  <2> DEFINE u == Head(posted[s]).by
  <2>1. u \in User /\ posted[s] # <<>> /\ Alive(s)
    BY <1>2, HeadType DEF IncrementUseCount, Delivers
  <2>2. u \notin counted[s]
    BY <1>2, <2>1, IncrementOfUncounted DEF IncrementUseCount, Delivers
  <2>3. Cardinality(counted[s] \cup {u}) = Cardinality(counted[s]) + 1
    BY <2>2, CountedFinite, FS_AddElement
  <2>4. \A r \in Session : /\ object'[r] = object[r]
                           /\ counted'[r] = IF r = s THEN counted[s] \cup {u} ELSE counted[r]
                           /\ useCount'[r] = IF r = s THEN useCount[s] + 1 ELSE useCount[r]
    BY <1>2 DEF IncrementUseCount, TypeOK
  <2> HIDE DEF u
  <2> QED BY <2>1, <2>3, <2>4 DEF CountOK, Alive
<1>3. ASSUME NEW s \in Session, DecrementUseCount(s)
      PROVE  CountOK'
  <2> DEFINE u == Head(posted[s]).by
  <2>1. u \in User /\ posted[s] # <<>> /\ Alive(s)
    BY <1>3, HeadType DEF DecrementUseCount, Delivers
  <2>2. u \in counted[s]
    BY <1>3, <2>1, IncrementOfUncounted DEF DecrementUseCount, Delivers
  <2>3. Cardinality(counted[s] \ {u}) = Cardinality(counted[s]) - 1
    BY <2>2, CountedFinite, FS_RemoveElement
  <2>4. \A r \in Session : /\ object'[r] = object[r]
                           /\ counted'[r] = IF r = s THEN counted[s] \ {u} ELSE counted[r]
                           /\ useCount'[r] = IF r = s THEN useCount[s] - 1 ELSE useCount[r]
    BY <1>3 DEF DecrementUseCount, TypeOK
  <2> HIDE DEF u
  <2> QED BY <2>1, <2>3, <2>4 DEF CountOK, Alive
<1>4. ASSUME NEW u \in User, NEW s \in Session, CreateSession(u, s)
      PROVE  CountOK'
  <2>1. \A r \in Session : object[r] = "destroyed" => object'[r] = "destroyed"
    BY <1>4, OnlyManagedRemoved DEF CreateSession, Removed, TypeOK
  <2> QED BY <1>1, <1>4, <2>1 DEF CreateSession
<1>5. ASSUME NEW u \in User, RegisterNewSession(u)
      PROVE  CountOK'
  <2>1. \A r \in Session : object[r] = "destroyed" => object'[r] = "destroyed"
    BY <1>5 DEF RegisterNewSession, StepOK, Creating, TypeOK
  <2> QED BY <1>1, <1>5, <2>1 DEF RegisterNewSession
<1>6. ASSUME NEW u \in User,
             AcquireSession(u) \/ ReleaseSession(u) \/ DispatchMessageToHandlers(u)
      PROVE  CountOK'
  BY <1>1, <1>6 DEF AcquireSession, ReleaseSession, DispatchMessageToHandlers
<1>7. ASSUME NEW s \in Session,
             SendMessageToHandlers(s) \/ DetachDeferTimerTimeout(s)
      PROVE  CountOK'
  BY <1>1, <1>7 DEF SendMessageToHandlers, DetachDeferTimerTimeout, userVars
<1>8. ASSUME NEW s \in Session, Destroy(s)
      PROVE  CountOK'
  <2>1. \A r \in Session : object[r] = "destroyed" => object'[r] = "destroyed"
    BY <1>8 DEF Destroy, TypeOK
  <2> QED BY <1>1, <1>8, <2>1 DEF Destroy
<1>9. CASE KillExpiredSessions
  BY <1>1, <1>9, OnlyManagedRemoved DEF KillExpiredSessions
<1>10. CASE KillAllSessions
  BY <1>1, <1>10, OnlyManagedRemoved DEF KillAllSessions
<1>11. CASE Aside
  BY <1>11 DEF Aside, CountOK
<1> QED BY <1>2, <1>3, <1>4, <1>5, <1>6, <1>7, <1>8, <1>9, <1>10, <1>11, AsideSteps
        DEF Next, UserNext, SessionNext, DeliverEvent

\* Attached follows the use count.
LEMMA AttachmentStep ==
    ASSUME IInv, [Next]_vars
    PROVE  AttachmentFollowsUse'
<1> USE DEF IInv, AttachmentFollowsUse
<1>0. \A s \in Session : Alive(s) => useCount[s] \in Nat
  BY CountedFinite DEF CountOK, Alive
<1>1. ASSUME UNCHANGED <<useCount, attached, detachDefer>>,
             \A r \in Session : Alive(r)' => Alive(r)
      PROVE  AttachmentFollowsUse'
  BY <1>1
<1>2. ASSUME NEW s \in Session, IncrementUseCount(s)
      PROVE  AttachmentFollowsUse'
  <2>1. \A r \in Session :
           /\ object'[r] = object[r] /\ detachDefer'[r] = detachDefer[r]
           /\ r # s => useCount'[r] = useCount[r] /\ attached'[r] = attached[r]
    BY <1>2 DEF IncrementUseCount, TypeOK
  <2>2. useCount'[s] = useCount[s] + 1 /\ Alive(s)
    BY <1>2 DEF IncrementUseCount, Delivers, TypeOK
  <2>3. attached'[s] <=> (attached[s] \/ useCount[s] = 0)
    BY <1>2 DEF IncrementUseCount, TypeOK
  <2>4. useCount[s] > 0 => attached[s]
    BY <2>2
  <2>5. useCount[s] \in Nat
    BY <1>0, <2>2
  <2>6. attached'[s] /\ useCount'[s] # 0
    BY <2>2, <2>3, <2>4, <2>5
  <2> QED BY <2>1, <2>2, <2>6 DEF Alive
<1>3. ASSUME NEW s \in Session, DecrementUseCount(s)
      PROVE  AttachmentFollowsUse'
  <2>1. \A r \in Session :
           /\ object'[r] = object[r] /\ attached'[r] = attached[r]
           /\ r # s => useCount'[r] = useCount[r] /\ detachDefer'[r] = detachDefer[r]
    BY <1>3 DEF DecrementUseCount, TypeOK
  <2>2. useCount'[s] = useCount[s] - 1 /\ Alive(s) /\ detachDefer'[s]
    BY <1>3 DEF DecrementUseCount, Delivers, TypeOK
  <2>3. useCount'[s] > 0 => attached[s]
    BY <1>0, <2>2
  <2> QED BY <2>1, <2>2, <2>3 DEF Alive
<1>4. ASSUME NEW s \in Session, DetachDeferTimerTimeout(s)
      PROVE  AttachmentFollowsUse'
  <2>1. \A r \in Session :
           /\ object'[r] = object[r] /\ useCount'[r] = useCount[r]
           /\ r # s => attached'[r] = attached[r] /\ detachDefer'[r] = detachDefer[r]
    BY <1>4 DEF DetachDeferTimerTimeout, TypeOK
  <2>2. attached'[s] <=> (attached[s] /\ useCount[s] # 0)
    BY <1>4 DEF DetachDeferTimerTimeout, TypeOK
  <2>3. Alive(s)
    BY <1>4 DEF DetachDeferTimerTimeout
  <2>4. useCount[s] > 0 => attached'[s]
    BY <1>0, <2>2, <2>3
  <2> QED BY <2>1, <2>2, <2>4 DEF Alive
<1>5. ASSUME NEW u \in User, NEW s \in Session, CreateSession(u, s)
      PROVE  AttachmentFollowsUse'
  <2>1. \A r \in Session : Alive(r)' => Alive(r)
    BY <1>5, OnlyManagedRemoved DEF CreateSession, Removed, Alive, TypeOK
  <2> QED BY <1>1, <1>5, <2>1 DEF CreateSession
<1>6. ASSUME NEW u \in User, RegisterNewSession(u)
      PROVE  AttachmentFollowsUse'
  <2>1. \A r \in Session : r # seen[u] => object'[r] = object[r]
    BY <1>6 DEF RegisterNewSession, TypeOK
  <2>2. useCount[seen[u]] = 0 /\ attached[seen[u]] = FALSE
    BY <1>6 DEF RegisterNewSession, StepOK, Creating, Quiet
  <2> QED BY <1>6, <2>1, <2>2 DEF RegisterNewSession, Alive
<1>7. ASSUME NEW u \in User,
             AcquireSession(u) \/ ReleaseSession(u) \/ DispatchMessageToHandlers(u)
      PROVE  AttachmentFollowsUse'
  BY <1>1, <1>7 DEF AcquireSession, ReleaseSession, DispatchMessageToHandlers, Alive
<1>8. ASSUME NEW s \in Session, SendMessageToHandlers(s)
      PROVE  AttachmentFollowsUse'
  BY <1>1, <1>8 DEF SendMessageToHandlers, userVars, Alive
<1>9. ASSUME NEW s \in Session, Destroy(s)
      PROVE  AttachmentFollowsUse'
  <2>1. \A r \in Session : Alive(r)' => r # s /\ Alive(r)
    BY <1>9 DEF Destroy, Alive, TypeOK
  <2>2. \A r \in Session : r # s => detachDefer'[r] = detachDefer[r]
    BY <1>9 DEF Destroy, TypeOK
  <2> QED BY <1>9, <2>1, <2>2 DEF Destroy
<1>10. KillExpiredSessions \/ KillAllSessions => AttachmentFollowsUse'
  <2>1. KillExpiredSessions \/ KillAllSessions =>
           \A r \in Session : Alive(r)' => Alive(r)
    BY OnlyManagedRemoved DEF KillExpiredSessions, KillAllSessions, Alive
  <2> QED BY <1>1, <2>1 DEF KillExpiredSessions, KillAllSessions
<1>11. CASE Aside
  BY <1>1, <1>11 DEF Aside, Alive
<1> QED BY <1>2, <1>3, <1>4, <1>5, <1>6, <1>7, <1>8, <1>9, <1>10, <1>11, AsideSteps
        DEF Next, UserNext, SessionNext, DeliverEvent

\* Every step keeps the inductive invariant.
LEMMA IInvStep ==
    ASSUME ~Reused, IInv, [Next]_vars
    PROVE  IInv'
<1>1. TypeOK' /\ StepOK'
  BY TypeStep, StepOKStep DEF IInv
<1> QED BY <1>1, QuietStep, CreatingStep, LinkedStep, InFlightStep, CountStep,
           AttachmentStep DEF IInv

\* With nothing in the queue, a handler is counted if it holds the session.
LEMMA IInvBalance == IInv => UseCountBalance
<1> SUFFICES ASSUME IInv, NEW s \in Session, Alive(s), NEW u \in User
             PROVE  /\ useCount[s] = Cardinality(counted[s])
                    /\ EventsOf(s, u) = {} => (u \in counted[s] <=> held[u] = s)
  BY CountedFinite DEF UseCountBalance, IInv, CountOK, Alive
<1>1. useCount[s] = Cardinality(counted[s])
  BY DEF IInv, CountOK, Alive
<1>2. EventsOf(s, u) = At(posted[s], u)
  BY DEF EventsOf, At
<1>3. Fits(posted[s], u, u \in counted[s], held[u] = s)
  BY DEF IInv, InFlight, Alive
<1> QED BY <1>1, <1>2, <1>3 DEF Fits

(* Where every handler serves one session, the use count of a session never
   is off, whatever is in flight. *)
THEOREM UseCountCorrect == ASSUME ~Reused PROVE Spec => []UseCountBalance
<1>1. Init => IInv
  BY IInvInit
<1>2. IInv /\ [Next]_vars => IInv'
  BY IInvStep
<1>3. IInv => UseCountBalance
  BY IInvBalance
<1> QED BY <1>1, <1>2, <1>3, PTL DEF Spec

(* attached() and detached() follow the use count. *)
THEOREM AttachmentCorrect == ASSUME ~Reused PROVE Spec => []AttachmentFollowsUse
<1>1. Init => IInv
  BY IInvInit
<1>2. IInv /\ [Next]_vars => IInv'
  BY IInvStep
<1>3. IInv => AttachmentFollowsUse
  BY DEF IInv
<1> QED BY <1>1, <1>2, <1>3, PTL DEF Spec

-----------------------------------------------------------------------------
(* What the sweep takes *)

\* Only a sweep makes a managed session a disposed one, and only if nobody is
\* counted to use it.
LEMMA OnlyUnusedDisposed ==
    ASSUME TypeOK, [Next]_vars, NEW s \in Session, object[s] = "managed",
           object'[s] = "disposed"
    PROVE  s \in Doomed
<1>1. ASSUME NEW u \in User, NEW r \in Session, CreateSession(u, r) PROVE s \in Doomed
  BY <1>1 DEF CreateSession, Removed, TypeOK
<1>2. ASSUME NEW u \in User, RegisterNewSession(u) PROVE s \in Doomed
  BY <1>2 DEF RegisterNewSession, TypeOK
<1>3. ASSUME NEW u \in User,
             AcquireSession(u) \/ ReleaseSession(u) \/ DispatchMessageToHandlers(u)
      PROVE  s \in Doomed
  BY <1>3 DEF AcquireSession, ReleaseSession, DispatchMessageToHandlers
<1>4. ASSUME NEW r \in Session,
             \/ IncrementUseCount(r) \/ DecrementUseCount(r) \/ SendMessageToHandlers(r)
             \/ DetachDeferTimerTimeout(r)
      PROVE  s \in Doomed
  BY <1>4 DEF IncrementUseCount, DecrementUseCount, SendMessageToHandlers,
              DetachDeferTimerTimeout
<1>5. ASSUME NEW r \in Session, Destroy(r) PROVE s \in Doomed
  BY <1>5 DEF Destroy, TypeOK
<1>6. CASE KillExpiredSessions
  BY <1>6 DEF KillExpiredSessions, Removed
<1>7. CASE KillAllSessions
  BY <1>7 DEF KillAllSessions, Removed
<1>8. CASE Aside
  BY <1>8 DEF Aside
<1> QED BY <1>1, <1>2, <1>3, <1>4, <1>5, <1>6, <1>7, <1>8, AsideSteps
        DEF Next, UserNext, SessionNext, DeliverEvent

(* A holder from whom the sweep takes the session has an event in the queue. *)
LEMMA ExpiryStep ==
    ASSUME IInv, [Next]_vars, NEW u \in User,
           held[u] \in Managed, object'[held[u]] = "disposed"
    PROVE  EventsOf(held[u], u) # {}
<1> DEFINE s == held[u]
<1>1. s \in Session /\ object[s] = "managed"
  BY DEF Managed
<1>2. useCount[s] = 0
  BY <1>1, OnlyUnusedDisposed DEF IInv, Doomed, Disposable
<1>3. useCount[s] = Cardinality(counted[s]) /\ IsFiniteSet(counted[s])
  BY <1>1, CountedFinite DEF IInv, CountOK
<1>4. u \notin counted[s]
  BY <1>2, <1>3, FS_EmptySet
<1> QED BY <1>1, <1>4, IInvBalance DEF UseCountBalance, Alive

(* Expiry never takes a session from a handler whose increment was executed,
   where every handler serves one session. *)
THEOREM ExpiryCorrect == ASSUME ~Reused PROVE Spec => ExpirySparesCountedHolders
<1>1. Init => IInv
  BY IInvInit
<1>2. IInv /\ [Next]_vars => IInv'
  BY IInvStep
<1>3. IInv /\ [Next]_vars =>
        [\A u \in User : (held[u] \in Managed /\ object'[held[u]] = "disposed")
                            => EventsOf(held[u], u) # {}]_vars
  BY ExpiryStep
<1> QED BY <1>1, <1>2, <1>3, PTL DEF Spec, ExpirySparesCountedHolders

-----------------------------------------------------------------------------
(* The grace period, whatever Reused is *)

(* The session's deletion is not posted. *)
Kept(s) == \A i \in 1..Len(posted[s]) : posted[s][i].op # "deleteLater"

(* Deletion is posted to removed sessions only; one that is being made known
   belongs to one handler, so that it is not made known again. *)
DeletionFollowsRemoval ==
    /\ \A s \in Session : object[s] \in {"none", "constructed", "managed"} => Kept(s)
    /\ \A u \in User : step[u] = "new" =>
         /\ object[seen[u]] = "constructed"
         /\ \A v \in User : v # u /\ step[v] = "new" => seen[v] # seen[u]

(* A session that was looked up since the last sweep is in the grace period, or
   its handler is about to put it there; after one sweep it is still managed. *)
LookupIsSpared ==
    \A u \in User :
        seen[u] # NULL /\ step[u] # "new" /\ sweeps[u] <= 1 =>
            /\ seen[u] \in Managed
            /\ sweeps[u] = 0 => seen[u] \in grace \/ step[u] = "grace"

GraceInv == TypeOK /\ StepOK /\ DeletionFollowsRemoval /\ LookupIsSpared

\* Posting anything else keeps a session.
LEMMA PostKeeps ==
    ASSUME TypeOK, NEW s \in Session, NEW e \in Event, e.op # "deleteLater",
           posted' = [posted EXCEPT ![s] = Append(@, e)]
    PROVE  \A r \in Session : Kept(r) => Kept(r)'
<1> SUFFICES ASSUME NEW r \in Session, Kept(r) PROVE Kept(r)'
  OBVIOUS
<1>1. posted[s] \in Seq(Event) /\ posted'[s] = Append(posted[s], e)
  BY DEF TypeOK
<1>2. CASE r = s
  BY <1>1, <1>2, AppendProperties DEF Kept
<1>3. CASE r # s
  BY <1>3 DEF Kept, TypeOK
<1> QED BY <1>2, <1>3

\* So does the delivery of an event.
LEMMA ConsumeKeeps ==
    ASSUME TypeOK, NEW s \in Session, posted[s] # <<>>, Consume(s)
    PROVE  \A r \in Session : Kept(r) => Kept(r)'
<1> SUFFICES ASSUME NEW r \in Session, Kept(r) PROVE Kept(r)'
  OBVIOUS
<1>1. posted[s] \in Seq(Event) /\ posted'[s] = Tail(posted[s])
  BY DEF TypeOK, Consume
<1>2. CASE r = s
  <2>1. /\ Len(posted[s]) \in Nat /\ Len(Tail(posted[s])) = Len(posted[s]) - 1
        /\ \A i \in 1..Len(Tail(posted[s])) : Tail(posted[s])[i] = posted[s][i + 1]
    BY <1>1, HeadTailProperties
  <2>2. \A i \in 1..Len(posted'[s]) : posted'[s][i].op # "deleteLater"
    BY <1>1, <1>2, <2>1 DEF Kept
  <2> QED BY <1>2, <2>2 DEF Kept
<1>3. CASE r # s
  BY <1>3 DEF Kept, TypeOK, Consume
<1> QED BY <1>2, <1>3

\* Every step keeps what is said of deletions.
LEMMA DeletionStep ==
    ASSUME TypeOK, StepOK, DeletionFollowsRemoval, [Next]_vars
    PROVE  DeletionFollowsRemoval'
<1> USE DEF DeletionFollowsRemoval
<1>1. ASSUME NEW u \in User, NEW s \in Session, CreateSession(u, s)
      PROVE  DeletionFollowsRemoval'
  <2>1. object'[s] = "constructed" /\ object[s] = "none"
    BY <1>1 DEF CreateSession, Removed, TypeOK
  <2>2. \A r \in Session :
           r # s => \/ object'[r] = object[r] /\ (r \in Doomed => posted' = posted)
                    \/ object'[r] = "disposed"
    BY <1>1 DEF CreateSession, Removed, TypeOK
  <2>3. \A r \in Session : r \notin Doomed \/ posted' = posted => posted'[r] = posted[r]
    BY <1>1 DEF CreateSession, Sweep, PostedDeletion
  <2>4. s \notin Doomed
    BY <2>1 DEF Doomed, Disposable, Managed
  <2>5. \A r \in Session :
           object'[r] \in {"none", "constructed", "managed"} =>
             posted'[r] = posted[r] /\ object[r] \in {"none", "constructed", "managed"}
    BY <2>1, <2>2, <2>3, <2>4
  <2>6. \A r \in Session : object[r] = "constructed" => object'[r] = "constructed"
    BY <1>1, <2>1, OnlyManagedRemoved DEF CreateSession, Removed, TypeOK
  <2>7. /\ step' = [step EXCEPT ![u] = "new"] /\ seen' = [seen EXCEPT ![u] = s]
    BY <1>1 DEF CreateSession
  <2>8. \A r \in Session : object'[r] \in {"none", "constructed", "managed"} => Kept(r)'
    BY <2>5 DEF Kept
  <2>9. \A v \in User : step'[v] = "new" =>
           /\ object'[seen'[v]] = "constructed"
           /\ \A w \in User : w # v /\ step'[w] = "new" => seen'[w] # seen'[v]
    BY <2>1, <2>6, <2>7 DEF StepOK, TypeOK
  <2> QED BY <2>8, <2>9
<1>2. ASSUME NEW u \in User, RegisterNewSession(u) PROVE DeletionFollowsRemoval'
  <2> DEFINE e == [op |-> "increment", by |-> u]
  <2>1. e \in Event /\ e.op # "deleteLater" /\ seen[u] \in Session
    BY <1>2 DEF Event, RegisterNewSession, StepOK
  <2>2. posted' = [posted EXCEPT ![seen[u]] = Append(@, e)]
    BY <1>2 DEF RegisterNewSession, Post
  <2>3. \A r \in Session : Kept(r) => Kept(r)'
    BY <2>1, <2>2, PostKeeps
  <2> QED BY <1>2, <2>3 DEF RegisterNewSession, StepOK, TypeOK
<1>3. ASSUME NEW u \in User, AcquireSession(u) PROVE DeletionFollowsRemoval'
  <2> DEFINE e == [op |-> "increment", by |-> u]
  <2>1. e \in Event /\ e.op # "deleteLater" /\ seen[u] \in Session
    BY <1>3 DEF Event, AcquireSession, Managed
  <2>2. posted' = [posted EXCEPT ![seen[u]] = Append(@, e)]
    BY <1>3 DEF AcquireSession, Post
  <2>3. \A r \in Session : Kept(r) => Kept(r)'
    BY <2>1, <2>2, PostKeeps
  <2> QED BY <1>3, <2>3 DEF AcquireSession, TypeOK
<1>4. ASSUME NEW u \in User, ReleaseSession(u) PROVE DeletionFollowsRemoval'
  <2> DEFINE e == [op |-> "decrement", by |-> u]
  <2>1. e \in Event /\ e.op # "deleteLater" /\ held[u] \in Session
    BY <1>4 DEF Event, ReleaseSession, TypeOK
  <2>2. posted' = [posted EXCEPT ![held[u]] = Append(@, e)]
    BY <1>4 DEF ReleaseSession, Post
  <2>3. \A r \in Session : Kept(r) => Kept(r)'
    BY <2>1, <2>2, PostKeeps
  <2> QED BY <1>4, <2>3 DEF ReleaseSession
<1>5. ASSUME NEW u \in User, DispatchMessageToHandlers(u) PROVE DeletionFollowsRemoval'
  <2> DEFINE e == [op |-> "message", by |-> NULL, caller |-> u]
  <2>1. e \in Event /\ e.op # "deleteLater" /\ Target(u) \in Session
    BY <1>5 DEF Event, DispatchMessageToHandlers, Managed
  <2>2. posted' = [posted EXCEPT ![Target(u)] = Append(@, e)]
    BY <1>5 DEF DispatchMessageToHandlers
  <2>3. \A r \in Session : Kept(r) => Kept(r)'
    BY <2>1, <2>2, PostKeeps
  <2> QED BY <1>5, <2>3 DEF DispatchMessageToHandlers, TypeOK
<1>6. ASSUME NEW s \in Session,
             IncrementUseCount(s) \/ DecrementUseCount(s) \/ SendMessageToHandlers(s)
      PROVE  DeletionFollowsRemoval'
  <2>1. posted[s] # <<>> /\ Consume(s)
    BY <1>6 DEF IncrementUseCount, DecrementUseCount, SendMessageToHandlers, Delivers
  <2>2. \A r \in Session : Kept(r) => Kept(r)'
    BY <2>1, ConsumeKeeps
  <2>3. UNCHANGED <<object, step, seen>>
    BY <1>6 DEF IncrementUseCount, DecrementUseCount, SendMessageToHandlers, userVars
  <2> QED BY <2>2, <2>3
<1>7. ASSUME NEW s \in Session, Destroy(s) PROVE DeletionFollowsRemoval'
  <2>1. \A r \in Session : r # s => object'[r] = object[r] /\ posted'[r] = posted[r]
    BY <1>7 DEF Destroy, TypeOK
  <2>2. object'[s] = "destroyed" /\ object[s] # "constructed"
    BY <1>7 DEF Destroy, TypeOK, Delivers, Alive
  <2>3. \A r \in Session : object'[r] \in {"none", "constructed", "managed"} => Kept(r)'
    BY <2>1, <2>2 DEF Kept
  <2>4. UNCHANGED <<step, seen>>
    BY <1>7 DEF Destroy
  <2> QED BY <2>1, <2>2, <2>3, <2>4 DEF StepOK
<1>8. CASE KillExpiredSessions
  <2>1. \A r \in Session : \/ object'[r] = object[r] /\ posted'[r] = posted[r]
                           \/ object'[r] = "disposed" /\ object[r] = "managed"
    <3> SUFFICES ASSUME NEW r \in Session
                 PROVE  \/ object'[r] = object[r] /\ posted'[r] = posted[r]
                        \/ object'[r] = "disposed" /\ object[r] = "managed"
      OBVIOUS
    <3>1. CASE r \in Doomed
      BY <1>8, <3>1 DEF KillExpiredSessions, Removed, Doomed, Disposable, Managed
    <3>2. CASE r \notin Doomed
      <4>1. Removed(Doomed, "disposed")[r] = object[r] /\ PostedDeletion(Doomed)[r] = posted[r]
        BY <3>2 DEF Removed, PostedDeletion
      <4>2. object' = Removed(Doomed, "disposed") /\ posted' = PostedDeletion(Doomed)
        BY <1>8 DEF KillExpiredSessions, Sweep
      <4>3. object'[r] = object[r] /\ posted'[r] = posted[r]
        BY <4>1, <4>2, Zenon
      <4> QED BY <4>3
    <3> QED BY <3>1, <3>2
  <2>2. \A r \in Session : object'[r] \in {"none", "constructed", "managed"} => Kept(r)'
    BY <2>1 DEF Kept
  <2>3. UNCHANGED <<step, seen>>
    BY <1>8 DEF KillExpiredSessions
  <2> QED BY <2>1, <2>2, <2>3 DEF StepOK
<1>9. CASE KillAllSessions
  <2>1. \A r \in Session : \/ object'[r] = object[r] /\ posted'[r] = posted[r]
                           \/ object'[r] = "killed" /\ object[r] = "managed"
    <3> SUFFICES ASSUME NEW r \in Session
                 PROVE  \/ object'[r] = object[r] /\ posted'[r] = posted[r]
                        \/ object'[r] = "killed" /\ object[r] = "managed"
      OBVIOUS
    <3>1. CASE r \in Managed
      BY <1>9, <3>1 DEF KillAllSessions, Removed, Managed
    <3>2. CASE r \notin Managed
      <4>1. Removed(Managed, "killed")[r] = object[r] /\ PostedDeletion(Managed)[r] = posted[r]
        BY <3>2 DEF Removed, PostedDeletion
      <4>2. object' = Removed(Managed, "killed") /\ posted' = PostedDeletion(Managed)
        BY <1>9 DEF KillAllSessions
      <4>3. object'[r] = object[r] /\ posted'[r] = posted[r]
        BY <4>1, <4>2, Zenon
      <4> QED BY <4>3
    <3> QED BY <3>1, <3>2
  <2>2. \A r \in Session : object'[r] \in {"none", "constructed", "managed"} => Kept(r)'
    BY <2>1 DEF Kept
  <2>3. UNCHANGED <<step, seen>>
    BY <1>9 DEF KillAllSessions
  <2> QED BY <2>1, <2>2, <2>3 DEF StepOK
<1>10. ASSUME NEW s \in Session, DetachDeferTimerTimeout(s) \/ TimeoutElapses(s)
       PROVE  DeletionFollowsRemoval'
  BY <1>10 DEF DetachDeferTimerTimeout, TimeoutElapses, userVars, Kept
<1>11. ASSUME NEW u \in User,
              \/ InsertGrace(u) \/ ForgetSession(u) \/ StoreTestingState(u)
              \/ \E d \in {"up", "down"} : LoadTestingState(u, d)
              \/ \E s \in Session : GetSession(u, s)
       PROVE  DeletionFollowsRemoval'
  <2>1. UNCHANGED <<object, posted>>
    BY <1>11 DEF InsertGrace, ForgetSession, StoreTestingState, LoadTestingState, GetSession,
                 sessionVars
  <2>2. \A v \in User : step'[v] = "new" => step[v] = "new" /\ seen'[v] = seen[v]
    BY <1>11 DEF InsertGrace, ForgetSession, StoreTestingState, LoadTestingState, GetSession,
                 Runs, TypeOK
  <2> QED BY <2>1, <2>2 DEF Kept
<1>12. CASE UNCHANGED vars
  BY <1>12 DEF vars, Kept
<1> QED BY <1>1, <1>2, <1>3, <1>4, <1>5, <1>6, <1>7, <1>8, <1>9, <1>10, <1>11, <1>12
        DEF Next, UserNext, SessionNext, DeliverEvent

\* Every step keeps what is said of lookups, as long as no two insertions into
\* the set of the grace period meet.
LEMMA LookupStep ==
    ASSUME GraceInv, UpdatesApart, [Next]_vars
    PROVE  LookupIsSpared'
<1> USE DEF GraceInv, LookupIsSpared
<1> DEFINE Spared(u) ==
        seen[u] # NULL /\ step[u] # "new" /\ sweeps[u] <= 1 =>
            /\ seen[u] \in Managed
            /\ sweeps[u] = 0 => seen[u] \in grace \/ step[u] = "grace"
<1>1. ASSUME UNCHANGED <<object, grace>>, NEW u \in User,
             \A v \in User : v # u =>
               seen'[v] = seen[v] /\ step'[v] = step[v] /\ sweeps'[v] = sweeps[v],
             Spared(u)'
      PROVE  LookupIsSpared'
  BY <1>1 DEF Managed
<1>2. ASSUME WriteLockFree, NEW r \in Session, object[r] # "managed",
             \A q \in Session : q # r => object'[q] = Removed(Doomed, "disposed")[q],
             Sweep,
             \A v \in User : \/ seen'[v] = seen[v] /\ step'[v] = step[v]
                                  /\ sweeps'[v] = SweepCounted[v]
                             \/ step'[v] = "new"
      PROVE  LookupIsSpared'
  <2> SUFFICES ASSUME NEW v \in User, seen'[v] # NULL, step'[v] # "new", sweeps'[v] <= 1
               PROVE  /\ seen'[v] \in Managed'
                      /\ sweeps'[v] = 0 => seen'[v] \in grace' \/ step'[v] = "grace"
    OBVIOUS
  <2>1. seen'[v] = seen[v] /\ step'[v] = step[v] /\ sweeps'[v] = SweepCounted[v]
    BY <1>2
  <2>2. sweeps[v] = 0 /\ sweeps'[v] = 1
    BY <2>1 DEF SweepCounted, TypeOK
  <2>3. seen[v] \in Managed /\ seen[v] \in grace
    BY <1>2, <2>1, <2>2 DEF WriteLockFree
  <2>4. seen[v] # r /\ seen[v] \notin Doomed
    BY <1>2, <2>3 DEF Doomed, Managed
  <2>5. object'[seen[v]] = "managed" /\ seen[v] \in Session
    BY <1>2, <2>3, <2>4 DEF Removed, Managed
  <2> QED BY <2>1, <2>2, <2>5 DEF Managed
<1>3. ASSUME NEW u \in User, NEW s \in Session, CreateSession(u, s) PROVE LookupIsSpared'
  <2>1. object[s] = "none"
    BY <1>3 DEF CreateSession
  <2>2. CASE WriteLockFree
    <3>1. /\ Sweep /\ object' = [Removed(Doomed, "disposed") EXCEPT ![s] = "constructed"]
          /\ sweeps' = [SweepCounted EXCEPT ![u] = 0]
          /\ seen' = [seen EXCEPT ![u] = s] /\ step' = [step EXCEPT ![u] = "new"]
      BY <1>3, <2>2 DEF CreateSession
    <3>2. \A q \in Session : q # s => object'[q] = Removed(Doomed, "disposed")[q]
      BY <3>1 DEF Removed
    <3>3. \A v \in User : \/ seen'[v] = seen[v] /\ step'[v] = step[v]
                               /\ sweeps'[v] = SweepCounted[v]
                          \/ step'[v] = "new"
      BY <3>1 DEF SweepCounted, TypeOK
    <3> QED BY <1>2, <2>1, <2>2, <3>1, <3>2, <3>3
  <2>3. CASE ~WriteLockFree
    BY <1>3, <2>1, <2>3 DEF CreateSession, TypeOK, Managed
  <2> QED BY <2>2, <2>3
<1>4. CASE KillExpiredSessions
  <2>1. CASE \E r \in Session : object[r] # "managed"
    BY <1>2, <1>4, <2>1 DEF KillExpiredSessions
  <2>2. CASE ~\E r \in Session : object[r] # "managed"
    <3> SUFFICES ASSUME NEW v \in User, seen[v] # NULL, step[v] # "new", sweeps'[v] <= 1
                 PROVE  seen[v] \in Managed' /\ sweeps'[v] # 0
      BY <1>4 DEF KillExpiredSessions
    <3>1. sweeps[v] = 0 /\ sweeps'[v] = 1
      BY <1>4 DEF KillExpiredSessions, SweepCounted, TypeOK
    <3>2. seen[v] \in Managed /\ seen[v] \in grace
      BY <1>4, <3>1 DEF KillExpiredSessions, WriteLockFree
    <3> QED BY <1>4, <3>1, <3>2 DEF KillExpiredSessions, Removed, Doomed, Managed
  <2> QED BY <2>1, <2>2
<1>5. CASE KillAllSessions
  BY <1>5 DEF KillAllSessions, TypeOK
<1>6. ASSUME NEW u \in User, RegisterNewSession(u) PROVE LookupIsSpared'
  <2>1. \A q \in Session : object[q] = "managed" => object'[q] = "managed"
    BY <1>6 DEF RegisterNewSession, TypeOK
  <2> QED BY <1>6, <2>1 DEF RegisterNewSession, Managed, TypeOK
<1>7. ASSUME NEW u \in User,
             \E s \in Session : GetSession(u, s)
      PROVE  LookupIsSpared'
  BY <1>1, <1>7 DEF GetSession, sessionVars, TypeOK, Managed
<1>8. ASSUME NEW u \in User, AcquireSession(u) PROVE LookupIsSpared'
  BY <1>1, <1>8 DEF AcquireSession, TypeOK, Managed
<1>9. ASSUME NEW u \in User, DispatchMessageToHandlers(u) PROVE LookupIsSpared'
  BY <1>1, <1>9 DEF DispatchMessageToHandlers, TypeOK, Managed, Target
<1>10. ASSUME NEW u \in User, InsertGrace(u) PROVE LookupIsSpared'
  <2>1. grace' = grace \cup {Target(u)}
    BY <1>10 DEF InsertGrace, UpdatesApart
  <2>2. UNCHANGED <<object, seen, sweeps>> /\ step' = [step EXCEPT ![u] = "idle"]
    BY <1>10 DEF InsertGrace
  <2> QED BY <1>10, <2>1, <2>2 DEF InsertGrace, Managed, Target, TypeOK
<1>11. ASSUME NEW u \in User,
              \/ ReleaseSession(u) \/ ForgetSession(u) \/ StoreTestingState(u)
              \/ \E d \in {"up", "down"} : LoadTestingState(u, d)
       PROVE  LookupIsSpared'
  <2>1. ReleaseSession(u) => UNCHANGED <<object, grace, seen, step, sweeps>>
    BY DEF ReleaseSession
  <2>2. CASE ForgetSession(u)
    BY <1>1, <2>2 DEF ForgetSession, sessionVars, TypeOK
  <2>3. CASE StoreTestingState(u)
    BY <1>1, <2>3 DEF StoreTestingState, TypeOK, Managed
  <2>4. CASE \E d \in {"up", "down"} : LoadTestingState(u, d)
    BY <1>1, <2>4 DEF LoadTestingState, Runs, sessionVars, TypeOK, Managed
  <2> QED BY <1>11, <2>1, <2>2, <2>3, <2>4 DEF Managed
<1>12. ASSUME NEW s \in Session, Destroy(s) PROVE LookupIsSpared'
  <2>1. 1 \in 1..Len(posted[s]) /\ posted[s][1].op = "deleteLater"
    BY <1>12, HeadTailProperties DEF Destroy, Delivers, TypeOK
  <2>2. object[s] # "managed"
    BY <2>1 DEF DeletionFollowsRemoval, Kept
  <2>3. \A q \in Session : object[q] = "managed" => object'[q] = "managed"
    BY <1>12, <2>2 DEF Destroy, TypeOK
  <2> QED BY <1>12, <2>3 DEF Destroy, Managed
<1>13. ASSUME NEW s \in Session,
              \/ IncrementUseCount(s) \/ DecrementUseCount(s) \/ SendMessageToHandlers(s)
              \/ DetachDeferTimerTimeout(s) \/ TimeoutElapses(s)
       PROVE  LookupIsSpared'
  BY <1>13 DEF IncrementUseCount, DecrementUseCount, SendMessageToHandlers,
               DetachDeferTimerTimeout, TimeoutElapses, userVars, Managed
<1>14. CASE UNCHANGED vars
  BY <1>14 DEF vars, Managed
<1> QED BY <1>3, <1>4, <1>5, <1>6, <1>7, <1>8, <1>9, <1>10, <1>11, <1>12, <1>13, <1>14
        DEF Next, UserNext, SessionNext, DeliverEvent

(* What getSession returned outlives the next sweep, if no insertion into the
   set of the grace period is lost. *)
THEOREM GraceCorrect == Spec => GraceProtectsLookup
<1>1. Init => GraceInv
  <2>1. Init => TypeOK /\ StepOK
    BY TypeInit
  <2>2. Init => DeletionFollowsRemoval /\ LookupIsSpared
    BY EmptySeq DEF Init, DeletionFollowsRemoval, Kept, LookupIsSpared
  <2> QED BY <2>1, <2>2 DEF GraceInv
<1>2. GraceInv /\ UpdatesApart /\ [Next]_vars => GraceInv'
  <2> SUFFICES ASSUME GraceInv, UpdatesApart, [Next]_vars PROVE GraceInv'
    OBVIOUS
  <2>1. TypeOK' /\ StepOK'
    BY TypeStep, StepOKStep DEF GraceInv
  <2>2. DeletionFollowsRemoval'
    BY DeletionStep DEF GraceInv
  <2> QED BY <2>1, <2>2, LookupStep DEF GraceInv
<1>3. GraceInv => \A u \in User : (seen[u] # NULL /\ step[u] # "new" /\ sweeps[u] <= 1)
                                      => seen[u] \in Managed
  BY DEF GraceInv, LookupIsSpared
<1> QED BY <1>1, <1>2, <1>3, PTL DEF Spec, GraceProtectsLookup
=============================================================================
