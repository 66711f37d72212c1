------------------------- MODULE FrameProtocolProofs -------------------------
(***************************************************************************)
(* The flow control of a display and the pictures of its client, for any    *)
(* number of tiles, colours, frames, changes and faults: no update is lost, *)
(* encoded images do not pile up, frames follow one after the other, and    *)
(* each gives the picture of the server.                                    *)
(***************************************************************************)
EXTENDS FrameProtocol, FiniteSetTheorems, SequenceTheorems, TLAPS

-----------------------------------------------------------------------------
(* Types, and what a frame adds to the messages on their way *)

\* What is being handled came through the connection, which does not break meanwhile.
HandlingOK ==
    /\ taking # "no" => connected
    /\ fullUpdating # "no" => connected /\ up # <<>>

\* The buffers show what the scene has had, or are blank.
TypeInv == TypeOK /\ work \in [Tile -> Color \cup {Clear}] /\ HandlingOK

Operation(m) == m.command \in {"fR", "mI", "dI"}

\* The frame being made has an operation for each of some tiles.
MakingOK ==
    /\ \A i \in DOMAIN operations :
        /\ Operation(operations[i])
        /\ operations[i].frame = IF taking = "found" THEN frame + 1 ELSE frame
    /\ \A i, j \in DOMAIN operations : operations[i].tile = operations[j].tile => i = j
    /\ taking \notin {"found", "begun", "emitting"} => operations = <<>>
    /\ marked => taking = "emitting"

\* A finite set in some order.
LEMMA SetInOrder ==
  ASSUME NEW S, IsFiniteSet(S)
  PROVE  /\ SetToSeq(S) \in Seq(S)
         /\ \A i, j \in DOMAIN SetToSeq(S) : SetToSeq(S)[i] = SetToSeq(S)[j] => i = j
         /\ \A x \in S : \E i \in DOMAIN SetToSeq(S) : SetToSeq(S)[i] = x
  <1> DEFINE n == Cardinality(S)
             q == SetToSeq(S)
  <1>1. n \in Nat /\ ExistsBijection(1..n, S)
    BY FS_CardinalityType
  <1>2. \E f \in [1..n -> S] : IsInjective(f)
    BY <1>1 DEF ExistsBijection, Bijection, Injection
  <1>3. q \in [1..n -> S] /\ IsInjective(q)
    BY <1>2 DEF SetToSeq
  <1>4. ASSUME NEW x \in S, \A i \in 1..n : q[i] # x PROVE FALSE
    <2>1. q \in [1..n -> S \ {x}]
      BY <1>3, <1>4
    <2>2. q \in Injection(1..n, S \ {x})
      BY <1>3, <2>1 DEF Injection
    <2>3. IsFiniteSet(S \ {x}) /\ Cardinality(S \ {x}) = n - 1
      BY FS_RemoveElement
    <2>4. IsFiniteSet(1..n) /\ Cardinality(1..n) = n
      BY <1>1, FS_Interval
    <2> QED BY <1>1, <2>2, <2>3, <2>4, FS_Injection
  <1>5. q \in Seq(S) /\ DOMAIN q = 1..n
    BY <1>1, <1>3
  <1> QED BY <1>3, <1>4, <1>5 DEF IsInjective

LEMMA OperationsAreMessages ==
  ASSUME TypeInv
  PROVE  /\ IsFiniteSet(Changed) /\ IsFiniteSet({UpdateOperation(t) : t \in Changed})
         /\ \A t \in Changed : /\ UpdateOperation(t) \in Message
                               /\ UpdateOperation(t).command \in {"fR", "mI", "dI"}
                               /\ UpdateOperation(t).tile = t
                               /\ UpdateOperation(t).frame = frame + 1
  <1>1. IsFiniteSet(Changed) /\ Changed \subseteq Tile
    BY TileAssumption, FS_Subset DEF Changed, TypeInv, TypeOK
  <1>2. IsFiniteSet({UpdateOperation(t) : t \in Changed})
    <2> DEFINE S == {UpdateOperation(t) : t \in Changed}
               f == [t \in Changed |-> UpdateOperation(t)]
    <2>1. f \in Surjection(Changed, S)
      BY DEF Surjection
    <2> QED BY <1>1, <2>1, FS_Surjection
  <1>3. ASSUME NEW t \in Changed
        PROVE  /\ UpdateOperation(t) \in Message
               /\ UpdateOperation(t).command \in {"fR", "mI", "dI"}
               /\ UpdateOperation(t).tile = t
               /\ UpdateOperation(t).frame = frame + 1
    <2>1. t \in Tile /\ work[t] \in Color \cup {Clear} /\ frame + 1 \in Nat
      BY <1>1 DEF TypeInv, TypeOK
    <2>2. Sources(t) # {} => (CHOOSE s \in Sources(t) : TRUE) \in Tile
      BY DEF Sources
    <2> QED BY <2>1, <2>2 DEF UpdateOperation, Message
  <1> QED BY <1>1, <1>2, <1>3

\* The operations that are found: one for each tile that has changed.
LEMMA OperationsFound ==
  ASSUME TypeInv, NEW q, q = SetToSeq({UpdateOperation(t) : t \in Changed})
  PROVE  /\ q \in Seq(Message)
         /\ \A i \in DOMAIN q : \E t \in Changed : q[i] = UpdateOperation(t)
         /\ \A t \in Changed : \E i \in DOMAIN q : q[i] = UpdateOperation(t)
         /\ \A i, j \in DOMAIN q : q[i].tile = q[j].tile => i = j
  <1> DEFINE S == {UpdateOperation(t) : t \in Changed}
  <1>1. IsFiniteSet(S) /\ S \subseteq Message
    BY OperationsAreMessages
  <1>2. /\ q \in Seq(S)
        /\ \A i, j \in DOMAIN q : q[i] = q[j] => i = j
        /\ \A x \in S : \E i \in DOMAIN q : q[i] = x
    BY <1>1, SetInOrder
  <1>3. q \in Seq(Message)
    BY <1>1, <1>2, SeqMonotonic
  <1>4. \A i \in DOMAIN q : q[i] \in S
    <2> HIDE DEF S
    <2> QED BY <1>2
  <1>5. \A t, u \in Changed : UpdateOperation(t).tile = UpdateOperation(u).tile => t = u
    BY OperationsAreMessages
  <1>6. \A i \in DOMAIN q : \E t \in Changed : q[i] = UpdateOperation(t)
    BY <1>4
  <1>7. \A t \in Changed : \E i \in DOMAIN q : q[i] = UpdateOperation(t)
    BY <1>2
  <1>8. ASSUME NEW i \in DOMAIN q, NEW j \in DOMAIN q, q[i].tile = q[j].tile
        PROVE  i = j
    <2>1. PICK t \in Changed : q[i] = UpdateOperation(t)
      BY <1>6
    <2>2. PICK u \in Changed : q[j] = UpdateOperation(u)
      BY <1>6
    <2>3. q[i] = q[j]
      BY <1>5, <1>8, <2>1, <2>2
    <2> QED BY <1>2, <2>3
  <1> QED BY <1>3, <1>6, <1>7, <1>8

\* r is made of four parts.
Parts(r, a, b, c, d) ==
    /\ Len(r) = Len(a) + Len(b) + Len(c) + Len(d)
    /\ \A i \in 1..Len(a) : r[i] = a[i]
    /\ \A i \in 1..Len(b) : r[Len(a) + i] = b[i]
    /\ \A i \in 1..Len(c) : r[Len(a) + Len(b) + i] = c[i]
    /\ \A i \in 1..Len(d) : r[Len(a) + Len(b) + Len(c) + i] = d[i]

LEMMA FourParts ==
  ASSUME NEW S, NEW a \in Seq(S), NEW b \in Seq(S), NEW c \in Seq(S), NEW d \in Seq(S)
  PROVE  a \o b \o c \o d \in Seq(S) /\ Parts(a \o b \o c \o d, a, b, c, d)
  <1>1. ASSUME NEW p \in Seq(S), NEW q \in Seq(S)
        PROVE  /\ p \o q \in Seq(S) /\ Len(p \o q) = Len(p) + Len(q)
               /\ \A i \in 1..Len(p) : (p \o q)[i] = p[i]
               /\ \A i \in 1..Len(q) : (p \o q)[Len(p) + i] = q[i]
    <2>1. Len(p) \in Nat /\ Len(q) \in Nat
      OBVIOUS
    <2>2. \A i \in 1..Len(q) : /\ Len(p) + i \in 1..(Len(p) + Len(q)) /\ ~(Len(p) + i <= Len(p))
                               /\ (Len(p) + i) - Len(p) = i
      BY <2>1
    <2>3. \A i \in 1..Len(p) : i \in 1..(Len(p) + Len(q)) /\ i <= Len(p)
      BY <2>1
    <2> QED BY <2>2, <2>3, ConcatProperties
  <1> DEFINE ab == a \o b
             abc == ab \o c
             abcd == abc \o d
  <1>2. /\ Len(a) \in Nat /\ Len(b) \in Nat /\ Len(c) \in Nat /\ Len(d) \in Nat
    OBVIOUS
  <1>3. /\ ab \in Seq(S) /\ Len(ab) = Len(a) + Len(b)
        /\ \A i \in 1..Len(a) : ab[i] = a[i]
        /\ \A i \in 1..Len(b) : ab[Len(a) + i] = b[i]
    BY <1>1
  <1> HIDE DEF ab
  <1>4. /\ abc \in Seq(S) /\ Len(abc) = Len(ab) + Len(c)
        /\ \A i \in 1..Len(ab) : abc[i] = ab[i]
        /\ \A i \in 1..Len(c) : abc[Len(ab) + i] = c[i]
    BY <1>1, <1>3
  <1> HIDE DEF abc
  <1>5. /\ abcd \in Seq(S) /\ Len(abcd) = Len(abc) + Len(d)
        /\ \A i \in 1..Len(abc) : abcd[i] = abc[i]
        /\ \A i \in 1..Len(d) : abcd[Len(abc) + i] = d[i]
    BY <1>1, <1>4
  <1> HIDE DEF abcd
  <1>6. /\ \A i \in 1..Len(a) : i \in 1..Len(ab) /\ i \in 1..Len(abc)
        /\ \A i \in 1..Len(b) : Len(a) + i \in 1..Len(ab) /\ Len(a) + i \in 1..Len(abc)
        /\ \A i \in 1..Len(c) : Len(ab) + i \in 1..Len(abc)
    BY <1>2, <1>3, <1>4
  <1>7. abcd \in Seq(S) /\ Parts(abcd, a, b, c, d)
    BY <1>2, <1>3, <1>4, <1>5, <1>6 DEF Parts
  <1> QED BY <1>7 DEF abcd, abc, ab

\* What makes the operations a frame.
Opening == IF marked THEN <<[command |-> "fullUpdate", frame |-> frame]>> ELSE <<>>
Closing == IF operations = <<>> THEN <<>> ELSE <<[command |-> "end", frame |-> frame]>>

LEMMA BracketMessages ==
  ASSUME TypeInv PROVE Opening \in Seq(Message) /\ Closing \in Seq(Message)
  <1>1. \A command \in {"fullUpdate", "end"} : [command |-> command, frame |-> frame] \in Message
    BY DEF Message, TypeInv, TypeOK
  <1>2. \A m \in Message : <<m>> \in Seq(Message)
    OBVIOUS
  <1> QED BY <1>1, <1>2, EmptySeq DEF Opening, Closing

\* What is new in the connection: the full update, an operation for each rectangle that
\* has changed, the end of the frame.
LEMMA EmittedMessages ==
  ASSUME TypeInv, MakingOK, EndFrame
  PROVE  /\ down' \in Seq(Message) /\ Len(down) \in Nat
         /\ DOMAIN down = 1..Len(down) /\ DOMAIN down' = 1..Len(down') /\ Len(down) <= Len(down')
         /\ \A i \in DOMAIN down : down'[i] = down[i]
         /\ marked => /\ Len(down) + 1 \in DOMAIN down'
                                   /\ down'[Len(down) + 1] = [command |-> "fullUpdate", frame |-> frame]
         /\ \A k \in DOMAIN down' : k > Len(down) =>
              \/ /\ marked /\ k = Len(down) + 1
                 /\ down'[k] = [command |-> "fullUpdate", frame |-> frame]
              \/ /\ marked => k > Len(down) + 1
                 /\ operations # <<>> /\ k < Len(down')
                 /\ \E o \in DOMAIN operations : down'[k] = operations[o]
              \/ /\ marked => k > Len(down) + 1
                 /\ operations # <<>> /\ k = Len(down')
                 /\ down'[k] = [command |-> "end", frame |-> frame]
         /\ \A o \in DOMAIN operations : \E k \in DOMAIN down' : k > Len(down) /\ down'[k] = operations[o]
         /\ \A k, l \in DOMAIN down' :
              /\ k > Len(down) /\ l > Len(down) /\ k # l
              /\ \E o \in DOMAIN operations : down'[k] = operations[o]
              /\ \E o \in DOMAIN operations : down'[l] = operations[o]
              => down'[k].tile # down'[l].tile
  <1> DEFINE L == Len(down)
             B == Len(Opening)
             N == Len(operations)
  <1>1. down' = down \o Opening \o operations \o Closing
    BY DEF EndFrame, Opening, Closing
  <1>2. /\ down \in Seq(Message) /\ Opening \in Seq(Message) /\ operations \in Seq(Message)
        /\ Closing \in Seq(Message)
    BY BracketMessages DEF TypeInv, TypeOK
  <1>3. /\ down' \in Seq(Message)
        /\ Len(down') = L + B + N + Len(Closing)
        /\ \A i \in 1..L : down'[i] = down[i]
        /\ \A i \in 1..B : down'[L + i] = Opening[i]
        /\ \A i \in 1..N : down'[L + B + i] = operations[i]
        /\ \A i \in 1..Len(Closing) : down'[L + B + N + i] = Closing[i]
    <2>1. down' \in Seq(Message) /\ Parts(down', down, Opening, operations, Closing)
      BY <1>1, <1>2, FourParts
    <2> QED BY <2>1 DEF Parts
  <1>4. /\ L \in Nat /\ N \in Nat /\ DOMAIN down = 1..L /\ DOMAIN operations = 1..N
        /\ DOMAIN down' = 1..Len(down')
    <2> HIDE DEF Message
    <2> QED BY <1>2, <1>3
  <1>5. /\ B = IF marked THEN 1 ELSE 0
        /\ marked => Opening[1] = [command |-> "fullUpdate", frame |-> frame]
    BY DEF Opening
  <1>6. /\ Len(Closing) = IF operations = <<>> THEN 0 ELSE 1
        /\ operations # <<>> => Closing[1] = [command |-> "end", frame |-> frame]
    BY DEF Closing
  <1>7. \A i, j \in 1..N : operations[i].tile = operations[j].tile => i = j
    BY <1>4 DEF MakingOK
  <1>8. operations = <<>> => N = 0
    OBVIOUS
  <1> HIDE DEF L, B, N
  <1>9. marked => /\ L + 1 \in DOMAIN down'
                               /\ down'[L + 1] = [command |-> "fullUpdate", frame |-> frame]
    BY <1>3, <1>4, <1>5, <1>6
  <1>10. \A k \in DOMAIN down' : k > L =>
              \/ marked /\ k = L + 1
              \/ /\ marked => k > L + 1
                 /\ operations # <<>> /\ k < Len(down')
                 /\ k - (L + B) \in 1..N /\ k = L + B + (k - (L + B))
              \/ /\ marked => k > L + 1
                 /\ operations # <<>> /\ k = L + B + N + 1 /\ k = Len(down')
    <2>1. CASE marked /\ operations = <<>>
      <3>1. B = 1 /\ N = 0 /\ Len(down') = L + 1
        BY <1>3, <1>4, <1>5, <1>6, <1>8, <2>1
      <3> QED BY <1>4, <2>1, <3>1
    <2>2. CASE marked /\ operations # <<>>
      <3>1. B = 1 /\ Len(down') = L + 1 + N + 1
        BY <1>3, <1>4, <1>5, <1>6, <2>2
      <3> QED BY <1>4, <2>2, <3>1
    <2>3. CASE ~marked /\ operations = <<>>
      <3>1. B = 0 /\ N = 0 /\ Len(down') = L
        BY <1>3, <1>4, <1>5, <1>6, <1>8, <2>3
      <3> QED BY <1>4, <2>3, <3>1
    <2>4. CASE ~marked /\ operations # <<>>
      <3>1. B = 0 /\ Len(down') = L + N + 1
        BY <1>3, <1>4, <1>5, <1>6, <2>4
      <3> QED BY <1>4, <2>4, <3>1
    <2> QED BY <2>1, <2>2, <2>3, <2>4
  <1>11. \A k \in DOMAIN down' : k > L =>
              \/ /\ marked /\ k = L + 1
                 /\ down'[k] = [command |-> "fullUpdate", frame |-> frame]
              \/ /\ marked => k > L + 1
                 /\ operations # <<>> /\ k < Len(down')
                 /\ \E o \in DOMAIN operations : down'[k] = operations[o]
              \/ /\ marked => k > L + 1
                 /\ operations # <<>> /\ k = Len(down')
                 /\ down'[k] = [command |-> "end", frame |-> frame]
    <2> SUFFICES ASSUME NEW k \in DOMAIN down', k > L
                 PROVE  \/ /\ marked /\ k = L + 1
                           /\ down'[k] = [command |-> "fullUpdate", frame |-> frame]
                        \/ /\ marked => k > L + 1
                           /\ operations # <<>> /\ k < Len(down')
                           /\ \E o \in DOMAIN operations : down'[k] = operations[o]
                        \/ /\ marked => k > L + 1
                           /\ operations # <<>> /\ k = Len(down')
                           /\ down'[k] = [command |-> "end", frame |-> frame]
      OBVIOUS
    <2>1. CASE marked /\ k = L + 1
      BY <1>9, <2>1
    <2>2. CASE /\ marked => k > L + 1
               /\ operations # <<>> /\ k < Len(down')
               /\ k - (L + B) \in 1..N /\ k = L + B + (k - (L + B))
      <3>1. down'[k] = operations[k - (L + B)]
        BY <1>3, <2>2
      <3> QED BY <1>4, <2>2, <3>1
    <2>3. CASE /\ marked => k > L + 1
               /\ operations # <<>> /\ k = L + B + N + 1 /\ k = Len(down')
      <3>1. 1 \in 1..Len(Closing)
        BY <1>6, <2>3
      <3>2. down'[k] = Closing[1]
        BY <1>3, <2>3, <3>1
      <3> QED BY <1>6, <2>3, <3>2
    <2> QED BY <1>10, <2>1, <2>2, <2>3
  <1>12. \A i \in 1..N : L + B + i \in DOMAIN down' /\ L + B + i > L
    BY <1>3, <1>4, <1>5, <1>6
  <1>13. \A o \in DOMAIN operations : \E k \in DOMAIN down' : k > L /\ down'[k] = operations[o]
    BY <1>3, <1>4, <1>12
  <1>14. ASSUME NEW k \in DOMAIN down', NEW l \in DOMAIN down', k > L, l > L, k # l,
                \E o \in DOMAIN operations : down'[k] = operations[o],
                \E o \in DOMAIN operations : down'[l] = operations[o],
                down'[k].tile = down'[l].tile
         PROVE  FALSE
    <2>1. \A o \in DOMAIN operations : operations[o].command \in {"fR", "mI", "dI"}
      BY DEF MakingOK, Operation
    <2>2. down'[k].command \in {"fR", "mI", "dI"} /\ down'[l].command \in {"fR", "mI", "dI"}
      BY <1>14, <2>1
    <2>3. k # L + B + N + 1 \/ ~(operations # <<>> /\ k = L + B + N + 1 /\ k = Len(down'))
      BY <1>3, <1>6, <2>2
    <2>4. /\ k - (L + B) \in 1..N /\ k = L + B + (k - (L + B))
          /\ l - (L + B) \in 1..N /\ l = L + B + (l - (L + B))
      <3>1. ~(marked /\ k = L + 1) /\ ~(marked /\ l = L + 1)
        BY <1>9, <2>2
      <3>2. operations # <<>> => /\ 1 \in 1..Len(Closing)
                            /\ down'[L + B + N + 1] = [command |-> "end", frame |-> frame]
        BY <1>3, <1>6
      <3> QED BY <1>10, <1>14, <2>2, <3>1, <3>2
    <2>5. down'[k] = operations[k - (L + B)] /\ down'[l] = operations[l - (L + B)]
      BY <1>3, <2>4
    <2> QED BY <1>7, <1>14, <2>4, <2>5
  <1>15. L <= Len(down')
    BY <1>3, <1>4, <1>5, <1>6
  <1> QED BY <1>3, <1>4, <1>9, <1>11, <1>13, <1>14, <1>15 DEF L

-----------------------------------------------------------------------------
(* Every variable keeps its type *)

\* The fields of the messages the display sends.
LEMMA MessageFields ==
  ASSUME NEW m \in Message
  PROVE  /\ m.command \in {"fullUpdate", "end", "fR", "mI", "dI"} /\ m.frame \in Nat
         /\ m.command \in {"fR", "mI", "dI"} => m.tile \in Tile
         /\ m.command \in {"fR", "dI"} => m.color \in Color \cup {Clear}
         /\ m.command = "mI" => m.from \in Tile
  BY DEF Message

LEMMA DownHead ==
  ASSUME TypeOK, down # <<>>
  PROVE  /\ Head(down) = down[1] /\ Head(down) \in Message /\ Tail(down) \in Seq(Message)
         /\ Len(down) \in Nat /\ Len(down) >= 1
         /\ DOMAIN down = 1..Len(down) /\ DOMAIN Tail(down) = 1..(Len(down) - 1)
         /\ \A i \in DOMAIN Tail(down) : Tail(down)[i] = down[i + 1] /\ i + 1 \in DOMAIN down
  <1>1. down \in Seq(Message)
    BY DEF TypeOK
  <1> HIDE DEF Message
  <1> QED BY <1>1

LEMMA UpHead ==
  ASSUME TypeOK, up # <<>>
  PROVE  /\ Head(up) = up[1] /\ Head(up) \in Request /\ Tail(up) \in Seq(Request)
         /\ Len(up) \in Nat /\ Len(up) >= 1
         /\ DOMAIN up = 1..Len(up) /\ DOMAIN Tail(up) = 1..(Len(up) - 1)
         /\ \A i \in DOMAIN Tail(up) : Tail(up)[i] = up[i + 1] /\ i + 1 \in DOMAIN up
  <1>1. up \in Seq(Request)
    BY DEF TypeOK
  <1> HIDE DEF Request
  <1> QED BY <1>1

LEMMA UpAppend ==
  ASSUME TypeOK, NEW r \in Request
  PROVE  /\ Append(up, r) \in Seq(Request) /\ up \o <<r>> = Append(up, r)
         /\ \A s \in Request : up \o <<r>> \o <<s>> = Append(Append(up, r), s)
         /\ \A s \in Request : up \o <<r>> \o <<s>> \in Seq(Request)
         /\ up \o <<r>> \o <<>> = Append(up, r)
         /\ up # <<>> => /\ Append(up, r) # <<>> /\ Head(Append(up, r)) = Head(up)
                         /\ \A s \in Request : /\ Append(Append(up, r), s) # <<>>
                                               /\ Head(Append(Append(up, r), s)) = Head(up)
  <1>1. up \in Seq(Request)
    BY DEF TypeOK
  <1> HIDE DEF Request
  <1>2. /\ Append(up, r) \in Seq(Request) /\ up \o <<r>> = Append(up, r)
    BY <1>1, AppendIsConcat
  <1>3. \A s \in Request : up \o <<r>> \o <<s>> = Append(Append(up, r), s)
    BY <1>2, AppendIsConcat
  <1>4. \A s \in Request : Append(Append(up, r), s) \in Seq(Request)
    BY <1>2
  <1>5. up \o <<r>> \o <<>> = Append(up, r)
    BY <1>2, ConcatEmptySeq
  <1>6. ASSUME NEW q \in Seq(Request), NEW s \in Request, q # <<>>
        PROVE  Append(q, s) # <<>> /\ Head(Append(q, s)) = Head(q)
    <2>1. /\ Len(q) \in Nat /\ Len(q) >= 1 /\ Len(Append(q, s)) = Len(q) + 1
          /\ \A i \in 1..Len(q) : Append(q, s)[i] = q[i]
          /\ Append(q, s) \in Seq(Request)
      BY <1>6, AppendProperties
    <2> QED BY <1>6, <2>1
  <1>7. up # <<>> => /\ Append(up, r) # <<>> /\ Head(Append(up, r)) = Head(up)
                     /\ \A s \in Request : /\ Append(Append(up, r), s) # <<>>
                                           /\ Head(Append(Append(up, r), s)) = Head(up)
    BY <1>1, <1>2, <1>6
  <1> QED BY <1>2, <1>3, <1>4, <1>5, <1>7

LEMMA TypeInit == Init => TypeInv
  <1> SUFFICES ASSUME Init PROVE TypeInv
    OBVIOUS
  <1> USE DEF Init
  <1>1. down \in Seq(Message) /\ up \in Seq(Request) /\ operations \in Seq(Message)
    OBVIOUS
  <1>2. /\ work \in [Tile -> Color \cup {Clear}] /\ work \in Picture /\ other \in Picture
        /\ canvas \in Picture /\ front \in Picture
    BY DEF Blank, Picture
  <1>3. scene \in [Tile -> Color] /\ damage \subseteq Tile /\ rects \subseteq Tile
    OBVIOUS
  <1>4. /\ updates \in BOOLEAN /\ timer \in BOOLEAN /\ updateAvailable \in BOOLEAN
        /\ clientReady \in BOOLEAN /\ fullUpdateRequested \in BOOLEAN /\ requesting \in BOOLEAN
        /\ connected \in BOOLEAN /\ frameEndReceived \in BOOLEAN /\ marked \in BOOLEAN
        /\ waitingForFullUpdate \in BOOLEAN /\ fullUpdating \in {"no", "blanked", "ready"}
        /\ taking \in {"no", "checked", "claimed", "painted", "found", "begun", "emitting"}
    OBVIOUS
  <1>5. /\ frame \in Nat /\ patches \subseteq Image /\ lastFrame \in Nat \cup {-1}
        /\ frameErrors \in Nat /\ pendingPatches \in Int /\ loading \subseteq Image
        /\ fetched \subseteq loading /\ session \in Nat /\ written \in Nat
        /\ overtaken \subseteq Nat /\ unmarked \subseteq Nat
    OBVIOUS
  <1>6. changes \in 0..MaxChanges /\ disconnects \in 0..MaxDisconnects /\ faults \in 0..MaxFaults
    BY BoundAssumption
  <1>7. HandlingOK
    BY DEF HandlingOK
  <1> QED BY <1>1, <1>2, <1>3, <1>4, <1>5, <1>6, <1>7 DEF TypeOK, TypeInv

\* The parts of the type invariant: the display, the frame being made, the browser,
\* the bounds, the messages.
RendererOK ==
    /\ scene \in [Tile -> Color] /\ work \in Picture /\ other \in Picture
    /\ work \in [Tile -> Color \cup {Clear}]
    /\ damage \subseteq Tile /\ patches \subseteq Image
    /\ updates \in BOOLEAN /\ timer \in BOOLEAN /\ updateAvailable \in BOOLEAN
    /\ clientReady \in BOOLEAN /\ fullUpdateRequested \in BOOLEAN
    /\ frame \in Nat /\ session \in Nat /\ requesting \in BOOLEAN

FrameTyped ==
    /\ taking \in {"no", "checked", "claimed", "painted", "found", "begun", "emitting"}
    /\ fullUpdating \in {"no", "blanked", "ready"}
    /\ rects \subseteq Tile /\ operations \in Seq(Message)
    /\ written \in Nat /\ marked \in BOOLEAN
    /\ overtaken \subseteq Nat /\ unmarked \subseteq Nat

BrowserOK ==
    /\ connected \in BOOLEAN /\ canvas \in Picture /\ front \in Picture
    /\ lastFrame \in Nat \cup {-1}
    /\ frameEndReceived \in BOOLEAN /\ waitingForFullUpdate \in BOOLEAN
    /\ frameErrors \in Nat /\ pendingPatches \in Int
    /\ loading \subseteq Image /\ fetched \subseteq loading

BoundsOK ==
    changes \in 0..MaxChanges /\ disconnects \in 0..MaxDisconnects /\ faults \in 0..MaxFaults

MessagesOK == down \in Seq(Message) /\ up \in Seq(Request)

LEMMA TypeParts ==
  /\ TypeInv <=> RendererOK /\ FrameTyped /\ BrowserOK /\ BoundsOK /\ MessagesOK /\ HandlingOK
  /\ TypeInv' <=> RendererOK' /\ FrameTyped' /\ BrowserOK' /\ BoundsOK' /\ MessagesOK'
                  /\ HandlingOK'
  <1>1. TypeInv <=> RendererOK /\ FrameTyped /\ BrowserOK /\ BoundsOK /\ MessagesOK /\ HandlingOK
    BY Zenon DEF TypeInv, TypeOK, RendererOK, FrameTyped, BrowserOK, BoundsOK, MessagesOK
  <1>2. TypeInv' <=> RendererOK' /\ FrameTyped' /\ BrowserOK' /\ BoundsOK' /\ MessagesOK'
                     /\ HandlingOK'
    BY Zenon DEF TypeInv, TypeOK, RendererOK, FrameTyped, BrowserOK, BoundsOK, MessagesOK
  <1> QED BY <1>1, <1>2

\* What does not change keeps its type.
LEMMA TypeKept ==
  ASSUME TypeInv
  PROVE  /\ /\ UNCHANGED <<rendererVars, timer, updateAvailable, clientReady, frame, session,
                            fullUpdateRequested, patches, requesting>>
            => RendererOK'
         /\ UNCHANGED <<fullUpdating, makingVars, historyVars>> => FrameTyped'
         /\ UNCHANGED <<canvasVars, connected>> => BrowserOK'
         /\ UNCHANGED boundVars => BoundsOK'
         /\ UNCHANGED <<down, up>> => MessagesOK'
         /\ UNCHANGED <<taking, fullUpdating, connected>> /\ (up # <<>> => up' # <<>>)
            => HandlingOK'
  <1>1. RendererOK /\ FrameTyped /\ BrowserOK /\ BoundsOK /\ MessagesOK /\ HandlingOK
    BY TypeParts
  <1>2. UNCHANGED <<rendererVars, timer, updateAvailable, clientReady, frame, session,
                    fullUpdateRequested, patches, requesting>> => RendererOK'
    BY <1>1 DEF RendererOK, rendererVars
  <1>3. UNCHANGED <<fullUpdating, makingVars, historyVars>> => FrameTyped'
    BY <1>1 DEF FrameTyped, makingVars, historyVars
  <1>4. UNCHANGED <<canvasVars, connected>> => BrowserOK'
    BY <1>1 DEF BrowserOK, canvasVars
  <1>5. UNCHANGED boundVars => BoundsOK'
    BY <1>1 DEF BoundsOK, boundVars
  <1>6. UNCHANGED <<down, up>> => MessagesOK'
    BY <1>1 DEF MessagesOK
  <1>7. UNCHANGED <<taking, fullUpdating, connected>> /\ (up # <<>> => up' # <<>>) => HandlingOK'
    BY <1>1 DEF HandlingOK
  <1> QED BY <1>2, <1>3, <1>4, <1>5, <1>6, <1>7

LEMMA RendererType ==
  ASSUME TypeInv, UNCHANGED <<frame, session, requesting>>,
         \/ Ready \/ Resize \/ (\E forced \in BOOLEAN : FullUpdate(forced))
         \/ UNCHANGED <<rendererVars, timer, updateAvailable, clientReady,
                        fullUpdateRequested, patches>>
  PROVE  RendererOK'
  <1>1. RendererOK
    BY TypeParts
  <1>2. \A color \in {Clear, White} : Blank(color) \in Picture
    BY DEF Blank, Picture
  <1>3. Blank(Clear) \in [Tile -> Color \cup {Clear}]
    BY DEF Blank
  <1>4. CASE Ready
    BY <1>1, <1>4 DEF Ready, rendererVars, RendererOK
  <1>5. CASE Resize
    BY <1>1, <1>5 DEF Resize, RendererOK
  <1>6. ASSUME NEW forced \in BOOLEAN, FullUpdate(forced) PROVE RendererOK'
    BY <1>1, <1>2, <1>3, <1>6 DEF FullUpdate, RendererOK
  <1>7. CASE UNCHANGED <<rendererVars, timer, updateAvailable, clientReady,
                         fullUpdateRequested, patches>>
    BY <1>1, <1>7 DEF rendererVars, RendererOK
  <1> QED BY <1>4, <1>5, <1>6, <1>7

\* The display's thread and what its client asks for.
LEMMA DisplayType ==
  ASSUME TypeInv,
         \/ \E t \in Tile, color \in Color : SceneChanged(t, color)
         \/ UpdateCheckTimerTimeout \/ HandleMessage \/ FullUpdateReady \/ FinishFullUpdate
  PROVE  TypeInv'
  <1>1. RendererOK /\ FrameTyped /\ BoundsOK /\ MessagesOK /\ HandlingOK /\ TypeOK
    BY TypeParts DEF TypeInv
  <1>2. CASE \E t \in Tile, color \in Color : SceneChanged(t, color)
    <2>1. PICK t \in Tile, color \in Color : SceneChanged(t, color)
      BY <1>2
    <2>2. RendererOK'
      BY <1>1, <2>1 DEF SceneChanged, RendererOK
    <2>3. BoundsOK'
      BY <1>1, <2>1, BoundAssumption DEF SceneChanged, BoundsOK
    <2>4. FrameTyped' /\ BrowserOK' /\ MessagesOK' /\ HandlingOK'
      BY <2>1, TypeKept DEF SceneChanged, makingVars
    <2> QED BY <2>2, <2>3, <2>4, TypeParts
  <1>3. CASE UpdateCheckTimerTimeout
    <2>1. RendererOK'
      BY <1>1, <1>3 DEF UpdateCheckTimerTimeout, rendererVars, RendererOK
    <2>2. FrameTyped' /\ BrowserOK' /\ BoundsOK' /\ MessagesOK' /\ HandlingOK'
      BY <1>3, TypeKept DEF UpdateCheckTimerTimeout, makingVars
    <2> QED BY <2>1, <2>2, TypeParts
  <1>4. CASE HandleMessage
    <2>1. /\ UNCHANGED <<frame, requesting, makingVars, unmarked, canvasVars, boundVars, down,
                         connected, session>>
          /\ up # <<>> /\ connected
      BY <1>4 DEF HandleMessage
    <2>2. up' \in Seq(Request) /\ (up' = up \/ fullUpdating' = "no")
      BY <1>1, <1>4, <2>1, UpHead DEF HandleMessage, MessagesOK
    <2>3. fullUpdating' \in {"no", "blanked", "ready"}
      BY <1>4 DEF HandleMessage, FullUpdate
    <2>4. RendererOK'
      BY <1>4, <2>1, RendererType DEF HandleMessage
    <2>5. overtaken' \subseteq Nat
      BY <1>1, <1>4 DEF HandleMessage, Overtake, FrameTyped, RendererOK
    <2>6. HandlingOK' /\ MessagesOK'
      BY <1>1, <2>1, <2>2 DEF HandlingOK, MessagesOK, makingVars
    <2>7. FrameTyped'
      BY <1>1, <2>1, <2>3, <2>5 DEF FrameTyped, makingVars
    <2>8. BrowserOK' /\ BoundsOK'
      BY <2>1, TypeKept
    <2> QED BY <2>4, <2>6, <2>7, <2>8, TypeParts
  <1>5. CASE FullUpdateReady
    <2>1. RendererOK'
      BY <1>5, RendererType DEF FullUpdateReady
    <2>2. FrameTyped'
      BY <1>1, <1>5 DEF FullUpdateReady, Overtake, FrameTyped, RendererOK, makingVars
    <2>3. HandlingOK'
      BY <1>1, <1>5 DEF FullUpdateReady, HandlingOK, makingVars
    <2>4. BrowserOK' /\ BoundsOK' /\ MessagesOK'
      BY <1>5, TypeKept DEF FullUpdateReady
    <2> QED BY <2>1, <2>2, <2>3, <2>4, TypeParts
  <1>6. CASE FinishFullUpdate
    <2>1. up # <<>>
      BY <1>1, <1>6 DEF FinishFullUpdate, HandlingOK
    <2>2. MessagesOK'
      BY <1>1, <1>6, <2>1, UpHead DEF FinishFullUpdate, MessagesOK
    <2>3. RendererOK'
      BY <1>1, <1>6 DEF FinishFullUpdate, rendererVars, RendererOK
    <2>4. FrameTyped' /\ HandlingOK'
      BY <1>1, <1>6 DEF FinishFullUpdate, makingVars, historyVars, FrameTyped, HandlingOK
    <2>5. BrowserOK' /\ BoundsOK'
      BY <1>6, TypeKept DEF FinishFullUpdate
    <2> QED BY <2>2, <2>3, <2>4, <2>5, TypeParts
  <1> QED BY <1>2, <1>3, <1>4, <1>5, <1>6

\* One operation is written, with the image that was encoded.
LEMMA OperationWritten ==
  ASSUME TypeInv, EmitOperation
  PROVE  /\ operations' \in Seq(Message) /\ DOMAIN operations' = DOMAIN operations
         /\ Len(operations') = Len(operations) /\ operations # <<>> /\ operations' # <<>>
         /\ written + 1 \in DOMAIN operations /\ written' = written + 1
         /\ patches' \subseteq Image
         /\ \A i \in DOMAIN operations :
              \/ operations'[i] = operations[i]
              \/ /\ operations[i].command = "dI" /\ operations'[i].command = "dI"
                 /\ operations'[i].tile = operations[i].tile
                 /\ operations'[i].frame = operations[i].frame
                 /\ operations'[i].color \in {operations[i].color, work[operations[i].tile]}
  <1> DEFINE k == written + 1
  <1>1. operations \in Seq(Message) /\ written \in Nat /\ written < Len(operations)
    BY DEF TypeInv, TypeOK, EmitOperation
  <1>2. k \in 1..Len(operations) /\ DOMAIN operations = 1..Len(operations) /\ operations # <<>>
    <2> HIDE DEF Message
    <2> QED BY <1>1
  <1>3. PICK m \in Message : m = operations[k]
    <2> HIDE DEF Message
    <2> QED BY <1>1, <1>2
  <1>4. written' = k
    BY DEF EmitOperation
  <1>5. CASE m.command # "dI"
    <2>1. UNCHANGED <<operations, patches>>
      BY <1>3, <1>5 DEF EmitOperation
    <2> QED BY <1>1, <1>2, <1>4, <2>1 DEF TypeInv, TypeOK
  <1>6. CASE m.command = "dI"
    <2>1. PICK color \in {m.color, work[m.tile]} :
            /\ operations' = [operations EXCEPT ![k] = [m EXCEPT !.color = color]]
            /\ patches' \in {patches, patches \cup {CreatePatch([m EXCEPT !.color = color])}}
      BY <1>3, <1>6 DEF EmitOperation
    <2>2. m \in [command : {"fR", "dI"}, frame : Nat, tile : Tile, color : Color \cup {Clear}]
      BY <1>6 DEF Message
    <2>3. color \in Color \cup {Clear}
      BY <2>2 DEF TypeInv
    <2>4. PICK e \in Message : e = [m EXCEPT !.color = color]
      BY <2>2, <2>3 DEF Message
    <2>5. e.command = "dI" /\ e.tile = m.tile /\ e.frame = m.frame /\ e.color = color
      BY <1>6, <2>2, <2>4
    <2>6. CreatePatch(e) \in Image
      BY <2>2, <2>3, <2>5 DEF CreatePatch, Image, TypeInv, TypeOK
    <2>7. patches' \subseteq Image
      BY <2>1, <2>4, <2>6 DEF TypeInv, TypeOK
    <2>8. operations' = [operations EXCEPT ![k] = e]
      BY <2>1, <2>4
    <2> HIDE DEF Message, k
    <2>9. /\ operations' \in Seq(Message) /\ Len(operations') = Len(operations)
          /\ DOMAIN operations' = DOMAIN operations
          /\ \A i \in DOMAIN operations : operations'[i] = IF i = k THEN e ELSE operations[i]
      BY <1>1, <1>2, <2>8, ExceptSeq
    <2>10. operations' # <<>>
      BY <1>1, <1>2, <2>9, EmptySeq
    <2>11. \A i \in DOMAIN operations :
              \/ operations'[i] = operations[i]
              \/ /\ operations[i].command = "dI" /\ operations'[i].command = "dI"
                 /\ operations'[i].tile = operations[i].tile
                 /\ operations'[i].frame = operations[i].frame
                 /\ operations'[i].color \in {operations[i].color, work[operations[i].tile]}
      BY <1>3, <1>6, <2>1, <2>5, <2>9
    <2> QED BY <1>2, <1>4, <2>7, <2>9, <2>10, <2>11 DEF k
  <1> QED BY <1>5, <1>6

\* The thread that takes an update.
LEMMA TakingType ==
  ASSUME TypeInv, MakingOK, CheckUpdateAvailable \/ TakePendingMessages
  PROVE  TypeInv'
  <1>1. RendererOK /\ FrameTyped /\ MessagesOK /\ HandlingOK
    BY TypeParts
  <1>2. CASE CheckUpdateAvailable \/ ClaimUpdate
    <2>1. RendererOK'
      BY <1>1, <1>2 DEF CheckUpdateAvailable, ClaimUpdate, rendererVars, RendererOK
    <2>2. FrameTyped' /\ HandlingOK'
      BY <1>1, <1>2 DEF CheckUpdateAvailable, ClaimUpdate, historyVars, FrameTyped, HandlingOK
    <2>3. BrowserOK' /\ BoundsOK' /\ MessagesOK'
      BY <1>2, TypeKept DEF CheckUpdateAvailable, ClaimUpdate
    <2> QED BY <2>1, <2>2, <2>3, TypeParts
  <1>3. CASE PaintUpdatesToBuffer
    <2>1. Painted \in [Tile -> Color \cup {Clear}]
      BY <1>1 DEF Painted, RendererOK
    <2>2. Painted \in Picture
      BY <2>1 DEF Picture
    <2>3. RendererOK'
      BY <1>1, <1>3, <2>1, <2>2 DEF PaintUpdatesToBuffer, RendererOK
    <2>4. FrameTyped' /\ HandlingOK'
      BY <1>1, <1>3 DEF PaintUpdatesToBuffer, historyVars, FrameTyped, HandlingOK
    <2>5. BrowserOK' /\ BoundsOK' /\ MessagesOK'
      BY <1>3, TypeKept DEF PaintUpdatesToBuffer
    <2> QED BY <2>3, <2>4, <2>5, TypeParts
  <1>4. CASE FindUpdateOperations
    <2>1. operations' \in Seq(Message)
      BY <1>4, OperationsFound DEF FindUpdateOperations
    <2>2. FrameTyped' /\ HandlingOK'
      BY <1>1, <1>4, <2>1 DEF FindUpdateOperations, historyVars, FrameTyped, HandlingOK
    <2>3. RendererOK' /\ BrowserOK' /\ BoundsOK' /\ MessagesOK'
      BY <1>4, TypeKept DEF FindUpdateOperations
    <2> QED BY <2>2, <2>3, TypeParts
  <1>5. CASE BeginFrame
    <2>1. RendererOK'
      BY <1>1, <1>5 DEF BeginFrame, rendererVars, RendererOK
    <2>2. FrameTyped' /\ HandlingOK'
      BY <1>1, <1>5 DEF BeginFrame, historyVars, FrameTyped, HandlingOK
    <2>3. BrowserOK' /\ BoundsOK' /\ MessagesOK'
      BY <1>5, TypeKept DEF BeginFrame
    <2> QED BY <2>1, <2>2, <2>3, TypeParts
  <1>6. CASE ReadFullUpdateRequested
    <2>1. FrameTyped' /\ HandlingOK'
      BY <1>1, <1>6 DEF ReadFullUpdateRequested, historyVars, FrameTyped, HandlingOK, RendererOK
    <2>2. RendererOK' /\ BrowserOK' /\ BoundsOK' /\ MessagesOK'
      BY <1>6, TypeKept DEF ReadFullUpdateRequested
    <2> QED BY <2>1, <2>2, TypeParts
  <1>7. CASE EmitOperation
    <2>1. written' = written + 1 /\ operations' \in Seq(Message) /\ patches' \subseteq Image
      BY <1>7, OperationWritten
    <2>2. RendererOK'
      BY <1>1, <1>7, <2>1 DEF EmitOperation, rendererVars, RendererOK
    <2>3. FrameTyped' /\ HandlingOK'
      BY <1>1, <1>7, <2>1 DEF EmitOperation, historyVars, FrameTyped, HandlingOK
    <2>4. BrowserOK' /\ BoundsOK' /\ MessagesOK'
      BY <1>7, TypeKept DEF EmitOperation
    <2> QED BY <2>2, <2>3, <2>4, TypeParts
  <1>8. CASE EndFrame
    <2>1. MessagesOK'
      BY <1>1, <1>8, EmittedMessages DEF EndFrame, MessagesOK
    <2>2. /\ unmarked' \in {unmarked, unmarked \cup {frame}}
          /\ operations' = <<>> /\ written' = 0 /\ marked' = FALSE
          /\ taking' = "no" /\ UNCHANGED <<fullUpdating, rects, overtaken, connected, up>>
      BY <1>8 DEF EndFrame
    <2>3. unmarked' \subseteq Nat /\ operations' \in Seq(Message)
      BY <1>1, <2>2, EmptySeq DEF FrameTyped, RendererOK
    <2>5. FrameTyped' /\ HandlingOK'
      BY <1>1, <2>2, <2>3 DEF FrameTyped, HandlingOK
    <2>4. RendererOK' /\ BrowserOK' /\ BoundsOK'
      BY <1>8, TypeKept DEF EndFrame
    <2> QED BY <2>1, <2>4, <2>5, TypeParts
  <1> QED BY <1>2, <1>3, <1>4, <1>5, <1>6, <1>7, <1>8 DEF TakePendingMessages

LEMMA DetermineType ==
  ASSUME TypeOK, NEW ended \in BOOLEAN, NEW count \in Int, NEW errors \in Nat,
         NEW picture \in Picture, DetermineReadyState(ended, count, errors, picture)
  PROVE  /\ frameEndReceived' \in BOOLEAN /\ pendingPatches' \in Int /\ canvas' \in Picture
         /\ frameErrors' \in Nat /\ waitingForFullUpdate' \in BOOLEAN /\ front' \in Picture
         /\ up' \in Seq(Request)
         /\ up # <<>> => up' # <<>> /\ Head(up') = Head(up)
  <1>1. "ready" \in Request /\ "forcedFullUpdate" \in Request
    BY DEF Request
  <1>2. up \in Seq(Request)
    BY DEF TypeOK
  <1>3. \/ up' = up \/ up' = Append(up, "ready")
        \/ up' = Append(Append(up, "ready"), "forcedFullUpdate")
    <2>1. /\ up \o <<"ready">> \o <<>> = Append(up, "ready")
          /\ up \o <<"ready">> \o <<"forcedFullUpdate">> = Append(Append(up, "ready"), "forcedFullUpdate")
      BY <1>1, UpAppend
    <2>2. \/ up' = up \/ up' = up \o <<"ready">> \o <<>>
          \/ up' = up \o <<"ready">> \o <<"forcedFullUpdate">>
      BY DEF DetermineReadyState, Ask
    <2> QED BY <2>1, <2>2
  <1>4. up' \in Seq(Request) /\ (up # <<>> => up' # <<>> /\ Head(up') = Head(up))
    <2>1. /\ Append(up, "ready") \in Seq(Request)
          /\ up # <<>> => Append(up, "ready") # <<>> /\ Head(Append(up, "ready")) = Head(up)
      BY <1>1, UpAppend
    <2>2. LET q == Append(Append(up, "ready"), "forcedFullUpdate")
          IN  q \in Seq(Request) /\ (up # <<>> => q # <<>> /\ Head(q) = Head(up))
      BY <1>1, UpAppend
    <2> QED BY <1>2, <1>3, <2>1, <2>2
  <1> QED BY <1>4 DEF DetermineReadyState, TypeOK

LEMMA PerformType ==
  ASSUME TypeInv, NEW m \in Message, NEW ended \in BOOLEAN, Perform(m, ended)
  PROVE  /\ frameEndReceived' \in BOOLEAN /\ pendingPatches' \in Int /\ canvas' \in Picture
         /\ frameErrors' \in Nat /\ waitingForFullUpdate' \in BOOLEAN /\ front' \in Picture
         /\ up' \in Seq(Request) /\ loading' \subseteq Image /\ fetched' \subseteq loading'
         /\ up # <<>> => up' # <<>> /\ Head(up') = Head(up)
  <1>1. /\ m.command \in {"fullUpdate", "end", "fR", "mI", "dI"} /\ m.frame \in Nat
        /\ m.command \in {"fR", "mI", "dI"} => m.tile \in Tile
        /\ m.command \in {"fR", "dI"} => m.color \in Color \cup {Clear}
        /\ m.command = "mI" => m.from \in Tile
    BY MessageFields
  <1>2. /\ frameEndReceived \in BOOLEAN /\ pendingPatches \in Int /\ canvas \in Picture
        /\ frameErrors \in Nat /\ waitingForFullUpdate \in BOOLEAN /\ front \in Picture
        /\ up \in Seq(Request) /\ loading \subseteq Image /\ fetched \subseteq loading
        /\ session \in Nat /\ TypeOK
    BY DEF TypeInv, TypeOK
  <1>3. CASE m.command = "fullUpdate"
    <2>1. /\ frameEndReceived' = ended /\ pendingPatches' = 0 /\ waitingForFullUpdate' = FALSE
          /\ UNCHANGED <<canvas, front, frameErrors, loading, fetched, up>>
      BY <1>3 DEF Perform
    <2>2. frameEndReceived' \in BOOLEAN /\ waitingForFullUpdate' \in BOOLEAN
      BY <2>1, Zenon
    <2> QED BY <1>2, <2>1, <2>2
  <1>4. CASE m.command \in {"fR", "mI"}
    <2>1. (IF m.command = "fR" THEN m.color ELSE front[m.from]) \in Color \cup {Clear, White, Veil}
      BY <1>1, <1>2, <1>4 DEF Picture
    <2>2. canvas' = [canvas EXCEPT ![m.tile] = IF m.command = "fR" THEN m.color ELSE front[m.from]]
      BY <1>4 DEF Perform
    <2>3. canvas' \in Picture
      BY <1>1, <1>2, <1>4, <2>1, <2>2 DEF Picture
    <2> QED BY <1>2, <1>4, <2>3 DEF Perform
  <1>5. CASE m.command = "dI"
    <2> DEFINE image == [session |-> session, frame |-> m.frame, tile |-> m.tile, color |-> m.color]
    <2>1. image \in Image
      BY <1>1, <1>2, <1>5 DEF Image
    <2>2. loading' = loading \cup {image} /\ (fetched' = fetched \cup {image} \/ fetched' = fetched)
      BY <1>5 DEF Perform
    <2>3. loading' \subseteq Image /\ fetched' \subseteq loading'
      BY <1>2, <2>1, <2>2
    <2> QED BY <1>2, <1>5, <2>3 DEF Perform
  <1>6. CASE m.command = "end"
    BY <1>2, <1>6, DetermineType DEF Perform
  <1> QED BY <1>1, <1>3, <1>4, <1>5, <1>6

\* The browser.
LEMMA BrowserType ==
  ASSUME TypeInv, BrowserNext PROVE TypeInv'
  <1>1. RendererOK /\ FrameTyped /\ BrowserOK /\ BoundsOK /\ MessagesOK /\ HandlingOK /\ TypeOK
    BY TypeParts DEF TypeInv
  <1>2. CASE ReceiveMessage
    <2>1. /\ down # <<>> /\ down' = Tail(down)
          /\ UNCHANGED <<rendererVars, displayVars, boundVars, connected, session>>
      BY <1>2 DEF ReceiveMessage
    <2>2. PICK m \in Message : m = Head(down)
      BY <1>1, <2>1, DownHead
    <2>3. down' \in Seq(Message) /\ m.frame \in Nat
      BY <1>1, <2>1, DownHead, MessageFields
    <2>4. RendererOK' /\ FrameTyped' /\ BoundsOK'
      BY <2>1, TypeKept DEF displayVars
    <2>5. CASE UNCHANGED <<canvasVars, up>>
      <3>1. MessagesOK' /\ HandlingOK' /\ BrowserOK'
        BY <1>1, <2>1, <2>3, <2>5, TypeKept DEF MessagesOK, displayVars, makingVars
      <3> QED BY <2>4, <3>1, TypeParts
    <2>6. CASE /\ lastFrame' = m.frame /\ pendingPatches' = 0 /\ waitingForFullUpdate' = TRUE
               /\ up' = Append(up, "requestFullUpdate")
               /\ UNCHANGED <<canvas, front, frameEndReceived, frameErrors, loading, fetched>>
      <3>1. up' \in Seq(Request) /\ (up # <<>> => up' # <<>>)
        BY <1>1, <2>6, UpAppend DEF Request
      <3>2. MessagesOK' /\ HandlingOK'
        BY <2>1, <2>3, <3>1, TypeKept DEF MessagesOK, displayVars, makingVars
      <3>3. BrowserOK'
        BY <1>1, <2>1, <2>3, <2>6 DEF BrowserOK
      <3> QED BY <2>4, <3>2, <3>3, TypeParts
    <2>7. CASE lastFrame' = m.frame /\ Perform(m, frameEndReceived /\ ~(lastFrame # m.frame))
      <3>1. (frameEndReceived /\ ~(lastFrame # m.frame)) \in BOOLEAN
        OBVIOUS
      <3>2. /\ frameEndReceived' \in BOOLEAN /\ pendingPatches' \in Int /\ canvas' \in Picture
            /\ frameErrors' \in Nat /\ waitingForFullUpdate' \in BOOLEAN /\ front' \in Picture
            /\ up' \in Seq(Request) /\ loading' \subseteq Image /\ fetched' \subseteq loading'
            /\ up # <<>> => up' # <<>>
        BY <2>7, <3>1, PerformType
      <3>3. MessagesOK' /\ HandlingOK'
        BY <2>1, <2>3, <3>2, TypeKept DEF MessagesOK, displayVars, makingVars
      <3>4. BrowserOK'
        BY <1>1, <2>1, <2>3, <2>7, <3>2 DEF BrowserOK
      <3> QED BY <2>4, <3>3, <3>4, TypeParts
    <2> QED BY <1>2, <2>2, <2>5, <2>6, <2>7 DEF ReceiveMessage
  <1>3. ASSUME NEW image \in loading, TakePatch(image) PROVE TypeInv'
    <2>1. RendererOK'
      BY <1>1, <1>3 DEF TakePatch, rendererVars, RendererOK
    <2>2. BrowserOK'
      BY <1>1, <1>3 DEF TakePatch, BrowserOK
    <2>3. FrameTyped' /\ BoundsOK' /\ MessagesOK' /\ HandlingOK'
      BY <1>3, TypeKept DEF TakePatch, makingVars
    <2> QED BY <2>1, <2>2, <2>3, TypeParts
  <1>4. ASSUME NEW image \in loading, ImageLoaded(image) \/ ImageFailed(image) PROVE TypeInv'
    <2>1. image.tile \in Tile /\ image.color \in Color \cup {Clear}
      BY <1>1 DEF BrowserOK, Image
    <2>2. canvas \in Picture /\ [canvas EXCEPT ![image.tile] = image.color] \in Picture
      BY <1>1, <2>1 DEF BrowserOK, Picture
    <2>3. /\ pendingPatches - 1 \in Int /\ frameErrors + 1 \in Nat
          /\ frameErrors \in Nat /\ frameEndReceived \in BOOLEAN
      BY <1>1 DEF BrowserOK
    <2>4. /\ frameEndReceived' \in BOOLEAN /\ pendingPatches' \in Int /\ canvas' \in Picture
          /\ frameErrors' \in Nat /\ waitingForFullUpdate' \in BOOLEAN /\ front' \in Picture
          /\ up' \in Seq(Request) /\ (up # <<>> => up' # <<>>)
      BY <1>1, <1>4, <2>2, <2>3, DetermineType DEF ImageLoaded, ImageFailed
    <2>5. UNCHANGED <<rendererVars, displayVars, lastFrame, down, connected, session>>
      BY <1>4 DEF ImageLoaded, ImageFailed
    <2>6. loading' \subseteq loading /\ fetched' \subseteq loading'
      BY <1>1, <1>4 DEF ImageLoaded, ImageFailed, BrowserOK
    <2>7. BrowserOK'
      BY <1>1, <2>4, <2>5, <2>6 DEF BrowserOK
    <2>8. MessagesOK' /\ HandlingOK' /\ RendererOK' /\ FrameTyped'
      BY <1>1, <2>4, <2>5, TypeKept DEF MessagesOK, displayVars, makingVars
    <2>9. BoundsOK'
      BY <1>1, <1>4, BoundAssumption DEF ImageLoaded, ImageFailed, BoundsOK, boundVars
    <2> QED BY <2>7, <2>8, <2>9, TypeParts
  <1> QED BY <1>2, <1>3, <1>4 DEF BrowserNext

\* The page and the connection.
LEMMA ConnectionType ==
  ASSUME TypeInv, ResizeElement \/ Disconnect \/ Reattach \/ StartNewSession PROVE TypeInv'
  <1>1. RendererOK /\ FrameTyped /\ BrowserOK /\ BoundsOK /\ MessagesOK /\ HandlingOK /\ TypeOK
    BY TypeParts DEF TypeInv
  <1>2. "resize" \in Request /\ "newDisplay" \in Request
    BY DEF Request
  <1>3. \A color \in {Clear, Veil} : Blank(color) \in Picture
    BY DEF Blank, Picture
  <1>4. Blank(Clear) \in [Tile -> Color \cup {Clear}]
    BY DEF Blank
  <1>5. CASE ResizeElement
    <2>1. up' \in Seq(Request) /\ (up # <<>> => up' # <<>>)
      BY <1>1, <1>2, <1>5, UpAppend DEF ResizeElement
    <2>2. BoundsOK'
      BY <1>1, <1>5, BoundAssumption DEF ResizeElement, BoundsOK
    <2>3. MessagesOK' /\ HandlingOK' /\ RendererOK' /\ FrameTyped' /\ BrowserOK'
      BY <1>1, <1>5, <2>1, TypeKept DEF ResizeElement, MessagesOK, displayVars, makingVars
    <2> QED BY <2>2, <2>3, TypeParts
  <1>6. CASE Disconnect
    <2>1. down' \in Seq(Message) /\ up' \in Seq(Request)
      BY <1>6 DEF Disconnect
    <2>2. BoundsOK'
      BY <1>1, <1>6, BoundAssumption DEF Disconnect, BoundsOK
    <2>3. BrowserOK'
      BY <1>1, <1>3, <1>6 DEF Disconnect, BrowserOK
    <2>4. HandlingOK' /\ MessagesOK'
      BY <1>6, <2>1 DEF Disconnect, displayVars, makingVars, HandlingOK, MessagesOK
    <2>5. RendererOK' /\ FrameTyped'
      BY <1>6, TypeKept DEF Disconnect, displayVars
    <2> QED BY <2>2, <2>3, <2>4, <2>5, TypeParts
  <1>7. CASE Reattach
    <2>1. up' \in Seq(Request)
      BY <1>1, <1>2, <1>7, UpAppend DEF Reattach
    <2>2. MessagesOK' /\ HandlingOK'
      BY <1>1, <1>7, <2>1 DEF Reattach, displayVars, makingVars, HandlingOK, MessagesOK
    <2>3. BrowserOK'
      BY <1>1, <1>7 DEF Reattach, canvasVars, BrowserOK
    <2>4. RendererOK' /\ FrameTyped' /\ BoundsOK'
      BY <1>7, TypeKept DEF Reattach, displayVars
    <2> QED BY <2>2, <2>3, <2>4, TypeParts
  <1>8. CASE StartNewSession
    <2>1. connected' = TRUE /\ up' = <<>> /\ fullUpdating' = "no" /\ down' = down
      BY <1>1, <1>8 DEF StartNewSession, HandlingOK, BrowserOK
    <2>6. MessagesOK'
      BY <1>1, <2>1 DEF MessagesOK
    <2>7. HandlingOK'
      BY <2>1 DEF HandlingOK
    <2>2. RendererOK'
      <3>1. /\ work' = Blank(Clear) /\ other' = Blank(Clear) /\ damage' = Tile /\ patches' = {}
            /\ updates' = TRUE /\ timer' = TRUE /\ updateAvailable' = TRUE /\ clientReady' = TRUE
            /\ fullUpdateRequested' = TRUE /\ requesting' = FALSE
            /\ scene' = scene /\ frame' = 0 /\ session' = session + 1
        BY <1>8 DEF StartNewSession
      <3>2. Blank(Clear) \in Picture
        BY <1>3
      <3>3. frame' \in Nat /\ session' \in Nat
        BY <1>1, <3>1 DEF RendererOK
      <3> QED BY <1>1, <1>4, <3>1, <3>2, <3>3 DEF RendererOK
    <2>3. FrameTyped'
      BY <1>1, <1>8 DEF StartNewSession, makingVars, FrameTyped
    <2>4. BrowserOK'
      BY <1>1, <1>8 DEF StartNewSession, canvasVars, BrowserOK
    <2>5. BoundsOK'
      BY <1>8, TypeKept DEF StartNewSession
    <2> QED BY <2>2, <2>3, <2>4, <2>5, <2>6, <2>7, TypeParts
  <1> QED BY <1>5, <1>6, <1>7, <1>8

LEMMA TypeNext == TypeInv /\ MakingOK /\ [Next]_vars => TypeInv'
  <1> SUFFICES ASSUME TypeInv, MakingOK, [Next]_vars PROVE TypeInv'
    OBVIOUS
  <1>1. CASE UNCHANGED vars
    BY <1>1 DEF vars, rendererVars, displayVars, makingVars, historyVars, canvasVars,
                boundVars, TypeInv, TypeOK, HandlingOK
  <1> QED BY <1>1, DisplayType, TakingType, BrowserType, ConnectionType
          DEF Next, DisplayNext, EnvironmentNext, Reconnect

\* The operations stay one frame until it is handed over.
LEMMA MakingNext == TypeInv /\ MakingOK /\ [Next]_vars => MakingOK'
  <1> SUFFICES ASSUME TypeInv, MakingOK, [Next]_vars PROVE MakingOK'
    OBVIOUS
  <1>1. CASE UNCHANGED <<operations, taking, marked, frame>>
    BY <1>1 DEF MakingOK, Operation
  <1>2. CASE CheckUpdateAvailable \/ ClaimUpdate \/ PaintUpdatesToBuffer
    BY <1>2 DEF CheckUpdateAvailable, ClaimUpdate, PaintUpdatesToBuffer, MakingOK, Operation
  <1>3. CASE FindUpdateOperations
    <2>1. /\ \A i \in DOMAIN operations' : \E t \in Changed : operations'[i] = UpdateOperation(t)
          /\ \A i, j \in DOMAIN operations' : operations'[i].tile = operations'[j].tile => i = j
      BY <1>3, OperationsFound DEF FindUpdateOperations
    <2>2. \A t \in Changed : Operation(UpdateOperation(t)) /\ UpdateOperation(t).frame = frame + 1
      BY OperationsAreMessages DEF Operation
    <2>3. taking' = "found" /\ frame' = frame /\ marked' = marked /\ ~marked
      BY <1>3 DEF FindUpdateOperations, MakingOK
    <2> QED BY <2>1, <2>2, <2>3 DEF MakingOK, Operation
  <1>4. CASE BeginFrame
    BY <1>4 DEF BeginFrame, MakingOK, Operation
  <1>5. CASE ReadFullUpdateRequested
    BY <1>5 DEF ReadFullUpdateRequested, MakingOK, Operation
  <1>6. CASE EmitOperation
    <2>1. UNCHANGED <<taking, frame, marked>> /\ taking = "emitting"
      BY <1>6 DEF EmitOperation
    <2>2. /\ DOMAIN operations' = DOMAIN operations
          /\ \A i \in DOMAIN operations :
              \/ operations'[i] = operations[i]
              \/ /\ operations[i].command = "dI" /\ operations'[i].command = "dI"
                 /\ operations'[i].tile = operations[i].tile
                 /\ operations'[i].frame = operations[i].frame
      BY <1>6, OperationWritten
    <2> QED BY <2>1, <2>2 DEF MakingOK, Operation
  <1>7. CASE EndFrame
    BY <1>7 DEF EndFrame, MakingOK
  <1>8. CASE StartNewSession
    <2>1. operations = <<>> /\ UNCHANGED makingVars
      BY <1>8 DEF StartNewSession, TypeInv, TypeOK, HandlingOK, MakingOK
    <2> QED BY <2>1 DEF MakingOK, makingVars
  <1>9. \/ (\E t \in Tile, color \in Color : SceneChanged(t, color)) \/ UpdateCheckTimerTimeout
        \/ HandleMessage \/ FullUpdateReady \/ FinishFullUpdate \/ BrowserNext
        \/ ResizeElement \/ Disconnect \/ Reattach \/ UNCHANGED vars
        => UNCHANGED <<operations, taking, marked, frame>>
    BY DEF SceneChanged, UpdateCheckTimerTimeout, HandleMessage, FullUpdateReady,
           FinishFullUpdate, BrowserNext, ReceiveMessage, TakePatch, ImageLoaded, ImageFailed,
           ResizeElement, Disconnect, Reattach, vars, displayVars, makingVars
  <1> QED BY <1>1, <1>2, <1>3, <1>4, <1>5, <1>6, <1>7, <1>8, <1>9
          DEF Next, DisplayNext, TakePendingMessages, EnvironmentNext, Reconnect

LEMMA TypeInvariant == Spec => [](TypeInv /\ MakingOK)
  <1>1. Init => MakingOK
    BY DEF Init, MakingOK
  <1> QED BY <1>1, TypeInit, TypeNext, MakingNext, PTL DEF Spec

-----------------------------------------------------------------------------
(* Flow control *)

\* The flags are what an IF and a disjunction of them take them for.
FlagsOK ==
    /\ updates \in BOOLEAN /\ timer \in BOOLEAN
    /\ updateAvailable \in BOOLEAN /\ clientReady \in BOOLEAN
    /\ requesting \in BOOLEAN
    /\ taking \in {"no", "checked", "claimed", "painted", "found", "begun", "emitting"}

\* A frame has begun, and its messages have not been handed over yet.
Sending == taking \in {"begun", "emitting"} /\ operations # <<>>

\* Until it begins, nothing takes clientReady_ away from the thread that takes an
\* update, and no image is kept.  After that only clientReady() sets it again.
TakingInOrder ==
    /\ taking # "no" => connected
    /\ taking \in {"checked", "claimed", "painted", "found"} => clientReady /\ patches = {}
    /\ taking \in {"begun", "emitting"} /\ operations = <<>> => clientReady
    /\ Sending /\ clientReady => frame \in overtaken

FlowInv == FlagsOK /\ TakingInOrder /\ PatchesOfOneFrame /\ NoLostUpdate

\* The invariant holds at the beginning.
LEMMA FlowInit == Init => FlowInv
BY DEF Init, FlowInv, FlagsOK, TakingInOrder, Sending, PatchesOfOneFrame, NoLostUpdate

-----------------------------------------------------------------------------
(* The handlers of the display's thread *)

\* ready() frees the patches, and starts the timer if there is an update.
LEMMA ReadyKeepsFlow ==
    ASSUME FlowInv, Ready, Overtake,
           UNCHANGED <<frame, requesting, taking, operations, connected, session>>
    PROVE  FlowInv'
<1>1. Sending /\ ~clientReady => frame \in overtaken'
  BY DEF Overtake, Sending
<1>2. overtaken \subseteq overtaken'
  BY DEF Overtake
<1>3. TakingInOrder'
  BY <1>1, <1>2 DEF Ready, FlowInv, FlagsOK, TakingInOrder, Sending
<1>4. QED
  BY <1>3 DEF Ready, rendererVars, FlowInv, FlagsOK, PatchesOfOneFrame, NoLostUpdate

\* A full update is an update that is on its way.
LEMMA FullUpdateKeepsFlow ==
    ASSUME FlowInv, NEW forced \in BOOLEAN, FullUpdate(forced),
           UNCHANGED <<frame, requesting, taking, operations, connected, session, overtaken>>
    PROVE  FlowInv'
<1>1. patches' \subseteq patches /\ (patches = {} => patches' = {})
  BY DEF FullUpdate
<1>2. QED
  BY <1>1 DEF FullUpdate, FlowInv, FlagsOK, TakingInOrder, Sending, PatchesOfOneFrame,
              NoLostUpdate

\* So is a new size.
LEMMA ResizeKeepsFlow ==
    ASSUME FlowInv, Resize,
           UNCHANGED <<frame, requesting, taking, operations, connected, session, overtaken>>
    PROVE  FlowInv'
BY DEF Resize, FlowInv, FlagsOK, TakingInOrder, Sending, PatchesOfOneFrame, NoLostUpdate

\* Nothing that matters to the invariant changes.
LEMMA FlowUnchanged ==
    ASSUME FlowInv,
           UNCHANGED <<updates, timer, updateAvailable, clientReady, requesting, taking,
                       operations, patches, frame, session, overtaken>>,
           connected => (connected' \/ taking = "no")
    PROVE  FlowInv'
BY DEF FlowInv, FlagsOK, TakingInOrder, Sending, PatchesOfOneFrame, NoLostUpdate

\* Whatever message of the client the display handles keeps the invariant.
LEMMA HandleMessageKeepsFlow ==
    ASSUME FlowInv, HandleMessage \/ FullUpdateReady \/ FinishFullUpdate PROVE FlowInv'
<1>1. CASE HandleMessage
  <2>1. UNCHANGED <<frame, requesting, taking, operations, connected, session>>
    BY <1>1 DEF HandleMessage, makingVars
  <2>2. CASE Ready /\ Overtake
    BY <2>1, <2>2, ReadyKeepsFlow
  <2>3. CASE Resize /\ UNCHANGED overtaken
    BY <2>1, <2>3, ResizeKeepsFlow
  <2>4. ASSUME NEW forced \in BOOLEAN, FullUpdate(forced), UNCHANGED overtaken
        PROVE  FlowInv'
    BY <2>1, <2>4, FullUpdateKeepsFlow
  <2>5. CASE UNCHANGED <<rendererVars, timer, updateAvailable, clientReady,
                         fullUpdateRequested, patches, fullUpdating, overtaken>>
    BY <2>1, <2>5, FlowUnchanged DEF rendererVars
  <2>6. QED
    BY <1>1, <2>2, <2>3, <2>4, <2>5 DEF HandleMessage
<1>2. CASE FullUpdateReady
  BY <1>2, ReadyKeepsFlow DEF FullUpdateReady, makingVars
<1>3. CASE FinishFullUpdate
  BY <1>3, FlowUnchanged DEF FinishFullUpdate, rendererVars, makingVars, historyVars
<1>4. QED
  BY <1>1, <1>2, <1>3

-----------------------------------------------------------------------------
(* The thread that takes an update *)

\* Before a frame begins.
LEMMA TakingKeepsFlow ==
    ASSUME FlowInv, \/ CheckUpdateAvailable \/ ClaimUpdate \/ PaintUpdatesToBuffer
                    \/ FindUpdateOperations
    PROVE  FlowInv'
<1>1. CASE CheckUpdateAvailable
  <2>1. clientReady /\ patches # {} => frame \in overtaken
    BY DEF FlowInv, PatchesOfOneFrame
  <2>2. QED
    BY <1>1, <2>1 DEF CheckUpdateAvailable, IsUpdateAvailable, rendererVars, historyVars,
                      FlowInv, FlagsOK, TakingInOrder, Sending, PatchesOfOneFrame,
                      NoLostUpdate
<1>2. CASE ClaimUpdate
  BY <1>2 DEF ClaimUpdate, rendererVars, historyVars, FlowInv, FlagsOK, TakingInOrder,
              Sending, PatchesOfOneFrame, NoLostUpdate
<1>3. CASE PaintUpdatesToBuffer
  BY <1>3 DEF PaintUpdatesToBuffer, historyVars, FlowInv, FlagsOK, TakingInOrder,
              Sending, PatchesOfOneFrame, NoLostUpdate
<1>4. CASE FindUpdateOperations
  BY <1>4 DEF FindUpdateOperations, rendererVars, historyVars, FlowInv, FlagsOK,
              TakingInOrder, Sending, PatchesOfOneFrame, NoLostUpdate
<1>5. QED
  BY <1>1, <1>2, <1>3, <1>4

\* A frame that is begun makes the client owe ready().
LEMMA BeginFrameKeepsFlow == ASSUME FlowInv, BeginFrame PROVE FlowInv'
<1>1. clientReady /\ patches = {} /\ connected
  BY DEF BeginFrame, FlowInv, TakingInOrder
<1>2. /\ taking = "found" /\ taking' = "begun" /\ patches' = {}
      /\ clientReady' = (operations = <<>>)
      /\ frame' = IF operations = <<>> THEN frame ELSE frame + 1
      /\ UNCHANGED <<updates, timer, updateAvailable, requesting, operations, overtaken,
                     connected>>
  BY <1>1 DEF BeginFrame, rendererVars, historyVars
<1>3. FlagsOK' /\ TakingInOrder' /\ PatchesOfOneFrame'
  BY <1>1, <1>2 DEF FlowInv, FlagsOK, TakingInOrder, Sending, PatchesOfOneFrame
<1>4. NoLostUpdate'
  BY <1>1, <1>2 DEF FlowInv, NoLostUpdate
<1>5. QED
  BY <1>3, <1>4 DEF FlowInv

\* The images of the frame are kept while the client owes it, or has been declared
\* ready too early.
LEMMA EmitOperationKeepsFlow == ASSUME TypeInv, FlowInv, EmitOperation PROVE FlowInv'
<1>1. \A image \in patches' :
        image \in patches \/ (image.session = session /\ image.frame = frame)
  BY DEF EmitOperation, CreatePatch
<1>2. /\ taking = "emitting"
      /\ UNCHANGED <<updates, timer, updateAvailable, clientReady, requesting, taking, frame,
                     session, overtaken, connected>>
  BY DEF EmitOperation, rendererVars, historyVars
<1>3. operations # <<>> /\ operations' # <<>>
  BY OperationWritten
<1>4. FlagsOK' /\ TakingInOrder'
  BY <1>2, <1>3 DEF FlowInv, FlagsOK, TakingInOrder, Sending
<1>5. PatchesOfOneFrame'
  BY <1>1, <1>2, <1>3 DEF FlowInv, FlagsOK, TakingInOrder, Sending, PatchesOfOneFrame
<1>6. NoLostUpdate'
  BY <1>2 DEF FlowInv, NoLostUpdate
<1>7. QED
  BY <1>4, <1>5, <1>6 DEF FlowInv

\* A frame that is complete.
LEMMA EmittingKeepsFlow ==
    ASSUME FlowInv, ReadFullUpdateRequested \/ EndFrame PROVE FlowInv'
<1>1. CASE ReadFullUpdateRequested
  BY <1>1 DEF ReadFullUpdateRequested, rendererVars, historyVars, FlowInv, FlagsOK,
              TakingInOrder, Sending, PatchesOfOneFrame, NoLostUpdate
<1>2. CASE EndFrame
  BY <1>2 DEF EndFrame, rendererVars, FlowInv, FlagsOK, TakingInOrder, Sending,
              PatchesOfOneFrame, NoLostUpdate
<1>3. QED
  BY <1>1, <1>2

-----------------------------------------------------------------------------
(* Every step *)

\* Every step keeps it.
LEMMA FlowStep == TypeInv /\ FlowInv /\ [Next]_vars => FlowInv'
<1> SUFFICES ASSUME TypeInv, FlowInv, [Next]_vars PROVE FlowInv'
  OBVIOUS
<1>1. ASSUME UNCHANGED <<rendererVars, displayVars, session>>,
             connected => (connected' \/ taking = "no")
      PROVE  FlowInv'
  BY <1>1, FlowUnchanged DEF rendererVars, displayVars, makingVars, historyVars
<1>2. CASE \E t \in Tile, color \in Color : SceneChanged(t, color)
  BY <1>2 DEF SceneChanged, makingVars, historyVars, FlowInv, FlagsOK, TakingInOrder,
              Sending, PatchesOfOneFrame, NoLostUpdate
<1>3. CASE UpdateCheckTimerTimeout
  <2>1. clientReady /\ patches # {} => frame \in overtaken
    BY DEF FlowInv, PatchesOfOneFrame
  <2>2. QED
    BY <1>3, <2>1 DEF UpdateCheckTimerTimeout, rendererVars, makingVars, historyVars,
                      FlowInv, FlagsOK, TakingInOrder, Sending, PatchesOfOneFrame,
                      NoLostUpdate
<1>4. CASE HandleMessage \/ FullUpdateReady \/ FinishFullUpdate
  BY <1>4, HandleMessageKeepsFlow
<1>5. CASE CheckUpdateAvailable \/ TakePendingMessages
  BY <1>5, TakingKeepsFlow, BeginFrameKeepsFlow, EmitOperationKeepsFlow, EmittingKeepsFlow
     DEF TakePendingMessages
<1>6. ASSUME NEW image \in loading, TakePatch(image) PROVE FlowInv'
  BY <1>6 DEF TakePatch, rendererVars, makingVars, historyVars, FlowInv, FlagsOK,
              TakingInOrder, Sending, PatchesOfOneFrame, NoLostUpdate
<1>7. CASE StartNewSession
  BY <1>7 DEF StartNewSession, makingVars, FlowInv, FlagsOK, TakingInOrder, Sending,
              PatchesOfOneFrame, NoLostUpdate
<1>8. CASE ReceiveMessage \/ (\E image \in loading : ImageLoaded(image) \/ ImageFailed(image))
  BY <1>1, <1>8 DEF ReceiveMessage, ImageLoaded, ImageFailed
<1>9. CASE ResizeElement \/ Disconnect \/ Reattach
  BY <1>1, <1>9 DEF ResizeElement, Disconnect, Reattach
<1>10. CASE UNCHANGED vars
  BY <1>1, <1>10 DEF vars
<1>11. QED
  BY <1>2, <1>3, <1>4, <1>5, <1>6, <1>7, <1>8, <1>9, <1>10
     DEF Next, DisplayNext, BrowserNext, EnvironmentNext, Reconnect

\* It holds in every reachable state.
LEMMA FlowInvariant == Spec => []FlowInv
BY FlowInit, FlowStep, TypeInvariant, PTL DEF Spec

\* The encoded images a display holds belong to the last frame it sent, and it
\* holds them only as long as the client owes it ready(), or, if clientReady()
\* ran while the frame was being made, until the next frame: they never pile up,
\* however often the connection breaks and whatever requestFullUpdate does to a
\* frame that a connection thread is making (takePendingMessages, clientReady,
\* requestFullUpdate and takePatch).
THEOREM PatchesCorrect == Spec => []PatchesOfOneFrame
<1>1. FlowInv => PatchesOfOneFrame
  BY DEF FlowInv
<1>2. QED
  BY <1>1, FlowInvariant, PTL

\* An update a ready client has not got is never forgotten: the check timer
\* runs, the session knows of it, or a thread is about to paint it, unless
\* clientReady() ran while the last frame was being made
\* (updateCheckTimerTimeout, clientReady and takePendingMessages).
THEOREM NoUpdateIsLost == Spec => []NoLostUpdate
<1>1. FlowInv => NoLostUpdate
  BY DEF FlowInv
<1>2. QED
  BY <1>1, FlowInvariant, PTL

-----------------------------------------------------------------------------
(* What server and client know of each other, as long as nothing disturbs them *)

\* ready() and the request for a full update, on their way to the display.
ReadyIsComing == \E i \in DOMAIN up : up[i] = "ready"
FullUpdateIsComing == \E i \in DOMAIN up : up[i] = "forcedFullUpdate"

\* The client owes nothing for what it has been sent: a frame that is being made is
\* the next one for it.
Idle == clientReady \/ Sending
LastSent == IF Sending THEN frame - 1 ELSE frame

\* The client does not throw this message away.
Live(i) == waitingForFullUpdate => \E j \in 1..i : down[j].command = "fullUpdate"

\* A frame is made for an idle client, which is not ready for the one after it.
OwedOK ==
    /\ taking # "no" => Idle
    /\ Sending => ~clientReady

\* What the client asks for, and in which order.
RequestsOK ==
    /\ connected
    /\ \A i \in DOMAIN up : up[i] \in {"ready", "forcedFullUpdate", "resize"}
    /\ \A i, j \in DOMAIN up : i < j =>
        /\ up[j] = "ready" => up[i] = "resize"
        /\ up[j] = "forcedFullUpdate" => up[i] # "forcedFullUpdate"
    /\ ReadyIsComing => ~Idle /\ down = <<>>
    /\ FullUpdateIsComing => waitingForFullUpdate /\ (fullUpdateRequested => ReadyIsComing)
    /\ waitingForFullUpdate => FullUpdateIsComing \/ (fullUpdateRequested /\ ~ReadyIsComing)

\* The full update being prepared is the one the client asks for.
UpdatingOK ==
    /\ fullUpdating # "no" => Head(up) = "forcedFullUpdate" /\ ~fullUpdateRequested
    /\ marked => ~FullUpdateIsComing

\* A frame on its way: first the full updates, then the operations, then the end.
DownOK ==
    /\ FullUpdateIsComing => \A i \in DOMAIN down : down[i].command # "fullUpdate"
    /\ \A i \in DOMAIN down : Live(i) =>
        /\ down[i].frame <= LastSent
        /\ down[i].command # "fullUpdate" =>
            /\ ~Idle
            /\ down[i].frame = LastSent
            /\ lastFrame = LastSent => ~frameEndReceived
            /\ \A j \in DOMAIN down : i < j => down[j].command # "fullUpdate"
        /\ down[i].command = "end" => i = Len(down)
    /\ \A i, j \in DOMAIN down :
        i < j /\ Live(i) /\ Operation(down[i]) /\ Operation(down[j]) => down[i].tile # down[j].tile

\* The images of a frame, and the browser's count of them.
LoadingOK ==
    /\ IsFiniteSet(loading) /\ pendingPatches = Cardinality(loading)
    /\ lastFrame <= LastSent
    /\ waitingForFullUpdate \/ Idle \/ ReadyIsComing =>
        loading = {} /\ frameErrors = 0
    /\ loading # {} => lastFrame = LastSent /\ \A i \in DOMAIN down : down[i].command # "fullUpdate"
    /\ \A i \in DOMAIN down : Live(i) /\ Operation(down[i]) =>
        \A image \in loading : image.tile # down[i].tile

ProtocolOK == RequestsOK /\ DownOK /\ LoadingOK

LEMMA DownDomain ==
  ASSUME TypeOK
  PROVE  /\ Len(down) \in Nat /\ DOMAIN down = 1..Len(down)
         /\ \A i \in DOMAIN down : down[i] \in Message
         /\ DOMAIN down = {} => down = <<>>
  <1>1. down \in Seq(Message)
    BY DEF TypeOK
  <1> HIDE DEF Message
  <1> QED BY <1>1

\* Which messages are live does not change when the first one is received.
LEMMA LiveTail ==
  ASSUME TypeOK, down # <<>>, down' = Tail(down),
         waitingForFullUpdate' = (waitingForFullUpdate /\ Head(down).command # "fullUpdate")
  PROVE  /\ Head(down) = down[1] /\ 1 \in DOMAIN down
         /\ DOMAIN down' = 1..(Len(down) - 1) /\ Len(down') = Len(down) - 1
         /\ \A i \in DOMAIN down' : /\ i + 1 \in DOMAIN down /\ down'[i] = down[i + 1]
                                    /\ Live(i)' <=> Live(i + 1)
         /\ \A i \in DOMAIN down : i # 1 => /\ i - 1 \in DOMAIN down' /\ down'[i - 1] = down[i]
                                            /\ Live(i - 1)' <=> Live(i)
  <1>1. /\ Head(down) = down[1] /\ Len(down) \in Nat /\ Len(down) >= 1
        /\ DOMAIN down = 1..Len(down) /\ DOMAIN down' = 1..(Len(down) - 1)
        /\ \A i \in DOMAIN down' : down'[i] = down[i + 1] /\ i + 1 \in DOMAIN down
    BY DownHead
  <1>2. Len(down') = Len(down) - 1
    BY <1>1, DownHead
  <1>3. ASSUME NEW i \in DOMAIN down' PROVE Live(i)' <=> Live(i + 1)
    <2>1. CASE ~waitingForFullUpdate
      BY <2>1 DEF Live
    <2>2. CASE waitingForFullUpdate /\ Head(down).command = "fullUpdate"
      <3>1. 1 \in 1..(i + 1)
        BY <1>1
      <3> QED BY <1>1, <2>2, <3>1 DEF Live
    <2>3. CASE waitingForFullUpdate /\ Head(down).command # "fullUpdate"
      <3>1. ASSUME NEW j \in 1..i, down'[j].command = "fullUpdate"
            PROVE  \E k \in 1..(i + 1) : down[k].command = "fullUpdate"
        <4>1. j \in DOMAIN down' /\ j + 1 \in 1..(i + 1)
          BY <1>1
        <4> QED BY <1>1, <3>1, <4>1
      <3>2. ASSUME NEW k \in 1..(i + 1), down[k].command = "fullUpdate"
            PROVE  \E j \in 1..i : down'[j].command = "fullUpdate"
        <4>1. k # 1
          BY <1>1, <2>3, <3>2
        <4>2. k - 1 \in 1..i /\ k - 1 \in DOMAIN down' /\ (k - 1) + 1 = k
          BY <1>1, <4>1
        <4>3. down'[k - 1] = down[k]
          BY <1>1, <4>2
        <4> QED BY <3>2, <4>2, <4>3
      <3> QED BY <2>3, <3>1, <3>2 DEF Live
    <2> QED BY <2>1, <2>2, <2>3
  <1>4. ASSUME NEW i \in DOMAIN down, i # 1
        PROVE  /\ i - 1 \in DOMAIN down' /\ down'[i - 1] = down[i]
               /\ Live(i - 1)' <=> Live(i)
    <2>1. i - 1 \in DOMAIN down' /\ (i - 1) + 1 = i
      BY <1>1, <1>4
    <2>2. down'[i - 1] = down[(i - 1) + 1] /\ (Live(i - 1)' <=> Live((i - 1) + 1))
      BY <1>1, <1>3, <2>1
    <2> QED BY <2>1, <2>2
  <1>5. 1 \in DOMAIN down
    BY <1>1
  <1> QED BY <1>1, <1>2, <1>3, <1>4, <1>5

\* Nothing of it depends on the other variables.
LEMMA ProtocolUnchanged ==
  ASSUME ProtocolOK,
         UNCHANGED <<connected, up, down, Idle, fullUpdateRequested, LastSent, lastFrame,
                     frameEndReceived, waitingForFullUpdate, loading, pendingPatches, frameErrors>>
  PROVE  ProtocolOK'
  BY DEF ProtocolOK, RequestsOK, DownOK, LoadingOK, Live, Operation, ReadyIsComing, FullUpdateIsComing

LEMMA Owed == ASSUME FlowInv, overtaken = {} PROVE OwedOK
  BY DEF FlowInv, FlagsOK, TakingInOrder, Sending, Idle, OwedOK

LEMMA IdleUnchanged ==
  ASSUME UNCHANGED <<clientReady, frame>>,
         \/ UNCHANGED <<taking, operations>>
         \/ {taking, taking'} \subseteq {"no", "checked", "claimed", "painted", "found"}
  PROVE  UNCHANGED <<Idle, Sending, LastSent>>
  <1>1. Sending' <=> Sending
    BY DEF Sending
  <1> QED BY <1>1 DEF Idle, LastSent, Sending

LEMMA LastType == ASSUME TypeOK PROVE LastSent \in Int
  <1>1. frame \in Nat
    BY DEF TypeOK
  <1> QED BY <1>1 DEF LastSent

-----------------------------------------------------------------------------
(* The display keeps the protocol *)

\* The steps of a frame that the client does not see.
LEMMA MakingStep ==
  ASSUME TypeInv, FlowInv, BeginFrame \/ ReadFullUpdateRequested \/ EmitOperation
  PROVE  UNCHANGED <<Idle, LastSent>>
  <1>1. frame \in Nat /\ clientReady \in BOOLEAN
    BY DEF TypeInv, TypeOK
  <1>2. CASE BeginFrame
    <2>1. clientReady /\ ~Sending
      BY <1>2 DEF BeginFrame, FlowInv, TakingInOrder, Sending
    <2>2. /\ clientReady' = (operations = <<>>) /\ (Sending' <=> operations # <<>>)
          /\ frame' = IF operations = <<>> THEN frame ELSE frame + 1
      BY <1>2, <2>1 DEF BeginFrame, Sending
    <2>3. Idle /\ Idle'
      BY <2>1, <2>2 DEF Idle
    <2>4. LastSent = frame /\ LastSent' = frame
      BY <1>1, <2>1, <2>2 DEF LastSent
    <2>5. Idle \in BOOLEAN /\ Idle' \in BOOLEAN
      BY DEF Idle
    <2> QED BY <2>3, <2>4, <2>5
  <1>3. CASE ReadFullUpdateRequested
    <2>1. UNCHANGED <<clientReady, frame>> /\ (Sending' <=> Sending)
      BY <1>3 DEF ReadFullUpdateRequested, Sending
    <2> QED BY <2>1 DEF Idle, LastSent
  <1>4. CASE EmitOperation
    <2>1. UNCHANGED <<clientReady, frame, taking>> /\ operations # <<>> /\ operations' # <<>>
      BY <1>4, OperationWritten DEF EmitOperation
    <2>2. Sending' <=> Sending
      BY <2>1 DEF Sending
    <2> QED BY <2>1, <2>2 DEF Idle, LastSent
  <1> QED BY <1>2, <1>3, <1>4

\* The requests that stay when the first one is handled.
LEMMA RequestsTail ==
  ASSUME TypeOK, RequestsOK, up # <<>>, up' = Tail(up)
  PROVE  /\ Head(up) \in {"ready", "forcedFullUpdate", "resize"}
         /\ ReadyIsComing <=> Head(up) = "ready" \/ ReadyIsComing'
         /\ FullUpdateIsComing <=> Head(up) = "forcedFullUpdate" \/ FullUpdateIsComing'
         /\ Head(up) = "ready" => ~ReadyIsComing'
         /\ Head(up) = "forcedFullUpdate" => ~ReadyIsComing /\ ~FullUpdateIsComing'
         /\ \A i \in DOMAIN up' : up'[i] \in {"ready", "forcedFullUpdate", "resize"}
         /\ \A i, j \in DOMAIN up' : i < j =>
              /\ up'[j] = "ready" => up'[i] = "resize"
              /\ up'[j] = "forcedFullUpdate" => up'[i] # "forcedFullUpdate"
  <1>1. /\ Head(up) = up[1] /\ Len(up) \in Nat /\ Len(up) >= 1
        /\ DOMAIN up = 1..Len(up) /\ DOMAIN up' = 1..(Len(up) - 1)
        /\ \A i \in DOMAIN up' : up'[i] = up[i + 1] /\ i + 1 \in DOMAIN up
    BY UpHead
  <1>2. 1 \in DOMAIN up
    BY <1>1
  <1>3. \A i \in DOMAIN up : i = 1 \/ (i - 1 \in DOMAIN up' /\ up'[i - 1] = up[i] /\ 1 < i)
    <2> TAKE i \in DOMAIN up
    <2>1. CASE i # 1
      <3>1. i - 1 \in DOMAIN up' /\ (i - 1) + 1 = i /\ 1 < i
        BY <1>1, <2>1
      <3> QED BY <1>1, <3>1
    <2> QED BY <2>1
  <1>4. \A i, j \in DOMAIN up' : i < j => i + 1 < j + 1
    BY <1>1
  <1>5. \A i \in DOMAIN up' : 1 < i + 1
    BY <1>1
  <1>6. \A x \in {"ready", "forcedFullUpdate"} :
          (\E i \in DOMAIN up : up[i] = x) <=> (Head(up) = x \/ \E i \in DOMAIN up' : up'[i] = x)
    <2> TAKE x \in {"ready", "forcedFullUpdate"}
    <2>1. ASSUME NEW i \in DOMAIN up, up[i] = x PROVE Head(up) = x \/ \E j \in DOMAIN up' : up'[j] = x
      BY <1>1, <1>3, <2>1
    <2>2. ASSUME NEW i \in DOMAIN up', up'[i] = x PROVE \E j \in DOMAIN up : up[j] = x
      BY <1>1, <2>2
    <2>3. Head(up) = x => \E j \in DOMAIN up : up[j] = x
      BY <1>1, <1>2
    <2> QED BY <2>1, <2>2, <2>3
  <1>7. Head(up) = "ready" => ~ReadyIsComing'
    BY <1>1, <1>2, <1>5 DEF RequestsOK, ReadyIsComing
  <1>8. Head(up) = "forcedFullUpdate" => ~ReadyIsComing /\ ~FullUpdateIsComing'
    BY <1>1, <1>2, <1>3, <1>5 DEF RequestsOK, ReadyIsComing, FullUpdateIsComing
  <1> QED BY <1>1, <1>2, <1>4, <1>6, <1>7, <1>8 DEF RequestsOK, ReadyIsComing, FullUpdateIsComing

LEMMA ReadyProtocol ==
  ASSUME TypeInv, MakingOK, ProtocolOK, UpdatingOK, OwedOK, HandleMessage, Head(up) = "ready"
  PROVE  /\ ProtocolOK' /\ UpdatingOK'
         /\ Ready /\ ReadyIsComing /\ ~ReadyIsComing' /\ (FullUpdateIsComing' <=> FullUpdateIsComing)
         /\ taking = "no" /\ ~Idle
  <1>1. /\ up # <<>> /\ up' = Tail(up) /\ Ready /\ fullUpdating = "no"
        /\ UNCHANGED <<frame, fullUpdating, makingVars, canvasVars, down, connected>>
    BY DEF HandleMessage, FullUpdateRequest
  <1>2. /\ ReadyIsComing /\ ~ReadyIsComing' /\ (FullUpdateIsComing' <=> FullUpdateIsComing)
        /\ \A i \in DOMAIN up' : up'[i] \in {"ready", "forcedFullUpdate", "resize"}
        /\ \A i, j \in DOMAIN up' : i < j =>
              /\ up'[j] = "ready" => up'[i] = "resize"
              /\ up'[j] = "forcedFullUpdate" => up'[i] # "forcedFullUpdate"
    BY <1>1, RequestsTail DEF ProtocolOK, TypeInv
  <1>3. down = <<>> /\ down' = <<>> /\ ~Idle /\ taking = "no"
    BY <1>1, <1>2 DEF ProtocolOK, RequestsOK, OwedOK
  <1>4. LastSent' = LastSent /\ ~marked'
    BY <1>1, <1>3 DEF LastSent, Sending, makingVars, MakingOK
  <1>5. RequestsOK'
    BY <1>1, <1>2 DEF ProtocolOK, RequestsOK, Ready, canvasVars
  <1>6. DownOK'
    BY <1>3 DEF DownOK
  <1>7. LoadingOK'
    BY <1>1, <1>2, <1>3, <1>4 DEF ProtocolOK, LoadingOK, Ready, canvasVars
  <1>8. UpdatingOK'
    BY <1>1, <1>4 DEF UpdatingOK
  <1> QED BY <1>1, <1>2, <1>3, <1>5, <1>6, <1>7, <1>8 DEF ProtocolOK

LEMMA ResizeProtocol ==
  ASSUME TypeInv, ProtocolOK, UpdatingOK, HandleMessage, Head(up) = "resize"
  PROVE  /\ ProtocolOK' /\ UpdatingOK' /\ Resize /\ (ReadyIsComing' <=> ReadyIsComing)
         /\ FullUpdateIsComing' <=> FullUpdateIsComing
         /\ UNCHANGED <<Idle, LastSent>>
  <1>1. /\ up # <<>> /\ up' = Tail(up) /\ Resize /\ fullUpdating = "no"
        /\ UNCHANGED <<frame, fullUpdating, makingVars, canvasVars, down, connected>>
    BY DEF HandleMessage, FullUpdateRequest
  <1>2. /\ (ReadyIsComing' <=> ReadyIsComing) /\ (FullUpdateIsComing' <=> FullUpdateIsComing)
        /\ \A i \in DOMAIN up' : up'[i] \in {"ready", "forcedFullUpdate", "resize"}
        /\ \A i, j \in DOMAIN up' : i < j =>
              /\ up'[j] = "ready" => up'[i] = "resize"
              /\ up'[j] = "forcedFullUpdate" => up'[i] # "forcedFullUpdate"
    BY <1>1, RequestsTail DEF ProtocolOK, TypeInv
  <1>3. UNCHANGED <<Idle, LastSent>>
    BY <1>1, IdleUnchanged DEF makingVars, Resize
  <1>4. RequestsOK'
    BY <1>1, <1>2, <1>3 DEF ProtocolOK, RequestsOK, Resize, canvasVars
  <1>5. DownOK'
    BY <1>1, <1>2, <1>3 DEF ProtocolOK, DownOK, Resize, canvasVars, Live, Operation
  <1>6. LoadingOK'
    BY <1>1, <1>2, <1>3 DEF ProtocolOK, LoadingOK, Resize, canvasVars, Live, Operation
  <1>7. UpdatingOK'
    BY <1>1, <1>2 DEF UpdatingOK, makingVars
  <1> QED BY <1>1, <1>2, <1>3, <1>4, <1>5, <1>6, <1>7 DEF ProtocolOK

\* A full update begins, while its message stays at the head.
LEMMA FullUpdateProtocol ==
  ASSUME TypeInv, ProtocolOK, UpdatingOK, HandleMessage, Head(up) \notin {"ready", "resize"}
  PROVE  /\ ProtocolOK' /\ UpdatingOK' /\ FullUpdate(TRUE) /\ FullUpdateIsComing'
         /\ fullUpdating' # "no"
  <1>1. Head(up) = "forcedFullUpdate" /\ up # <<>>
    <2>1. up # <<>>
      BY DEF HandleMessage
    <2>2. Head(up) = up[1] /\ 1 \in DOMAIN up
      <3>1. Head(up) = up[1] /\ Len(up) \in Nat /\ Len(up) >= 1 /\ DOMAIN up = 1..Len(up)
        BY <2>1, UpHead DEF TypeInv
      <3> QED BY <3>1
    <2> QED BY <2>1, <2>2 DEF ProtocolOK, RequestsOK
  <1>2. FullUpdateIsComing /\ ~ReadyIsComing
    <2>1. Head(up) = up[1] /\ Len(up) \in Nat /\ Len(up) >= 1 /\ DOMAIN up = 1..Len(up)
      BY <1>1, UpHead DEF TypeInv
    <2>2. 1 \in DOMAIN up /\ \A i \in DOMAIN up : i = 1 \/ 1 < i
      BY <2>1
    <2> QED BY <1>1, <2>1, <2>2 DEF ProtocolOK, RequestsOK, FullUpdateIsComing, ReadyIsComing
  <1>3. ~fullUpdateRequested
    BY <1>2 DEF ProtocolOK, RequestsOK
  <1>4. FullUpdate(TRUE) /\ up' = up
    BY <1>1, <1>3 DEF HandleMessage, FullUpdateRequest
  <1>5. UNCHANGED <<frame, makingVars, canvasVars, down, connected, clientReady,
                    fullUpdateRequested>>
    BY <1>4 DEF HandleMessage, FullUpdate
  <1>6. UNCHANGED <<Idle, LastSent>>
    BY <1>5, IdleUnchanged DEF makingVars
  <1>7. ProtocolOK'
    BY <1>4, <1>5, <1>6, ProtocolUnchanged DEF canvasVars
  <1>8. fullUpdating' # "no" /\ FullUpdateIsComing' /\ ~marked'
    BY <1>2, <1>4, <1>5 DEF FullUpdate, FullUpdateIsComing, UpdatingOK, makingVars
  <1>9. UpdatingOK'
    BY <1>1, <1>3, <1>4, <1>5, <1>8 DEF UpdatingOK
  <1> QED BY <1>4, <1>7, <1>8, <1>9

\* What is known while a full update is prepared.
LEMMA Updating ==
  ASSUME TypeInv, ProtocolOK, UpdatingOK, fullUpdating # "no"
  PROVE  /\ up # <<>> /\ Head(up) = "forcedFullUpdate"
         /\ FullUpdateIsComing /\ ~ReadyIsComing /\ waitingForFullUpdate /\ ~fullUpdateRequested
         /\ ~marked
         /\ \A i \in DOMAIN down : ~Live(i)
  <1>1. up # <<>> /\ Head(up) = "forcedFullUpdate" /\ ~fullUpdateRequested
    BY DEF TypeInv, HandlingOK, UpdatingOK
  <1>2. Head(up) = up[1] /\ Len(up) \in Nat /\ Len(up) >= 1 /\ DOMAIN up = 1..Len(up)
    BY <1>1, UpHead DEF TypeInv
  <1>3. 1 \in DOMAIN up /\ \A i \in DOMAIN up : i = 1 \/ 1 < i
    BY <1>2
  <1>4. FullUpdateIsComing /\ ~ReadyIsComing
    BY <1>1, <1>2, <1>3 DEF ProtocolOK, RequestsOK, FullUpdateIsComing, ReadyIsComing
  <1>5. waitingForFullUpdate /\ ~marked
    BY <1>4 DEF ProtocolOK, RequestsOK, UpdatingOK
  <1>6. \A i \in DOMAIN down : \A j \in 1..i : down[j].command # "fullUpdate"
    <2>1. \A i \in DOMAIN down : down[i].command # "fullUpdate"
      BY <1>4 DEF ProtocolOK, DownOK
    <2>2. \A i \in DOMAIN down : \A j \in 1..i : j \in DOMAIN down
      BY DownDomain DEF TypeInv
    <2> QED BY <2>1, <2>2
  <1>7. \A i \in DOMAIN down : ~Live(i)
    BY <1>5, <1>6 DEF Live
  <1> QED BY <1>1, <1>4, <1>5, <1>7

\* The client that waits is declared ready, and no frame is being made for it.
LEMMA FullUpdateReadyProtocol ==
  ASSUME TypeInv, ProtocolOK, UpdatingOK, OwedOK, FullUpdateReady, overtaken' = {}
  PROVE  ProtocolOK' /\ UpdatingOK'
  <1>1. /\ Ready /\ fullUpdating = "blanked" /\ fullUpdating' = "ready"
        /\ UNCHANGED <<frame, makingVars, canvasVars, down, up, connected>>
        /\ ~(taking \in {"begun", "emitting"} /\ ~clientReady)
    BY DEF FullUpdateReady, Overtake
  <1>2. /\ up # <<>> /\ Head(up) = "forcedFullUpdate"
        /\ FullUpdateIsComing /\ ~ReadyIsComing /\ waitingForFullUpdate /\ ~fullUpdateRequested
        /\ ~marked
        /\ \A i \in DOMAIN down : ~Live(i)
    BY <1>1, Updating
  <1>3. ~Sending /\ LastSent' = LastSent
    BY <1>1 DEF OwedOK, Sending, LastSent, makingVars
  <1>4. FullUpdateIsComing' /\ ~ReadyIsComing' /\ waitingForFullUpdate' /\ ~fullUpdateRequested'
    BY <1>1, <1>2 DEF FullUpdateIsComing, ReadyIsComing, canvasVars, Ready
  <1>5. RequestsOK'
    BY <1>1, <1>4 DEF ProtocolOK, RequestsOK
  <1>6. \A i \in DOMAIN down' : ~Live(i)'
    BY <1>1, <1>2 DEF Live, canvasVars
  <1>7. DownOK'
    BY <1>1, <1>2, <1>6 DEF ProtocolOK, DownOK
  <1>8. LoadingOK'
    BY <1>1, <1>2, <1>3, <1>6 DEF ProtocolOK, LoadingOK, canvasVars
  <1>9. UpdatingOK'
    BY <1>1, <1>2, <1>4 DEF UpdatingOK, makingVars
  <1> QED BY <1>5, <1>7, <1>8, <1>9 DEF ProtocolOK

LEMMA FinishProtocol ==
  ASSUME TypeInv, ProtocolOK, UpdatingOK, FinishFullUpdate
  PROVE  ProtocolOK' /\ UpdatingOK' /\ ~ReadyIsComing' /\ ~FullUpdateIsComing'
  <1>1. /\ up' = Tail(up) /\ fullUpdating = "ready" /\ fullUpdating' = "no" /\ fullUpdateRequested'
        /\ UNCHANGED <<frame, clientReady, makingVars, canvasVars, down, connected>>
    BY DEF FinishFullUpdate
  <1>2. /\ up # <<>> /\ Head(up) = "forcedFullUpdate"
        /\ waitingForFullUpdate
        /\ \A i \in DOMAIN down : ~Live(i)
    BY <1>1, Updating
  <1>3. /\ ~ReadyIsComing' /\ ~FullUpdateIsComing'
        /\ \A i \in DOMAIN up' : up'[i] \in {"ready", "forcedFullUpdate", "resize"}
        /\ \A i, j \in DOMAIN up' : i < j =>
              /\ up'[j] = "ready" => up'[i] = "resize"
              /\ up'[j] = "forcedFullUpdate" => up'[i] # "forcedFullUpdate"
    BY <1>1, <1>2, RequestsTail DEF ProtocolOK, TypeInv
  <1>4. UNCHANGED <<Idle, LastSent>>
    BY <1>1, IdleUnchanged DEF makingVars
  <1>5. RequestsOK'
    BY <1>1, <1>3 DEF ProtocolOK, RequestsOK, canvasVars
  <1>6. \A i \in DOMAIN down' : ~Live(i)'
    BY <1>1, <1>2 DEF Live, canvasVars
  <1>7. DownOK'
    BY <1>3, <1>6 DEF DownOK
  <1>8. LoadingOK'
    BY <1>1, <1>2, <1>4, <1>6 DEF ProtocolOK, LoadingOK, canvasVars
  <1>9. UpdatingOK'
    BY <1>1, <1>3 DEF UpdatingOK
  <1> QED BY <1>3, <1>5, <1>7, <1>8, <1>9 DEF ProtocolOK

\* Which messages a frame adds, and that they are live when the client is not about to
\* ask for a full update, and the frame says that it is the one the client waits for.
LEMMA EmittedLive ==
  ASSUME TypeInv, MakingOK, OwedOK, ProtocolOK, UpdatingOK, EndFrame
  PROVE  /\ \A i \in DOMAIN down : Live(i)' <=> Live(i)
         /\ \A i \in DOMAIN down : Live(i) => down[i].command = "fullUpdate"
         /\ (waitingForFullUpdate => marked) =>
              \A k \in DOMAIN down' : k > Len(down) => Live(k)'
         /\ Idle /\ ~ReadyIsComing
         /\ FullUpdateIsComing => ~marked
  <1>1. /\ Len(down) \in Nat /\ DOMAIN down = 1..Len(down) /\ DOMAIN down' = 1..Len(down')
        /\ \A i \in DOMAIN down : down'[i] = down[i]
        /\ Len(down) <= Len(down')
        /\ marked => /\ Len(down) + 1 \in DOMAIN down'
                     /\ down'[Len(down) + 1] = [command |-> "fullUpdate", frame |-> frame]
        /\ \A k \in DOMAIN down' : k > Len(down) =>
             k \in Int /\ k >= Len(down) + 1
    <2>1. /\ Len(down) \in Nat /\ DOMAIN down = 1..Len(down) /\ DOMAIN down' = 1..Len(down')
          /\ \A i \in DOMAIN down : down'[i] = down[i]
          /\ Len(down) <= Len(down')
          /\ marked => /\ Len(down) + 1 \in DOMAIN down'
                       /\ down'[Len(down) + 1] = [command |-> "fullUpdate", frame |-> frame]
      BY EmittedMessages
    <2> QED BY <2>1
  <1>2. UNCHANGED waitingForFullUpdate
    BY DEF EndFrame, canvasVars
  <1>3. Idle /\ ~ReadyIsComing
    BY DEF EndFrame, OwedOK, ProtocolOK, RequestsOK
  <1>4. ASSUME NEW i \in DOMAIN down PROVE Live(i)' <=> Live(i)
    <2>1. \A j \in 1..i : down'[j] = down[j]
      BY <1>1
    <2> QED BY <1>2, <2>1 DEF Live
  <1>5. \A i \in DOMAIN down : Live(i) => down[i].command = "fullUpdate"
    BY <1>3 DEF ProtocolOK, DownOK
  <1>6. ASSUME waitingForFullUpdate => marked, NEW k \in DOMAIN down', k > Len(down) PROVE Live(k)'
    <2>1. Len(down) + 1 \in 1..k
      BY <1>1, <1>6
    <2>2. waitingForFullUpdate => down'[Len(down) + 1].command = "fullUpdate"
      BY <1>1, <1>6
    <2> QED BY <1>2, <2>1, <2>2 DEF Live
  <1>7. FullUpdateIsComing => ~marked
    BY DEF UpdatingOK
  <1> QED BY <1>3, <1>4, <1>5, <1>6, <1>7

LEMMA EmitProtocol ==
  ASSUME TypeInv, MakingOK, OwedOK, ProtocolOK, UpdatingOK, EndFrame
  PROVE  ProtocolOK' /\ UpdatingOK'
  <1>1. /\ UNCHANGED <<connected, up, fullUpdateRequested, lastFrame, frameEndReceived,
                       waitingForFullUpdate, loading, pendingPatches, frameErrors, frame,
                       clientReady, fullUpdating>>
        /\ taking = "emitting" /\ taking' = "no" /\ ~marked'
    BY DEF EndFrame, canvasVars
  <1>2. /\ Idle /\ ~ReadyIsComing /\ (FullUpdateIsComing => ~marked)
        /\ \A i \in DOMAIN down : Live(i)' <=> Live(i)
        /\ \A i \in DOMAIN down : Live(i) => down[i].command = "fullUpdate"
    BY EmittedLive
  <1>3. /\ frame \in Nat /\ LastSent \in Int /\ LastSent <= frame /\ LastSent' = frame
        /\ operations # <<>> => LastSent = frame - 1 /\ ~Idle'
        /\ Idle' => Idle
    <2>1. frame \in Nat /\ (Sending <=> operations # <<>>) /\ ~Sending'
      BY <1>1 DEF Sending, TypeInv, TypeOK
    <2> QED BY <1>1, <1>2, <2>1 DEF LastSent, Idle, OwedOK
  <1>4. /\ Len(down) \in Nat /\ DOMAIN down = 1..Len(down) /\ DOMAIN down' = 1..Len(down')
        /\ \A i \in DOMAIN down : down'[i] = down[i]
        /\ \A k \in DOMAIN down' : k \in DOMAIN down \/ k > Len(down)
    <2>1. /\ Len(down) \in Nat /\ DOMAIN down = 1..Len(down) /\ DOMAIN down' = 1..Len(down')
          /\ \A i \in DOMAIN down : down'[i] = down[i]
      BY EmittedMessages
    <2> QED BY <2>1
  <1>5. \A o \in DOMAIN operations : /\ operations[o].command \in {"fR", "mI", "dI"}
                                     /\ operations[o].frame = frame
    BY <1>1 DEF MakingOK, Operation
  <1>6. \A k \in DOMAIN down' : k > Len(down) =>
          \/ marked /\ k = Len(down) + 1 /\ down'[k] = [command |-> "fullUpdate", frame |-> frame]
          \/ /\ marked => k > Len(down) + 1
             /\ operations # <<>> /\ k < Len(down')
             /\ \E o \in DOMAIN operations : down'[k] = operations[o]
          \/ /\ marked => k > Len(down) + 1
             /\ operations # <<>> /\ k = Len(down')
             /\ down'[k] = [command |-> "end", frame |-> frame]
    BY EmittedMessages
  <1>7. RequestsOK'
    BY <1>1, <1>2 DEF ProtocolOK, RequestsOK, ReadyIsComing, FullUpdateIsComing
  <1>8. FullUpdateIsComing' => \A i \in DOMAIN down' : down'[i].command # "fullUpdate"
    <2> SUFFICES ASSUME FullUpdateIsComing, NEW i \in DOMAIN down' PROVE down'[i].command # "fullUpdate"
      BY <1>1 DEF FullUpdateIsComing
    <2>1. CASE i \in DOMAIN down
      BY <1>4, <2>1 DEF ProtocolOK, DownOK
    <2>2. CASE i > Len(down)
      BY <1>2, <1>5, <1>6, <2>2
    <2> QED BY <1>4, <2>1, <2>2
  <1>9. ASSUME NEW i \in DOMAIN down', i > Len(down)
        PROVE  /\ down'[i].frame <= LastSent'
               /\ down'[i].command # "fullUpdate" =>
                    /\ ~Idle'
                    /\ down'[i].frame = LastSent'
                    /\ lastFrame' = LastSent' => ~frameEndReceived'
                    /\ \A j \in DOMAIN down' : i < j => down'[j].command # "fullUpdate"
               /\ down'[i].command = "end" => i = Len(down')
    <2>1. CASE marked /\ i = Len(down) + 1 /\ down'[i] = [command |-> "fullUpdate", frame |-> frame]
      BY <1>3, <2>1
    <2>2. CASE /\ marked => i > Len(down) + 1
               /\ operations # <<>>
               /\ \/ i < Len(down') /\ \E o \in DOMAIN operations : down'[i] = operations[o]
                  \/ i = Len(down') /\ down'[i] = [command |-> "end", frame |-> frame]
      <3>1. LastSent = frame - 1 /\ ~Idle'
        BY <1>3, <2>2
      <3>2. down'[i].frame = LastSent'
        <4>1. ASSUME NEW o \in DOMAIN operations, down'[i] = operations[o] PROVE down'[i].frame = LastSent'
          BY <1>3, <1>5, <4>1
        <4>2. ASSUME down'[i] = [command |-> "end", frame |-> frame] PROVE down'[i].frame = LastSent'
          <5>1. [command |-> "end", frame |-> frame].frame = frame
            OBVIOUS
          <5> QED BY <1>3, <4>2, <5>1, Zenon
        <4> QED BY <2>2, <4>1, <4>2
      <3>3. lastFrame' # LastSent'
        <4>1. lastFrame <= LastSent /\ (lastFrame \in Nat \/ lastFrame = -1)
          BY DEF ProtocolOK, LoadingOK, TypeInv, TypeOK
        <4> QED BY <1>1, <1>3, <3>1, <4>1
      <3>4. ASSUME NEW j \in DOMAIN down', i < j PROVE down'[j].command # "fullUpdate"
        <4>1. j > Len(down) /\ ~(marked /\ j = Len(down) + 1)
          BY <1>4, <1>9, <2>2, <3>4
        <4> QED BY <1>5, <1>6, <4>1
      <3>5. down'[i].command = "end" => i = Len(down')
        BY <1>5, <2>2
      <3> QED BY <1>3, <3>1, <3>2, <3>3, <3>4, <3>5
    <2> QED BY <1>6, <1>9, <2>1, <2>2
  <1>10. \A i, j \in DOMAIN down' :
           i < j /\ Live(i)' /\ Operation(down'[i]) /\ Operation(down'[j]) => down'[i].tile # down'[j].tile
    <2> SUFFICES ASSUME NEW i \in DOMAIN down', NEW j \in DOMAIN down', i < j, Live(i)',
                        Operation(down'[i]), Operation(down'[j])
                 PROVE  down'[i].tile # down'[j].tile
      OBVIOUS
    <2>1. i > Len(down)
      BY <1>2, <1>4 DEF Operation
    <2>2. j > Len(down) /\ i # j
      BY <1>4, <2>1
    <2>3. (\E o \in DOMAIN operations : down'[i] = operations[o])
          /\ (\E o \in DOMAIN operations : down'[j] = operations[o])
      BY <1>6, <2>1, <2>2 DEF Operation
    <2> QED BY <2>1, <2>2, <2>3, EmittedMessages
  <1>11. DownOK'
    <2>1. ASSUME NEW i \in DOMAIN down', Live(i)', i \in DOMAIN down
          PROVE  down'[i].frame <= LastSent' /\ down'[i].command = "fullUpdate"
      <3>1. down[i].frame <= LastSent /\ down[i].command = "fullUpdate"
        BY <1>2, <2>1 DEF ProtocolOK, DownOK
      <3>2. down[i].frame \in Nat
        BY <2>1, DownDomain, MessageFields DEF TypeInv
      <3> QED BY <1>3, <1>4, <2>1, <3>1, <3>2
    <2> QED BY <1>4, <1>8, <1>9, <1>10, <2>1 DEF DownOK
  <1>12. LoadingOK'
    <2>1. loading = {} /\ frameErrors = 0
      BY <1>2 DEF ProtocolOK, LoadingOK
    <2>2. lastFrame' <= LastSent'
      <3>1. lastFrame <= LastSent /\ (lastFrame \in Nat \/ lastFrame = -1)
        BY DEF ProtocolOK, LoadingOK, TypeInv, TypeOK
      <3> QED BY <1>1, <1>3, <3>1
    <2> QED BY <1>1, <2>1, <2>2 DEF ProtocolOK, LoadingOK
  <1>13. UpdatingOK'
    BY <1>1 DEF UpdatingOK
  <1> QED BY <1>7, <1>11, <1>12, <1>13 DEF ProtocolOK

-----------------------------------------------------------------------------
(* The browser keeps the protocol *)

LEMMA OnlyEmptyTail == ASSUME NEW S, NEW q \in Seq(S), q # <<>>, Tail(q) = <<>> PROVE Len(q) = 1
  <1>1. Len(q) \in Nat /\ Len(q) # 0 /\ Len(Tail(q)) = Len(q) - 1
    BY EmptySeq
  <1>2. Len(Tail(q)) = 0
    BY EmptySeq
  <1> QED BY <1>1, <1>2

LEMMA OnlyMessage == ASSUME NEW S, NEW q \in Seq(S), Len(q) = 1 PROVE Tail(q) = <<>>
  <1>1. Tail(q) \in Seq(S) /\ Len(Tail(q)) = 0
    OBVIOUS
  <1> QED BY <1>1, EmptySeq

\* What the client knows when it performs a message.
LEMMA HeadMessage ==
  ASSUME TypeInv, ProtocolOK, down # <<>>
  PROVE  /\ ~ReadyIsComing /\ 1 \in DOMAIN down /\ down[1] = Head(down) /\ Head(down) \in Message
         /\ Head(down).frame \in Nat
         /\ ~waitingForFullUpdate \/ Head(down).command = "fullUpdate" =>
              /\ Live(1) /\ ~FullUpdateIsComing /\ Head(down).frame <= LastSent
              /\ loading # {} => lastFrame = Head(down).frame
              /\ pendingPatches # 0 <=> loading # {}
         /\ Head(down).command = "fullUpdate" => loading = {}
         /\ ~waitingForFullUpdate /\ Head(down).command # "fullUpdate" =>
              /\ ~Idle /\ Head(down).frame = LastSent
              /\ lastFrame = LastSent => ~frameEndReceived
              /\ \A i \in DOMAIN down : down[i].command # "fullUpdate"
         /\ ~waitingForFullUpdate /\ Head(down).command = "end" => Tail(down) = <<>>
  <1> DEFINE m == Head(down)
  <1>1. /\ m = down[1] /\ m \in Message /\ Len(down) \in Nat /\ Len(down) >= 1
        /\ DOMAIN down = 1..Len(down) /\ Tail(down) \in Seq(Message)
        /\ DOMAIN Tail(down) = 1..(Len(down) - 1)
    BY DownHead DEF TypeInv
  <1>2. 1 \in DOMAIN down /\ \A i \in DOMAIN down : i = 1 \/ 1 < i
    BY <1>1
  <1>3. m.frame \in Nat
    BY <1>1, MessageFields
  <1>4. ~ReadyIsComing
    BY DEF ProtocolOK, RequestsOK
  <1>5. ASSUME ~waitingForFullUpdate \/ m.command = "fullUpdate" PROVE Live(1)
    <2>1. 1 \in 1..1
      OBVIOUS
    <2> QED BY <1>1, <1>5, <2>1 DEF Live
  <1>6. m.command = "fullUpdate" => loading = {} /\ ~FullUpdateIsComing
    BY <1>1, <1>2 DEF ProtocolOK, LoadingOK, DownOK
  <1>7. ~waitingForFullUpdate => ~FullUpdateIsComing
    BY DEF ProtocolOK, RequestsOK
  <1>8. Live(1) => /\ m.frame <= LastSent
                   /\ m.command # "fullUpdate" =>
                        /\ ~Idle /\ m.frame = LastSent
                        /\ lastFrame = LastSent => ~frameEndReceived
                        /\ \A i \in DOMAIN down : 1 < i => down[i].command # "fullUpdate"
                   /\ m.command = "end" => 1 = Len(down)
    BY <1>1, <1>2 DEF ProtocolOK, DownOK
  <1>9. pendingPatches # 0 <=> loading # {}
    BY FS_EmptySet DEF ProtocolOK, LoadingOK
  <1>10. loading # {} => lastFrame = LastSent
    BY DEF ProtocolOK, LoadingOK
  <1>11. ASSUME 1 = Len(down) PROVE Tail(down) = <<>>
    <2>1. down \in Seq(Message)
      BY DEF TypeInv, TypeOK
    <2> QED BY <1>11, <2>1, OnlyMessage
  <1>12. ASSUME ~waitingForFullUpdate, m.command # "fullUpdate"
         PROVE  \A i \in DOMAIN down : down[i].command # "fullUpdate"
    BY <1>1, <1>2, <1>5, <1>8, <1>12
  <1>13. m.command = "end" => m.command # "fullUpdate"
    OBVIOUS
  <1> QED BY <1>1, <1>2, <1>3, <1>4, <1>5, <1>6, <1>7, <1>8, <1>9, <1>10, <1>11, <1>12

\* Taking the first message keeps the order of the others.
LEMMA ReceivedOrder ==
  ASSUME TypeInv, ProtocolOK, down # <<>>, down' = Tail(down),
         UNCHANGED <<connected, up, Idle, fullUpdateRequested, LastSent>>,
         waitingForFullUpdate' = (waitingForFullUpdate /\ Head(down).command # "fullUpdate"),
         frameEndReceived' => frameEndReceived /\ lastFrame' = lastFrame
  PROVE  RequestsOK' /\ DownOK'
  <1>1. /\ 1 \in DOMAIN down /\ Head(down) = down[1]
        /\ DOMAIN down' = 1..(Len(down) - 1) /\ Len(down') = Len(down) - 1
        /\ \A i \in DOMAIN down' : /\ i + 1 \in DOMAIN down /\ down'[i] = down[i + 1]
                                   /\ Live(i)' <=> Live(i + 1)
    BY LiveTail DEF TypeInv
  <1>2. Len(down) \in Nat
    BY DownDomain DEF TypeInv
  <1>3. ~ReadyIsComing /\ (Head(down).command = "fullUpdate" => ~FullUpdateIsComing)
    BY <1>1 DEF ProtocolOK, RequestsOK, DownOK
  <1>4. RequestsOK'
    BY <1>3 DEF ProtocolOK, RequestsOK, ReadyIsComing, FullUpdateIsComing
  <1>5. \A i, j \in DOMAIN down' : i < j => i + 1 < j + 1
    BY <1>1
  <1>6. \A i \in DOMAIN down' : i + 1 = Len(down) => i = Len(down')
    BY <1>1, <1>2
  <1>7. FullUpdateIsComing' => FullUpdateIsComing
    BY DEF FullUpdateIsComing
  <1>8. DownOK'
    BY <1>1, <1>5, <1>6, <1>7 DEF ProtocolOK, DownOK, Operation
  <1> QED BY <1>4, <1>8

\* A message that is no end of a frame, or that is thrown away.
LEMMA ReceivedProtocol ==
  ASSUME TypeInv, ProtocolOK, down # <<>>, down' = Tail(down),
         UNCHANGED <<connected, up, Idle, fullUpdateRequested, LastSent, frameErrors>>,
         waitingForFullUpdate' = (waitingForFullUpdate /\ Head(down).command # "fullUpdate"),
         \/ waitingForFullUpdate /\ Head(down).command # "fullUpdate" /\ UNCHANGED canvasVars
         \/ /\ ~waitingForFullUpdate \/ Head(down).command = "fullUpdate"
            /\ lastFrame' = Head(down).frame
            /\ frameEndReceived' = (frameEndReceived /\ ~(lastFrame # Head(down).frame))
            /\ \/ /\ Head(down).command \in {"fullUpdate", "fR", "mI"}
                  /\ loading' = loading
                  /\ pendingPatches' = IF Head(down).command = "fullUpdate" THEN 0 ELSE pendingPatches
               \/ /\ Head(down).command = "dI"
                  /\ \E image \in Image : image.tile = Head(down).tile /\ loading' = loading \cup {image}
                  /\ pendingPatches' = pendingPatches + 1
  PROVE  ProtocolOK'
  <1> DEFINE m == Head(down)
  <1>1. /\ 1 \in DOMAIN down /\ m = down[1]
        /\ \A i \in DOMAIN down' : /\ i + 1 \in DOMAIN down /\ down'[i] = down[i + 1]
                                   /\ Live(i)' <=> Live(i + 1)
        /\ \A i \in DOMAIN down' : i + 1 \in Int /\ 1 < i + 1
    <2>1. /\ 1 \in DOMAIN down /\ m = down[1] /\ DOMAIN down' = 1..(Len(down) - 1)
          /\ \A i \in DOMAIN down' : /\ i + 1 \in DOMAIN down /\ down'[i] = down[i + 1]
                                     /\ Live(i)' <=> Live(i + 1)
      BY LiveTail DEF TypeInv
    <2> QED BY <2>1
  <1>2. /\ ~ReadyIsComing /\ m.frame \in Nat
        /\ ~waitingForFullUpdate \/ m.command = "fullUpdate" =>
             /\ Live(1) /\ m.frame <= LastSent
             /\ loading # {} => lastFrame = m.frame
        /\ m.command = "fullUpdate" => loading = {}
        /\ ~waitingForFullUpdate /\ m.command # "fullUpdate" =>
             /\ ~Idle /\ m.frame = LastSent
             /\ \A i \in DOMAIN down : down[i].command # "fullUpdate"
    BY HeadMessage
  <1>3. RequestsOK' /\ DownOK'
    <2>1. frameEndReceived' => frameEndReceived /\ lastFrame' = lastFrame
      BY DEF canvasVars
    <2> QED BY <2>1, ReceivedOrder
  <1>4. /\ IsFiniteSet(loading) /\ pendingPatches = Cardinality(loading) /\ lastFrame <= LastSent
        /\ waitingForFullUpdate \/ Idle \/ ReadyIsComing => loading = {} /\ frameErrors = 0
        /\ loading # {} => lastFrame = LastSent /\ \A i \in DOMAIN down : down[i].command # "fullUpdate"
        /\ \A i \in DOMAIN down : Live(i) /\ Operation(down[i]) =>
             \A image \in loading : image.tile # down[i].tile
    BY DEF ProtocolOK, LoadingOK
  <1>5. ReadyIsComing' <=> ReadyIsComing
    BY DEF ReadyIsComing
  <1>6. CASE waitingForFullUpdate /\ m.command # "fullUpdate" /\ UNCHANGED canvasVars
    <2>1. LoadingOK'
      BY <1>1, <1>4, <1>5, <1>6 DEF LoadingOK, canvasVars, Operation
    <2> QED BY <1>3, <2>1 DEF ProtocolOK
  <1>7. CASE /\ ~waitingForFullUpdate \/ m.command = "fullUpdate"
             /\ lastFrame' = m.frame /\ m.command \in {"fullUpdate", "fR", "mI"}
             /\ loading' = loading
             /\ pendingPatches' = IF m.command = "fullUpdate" THEN 0 ELSE pendingPatches
    <2>1. pendingPatches' = Cardinality(loading')
      BY <1>2, <1>4, <1>7, FS_EmptySet
    <2>2. loading' # {} => lastFrame' = LastSent' /\ \A i \in DOMAIN down' : down'[i].command # "fullUpdate"
      BY <1>1, <1>2, <1>4, <1>7
    <2>3. \A i \in DOMAIN down' : Live(i)' /\ Operation(down'[i]) =>
             \A image \in loading' : image.tile # down'[i].tile
      BY <1>1, <1>4, <1>7 DEF Operation
    <2>4. waitingForFullUpdate' \/ Idle' \/ ReadyIsComing' => loading' = {} /\ frameErrors' = 0
      BY <1>4, <1>5, <1>7
    <2>5. lastFrame' <= LastSent'
      BY <1>2, <1>7
    <2>6. LoadingOK'
      BY <1>4, <1>7, <2>1, <2>2, <2>3, <2>4, <2>5 DEF LoadingOK
    <2> QED BY <1>3, <2>6 DEF ProtocolOK
  <1>8. CASE /\ ~waitingForFullUpdate \/ m.command = "fullUpdate"
             /\ lastFrame' = m.frame /\ m.command = "dI"
             /\ \E image \in Image : image.tile = m.tile /\ loading' = loading \cup {image}
             /\ pendingPatches' = pendingPatches + 1
    <2>1. PICK image \in Image : image.tile = m.tile /\ loading' = loading \cup {image}
      BY <1>8
    <2>2. ~waitingForFullUpdate /\ Live(1) /\ Operation(down[1])
      BY <1>1, <1>2, <1>8 DEF Operation
    <2>3. image \notin loading
      BY <1>1, <1>4, <2>1, <2>2
    <2>4. IsFiniteSet(loading') /\ pendingPatches' = Cardinality(loading')
      BY <1>4, <1>8, <2>1, <2>3, FS_AddElement
    <2>5. \A i \in DOMAIN down' : Live(i)' /\ Operation(down'[i]) =>
             \A i2 \in loading' : i2.tile # down'[i].tile
      <3> SUFFICES ASSUME NEW i \in DOMAIN down', Live(i)', Operation(down'[i]), NEW i2 \in loading'
                   PROVE  i2.tile # down'[i].tile
        OBVIOUS
      <3>1. Live(i + 1) /\ Operation(down[i + 1]) /\ down'[i] = down[i + 1] /\ i + 1 \in DOMAIN down /\ 1 < i + 1
        BY <1>1 DEF Operation
      <3>2. down[1].tile # down[i + 1].tile
        BY <1>1, <2>2, <3>1 DEF ProtocolOK, DownOK
      <3> QED BY <1>1, <1>4, <2>1, <3>1, <3>2
    <2>6. lastFrame' = LastSent' /\ \A i \in DOMAIN down' : down'[i].command # "fullUpdate"
      BY <1>1, <1>2, <1>8, <2>2
    <2>7. ~waitingForFullUpdate' /\ ~Idle' /\ ~ReadyIsComing'
      BY <1>2, <1>5, <1>8, <2>2
    <2>8. lastFrame' <= LastSent'
      BY <1>2, <1>8
    <2>9. LoadingOK'
      BY <2>4, <2>5, <2>6, <2>7, <2>8 DEF LoadingOK
    <2> QED BY <1>3, <2>9 DEF ProtocolOK
  <1> QED BY <1>6, <1>7, <1>8

\* The answer to a complete frame, behind requests for a new size at most.
LEMMA AnswerRequests ==
  ASSUME TypeInv, \A i \in DOMAIN up : up[i] = "resize", NEW failed \in BOOLEAN,
         up' = up \o <<"ready">> \o (IF failed THEN <<"forcedFullUpdate">> ELSE <<>>)
  PROVE  /\ \A i \in DOMAIN up' : up'[i] \in {"ready", "forcedFullUpdate", "resize"}
         /\ \A i, j \in DOMAIN up' : i < j =>
              /\ up'[j] = "ready" => up'[i] = "resize"
              /\ up'[j] = "forcedFullUpdate" => up'[i] # "forcedFullUpdate"
         /\ ReadyIsComing' /\ (FullUpdateIsComing' <=> failed)
  <1>1. "ready" \in Request /\ "forcedFullUpdate" \in Request
    BY DEF Request
  <1>2. up' = IF failed THEN Append(Append(up, "ready"), "forcedFullUpdate") ELSE Append(up, "ready")
    BY <1>1, UpAppend DEF TypeInv
  <1>3. up \in Seq(Request)
    BY DEF TypeInv, TypeOK
  <1>4. ASSUME NEW q \in Seq(Request), NEW r \in Request
        PROVE  /\ Append(q, r) \in Seq(Request) /\ Len(q) \in Nat
               /\ DOMAIN q = 1..Len(q) /\ DOMAIN Append(q, r) = 1..(Len(q) + 1)
               /\ \A i \in 1..Len(q) : Append(q, r)[i] = q[i]
               /\ Append(q, r)[Len(q) + 1] = r /\ Len(Append(q, r)) = Len(q) + 1
    OBVIOUS
  <1> DEFINE p == Append(up, "ready")
             n == Len(up)
  <1>5. /\ p \in Seq(Request) /\ n \in Nat /\ Len(p) = n + 1 /\ DOMAIN p = 1..(n + 1)
        /\ \A i \in 1..n : p[i] = "resize"
        /\ p[n + 1] = "ready"
    <2>1. DOMAIN up = 1..Len(up)
      BY <1>3
    <2> QED BY <1>1, <1>3, <1>4, <2>1
  <1> HIDE DEF p, n
  <1>6. CASE ~failed
    <2>1. up' = p
      BY <1>2, <1>6 DEF p
    <2>2. \A i \in 1..(n + 1) : i \in 1..n \/ i = n + 1
      BY <1>5
    <2>3. \A i, j \in 1..(n + 1) : i < j => i \in 1..n
      BY <1>5
    <2>4. n + 1 \in 1..(n + 1)
      BY <1>5
    <2> QED BY <1>5, <1>6, <2>1, <2>2, <2>3, <2>4 DEF ReadyIsComing, FullUpdateIsComing
  <1>7. CASE failed
    <2>1. up' = Append(p, "forcedFullUpdate")
      BY <1>2, <1>7 DEF p
    <2>2. /\ DOMAIN up' = 1..(n + 2) /\ up'[n + 2] = "forcedFullUpdate"
          /\ \A i \in 1..n : up'[i] = "resize"
          /\ up'[n + 1] = "ready"
      <3>1. /\ DOMAIN up' = 1..(Len(p) + 1) /\ up'[Len(p) + 1] = "forcedFullUpdate"
            /\ \A i \in 1..Len(p) : up'[i] = p[i]
        BY <1>1, <1>4, <1>5, <2>1
      <3> QED BY <1>5, <3>1
    <2>3. \A i \in 1..(n + 2) : i \in 1..n \/ i = n + 1 \/ i = n + 2
      BY <1>5
    <2>4. \A i, j \in 1..(n + 2) : i < j => /\ i \in 1..(n + 1)
                                            /\ j = n + 1 => i \in 1..n
      BY <1>5
    <2>5. n + 1 \in 1..(n + 2) /\ n + 2 \in 1..(n + 2) /\ \A i \in 1..(n + 1) : i \in 1..n \/ i = n + 1
      BY <1>5
    <2> QED BY <1>5, <1>7, <2>2, <2>3, <2>4, <2>5 DEF ReadyIsComing, FullUpdateIsComing
  <1> QED BY <1>6, <1>7

\* The end of a frame, and the end of loading an image.
LEMMA DetermineProtocol ==
  ASSUME TypeInv, ProtocolOK, NEW ended \in BOOLEAN, NEW count \in Int, NEW errors \in Nat,
         NEW picture, DetermineReadyState(ended, count, errors, picture),
         UNCHANGED <<connected, Idle, fullUpdateRequested, LastSent>>,
         lastFrame' = LastSent, ~Idle, ~ReadyIsComing, ~waitingForFullUpdate,
         \A i \in DOMAIN down : down[i].command # "fullUpdate",
         loading' \subseteq loading, IsFiniteSet(loading'), count = Cardinality(loading'),
         ended => down' = <<>>, ~ended => down' = down
  PROVE  ProtocolOK'
  <1> DEFINE complete == ended /\ count = 0
  <1>1. connected /\ ~FullUpdateIsComing
    BY DEF ProtocolOK, RequestsOK
  <1>2. /\ frameEndReceived' = ended /\ pendingPatches' = count
        /\ frameErrors' = IF complete THEN 0 ELSE errors
        /\ waitingForFullUpdate' = (complete /\ errors > 0)
    BY <1>1 DEF DetermineReadyState
  <1>3. LastSent \in Int /\ LastSent <= LastSent
    BY LastType DEF TypeInv
  <1>4. complete => loading' = {} /\ down' = <<>>
    BY FS_EmptySet
  <1>5. CASE complete
    <2> DEFINE failed == errors > 0
    <2>1. up' = up \o <<"ready">> \o (IF failed THEN <<"forcedFullUpdate">> ELSE <<>>)
      BY <1>1, <1>5 DEF DetermineReadyState, Ask
    <2>2. \A i \in DOMAIN up : up[i] = "resize"
      BY <1>1 DEF ProtocolOK, RequestsOK, ReadyIsComing, FullUpdateIsComing
    <2>3. failed \in BOOLEAN
      OBVIOUS
    <2> HIDE DEF failed
    <2>4. /\ \A i \in DOMAIN up' : up'[i] \in {"ready", "forcedFullUpdate", "resize"}
          /\ \A i, j \in DOMAIN up' : i < j =>
               /\ up'[j] = "ready" => up'[i] = "resize"
               /\ up'[j] = "forcedFullUpdate" => up'[i] # "forcedFullUpdate"
          /\ ReadyIsComing' /\ (FullUpdateIsComing' <=> failed)
      BY <2>1, <2>2, <2>3, AnswerRequests
    <2>5. waitingForFullUpdate' <=> failed
      BY <1>2, <1>5 DEF failed
    <2>6. RequestsOK'
      BY <1>1, <1>4, <1>5, <2>4, <2>5 DEF RequestsOK
    <2>7. DownOK'
      BY <1>4, <1>5 DEF DownOK
    <2>8. LoadingOK'
      BY <1>2, <1>3, <1>4, <1>5 DEF LoadingOK
    <2> QED BY <2>6, <2>7, <2>8 DEF ProtocolOK
  <1>6. CASE ~complete
    <2>1. up' = up /\ ~waitingForFullUpdate'
      BY <1>2, <1>6 DEF DetermineReadyState
    <2>2. ~ReadyIsComing' /\ ~FullUpdateIsComing'
      BY <1>1, <2>1 DEF ReadyIsComing, FullUpdateIsComing
    <2>3. RequestsOK'
      BY <1>1, <2>1, <2>2 DEF ProtocolOK, RequestsOK
    <2>4. \A i \in DOMAIN down' : /\ ~ended /\ i \in DOMAIN down /\ down'[i] = down[i]
                                  /\ Live(i)' /\ Live(i)
      BY <2>1 DEF Live
    <2>5. DownOK'
      <3>1. \A i \in DOMAIN down' : i = Len(down) => i = Len(down')
        BY <2>4
      <3> QED BY <1>2, <2>2, <2>4, <3>1 DEF ProtocolOK, DownOK, Operation
    <2>6. LoadingOK'
      BY <1>2, <1>3, <2>1, <2>2, <2>4 DEF ProtocolOK, LoadingOK, Operation
    <2> QED BY <2>3, <2>5, <2>6 DEF ProtocolOK
  <1> QED BY <1>5, <1>6

LEMMA ReceiveProtocol ==
  ASSUME TypeInv, ProtocolOK, ReceiveMessage
  PROVE  /\ ProtocolOK'
         /\ ~(/\ ~waitingForFullUpdate /\ lastFrame # Head(down).frame
              /\ pendingPatches # 0 /\ Head(down).command # "fullUpdate")
  <1> DEFINE m == Head(down)
  <1>1. /\ down # <<>> /\ down' = Tail(down)
        /\ UNCHANGED <<connected, Idle, fullUpdateRequested, LastSent>>
    BY IdleUnchanged DEF ReceiveMessage, displayVars, makingVars
  <1>2. /\ ~ReadyIsComing /\ m \in Message /\ m.frame \in Nat
        /\ ~waitingForFullUpdate \/ m.command = "fullUpdate" =>
             /\ loading # {} => lastFrame = m.frame
             /\ pendingPatches # 0 <=> loading # {}
        /\ ~waitingForFullUpdate /\ m.command # "fullUpdate" =>
             /\ ~Idle /\ m.frame = LastSent
             /\ \A i \in DOMAIN down : down[i].command # "fullUpdate"
        /\ ~waitingForFullUpdate /\ m.command = "end" => Tail(down) = <<>>
    BY <1>1, HeadMessage
  <1>3. ~(/\ ~waitingForFullUpdate /\ lastFrame # Head(down).frame
          /\ pendingPatches # 0 /\ Head(down).command # "fullUpdate")
    BY <1>2
  <1>4. m.command \in {"fullUpdate", "end", "fR", "mI", "dI"}
    BY <1>2, MessageFields
  <1>5. CASE waitingForFullUpdate /\ m.command # "fullUpdate"
    <2>1. UNCHANGED <<canvasVars, up>>
      BY <1>5 DEF ReceiveMessage
    <2>2. waitingForFullUpdate' = (waitingForFullUpdate /\ m.command # "fullUpdate")
      BY <1>5, <2>1 DEF canvasVars, TypeInv, TypeOK
    <2>3. ProtocolOK'
      BY <1>1, <1>5, <2>1, <2>2, ReceivedProtocol DEF canvasVars
    <2> QED BY <1>3, <2>3
  <1>6. CASE ~waitingForFullUpdate \/ m.command = "fullUpdate"
    <2>1. /\ lastFrame' = m.frame
          /\ Perform(m, frameEndReceived /\ ~(lastFrame # m.frame))
      BY <1>3, <1>6 DEF ReceiveMessage
    <2>2. CASE m.command = "fullUpdate"
      <3>1. /\ frameEndReceived' = (frameEndReceived /\ ~(lastFrame # m.frame)) /\ pendingPatches' = 0
            /\ UNCHANGED <<frameErrors, loading, up>> /\ waitingForFullUpdate' = FALSE
        BY <2>1, <2>2 DEF Perform
      <3>2. waitingForFullUpdate' = (waitingForFullUpdate /\ m.command # "fullUpdate")
        BY <2>2, <3>1
      <3>3. ProtocolOK'
        BY <1>1, <2>1, <2>2, <3>1, <3>2, ReceivedProtocol
      <3> QED BY <1>3, <3>3
    <2>3. CASE m.command \in {"fR", "mI"}
      <3>1. /\ frameEndReceived' = (frameEndReceived /\ ~(lastFrame # m.frame))
            /\ UNCHANGED <<frameErrors, loading, up, waitingForFullUpdate, pendingPatches>>
        BY <2>1, <2>3 DEF Perform
      <3>2. waitingForFullUpdate' = (waitingForFullUpdate /\ m.command # "fullUpdate")
        BY <1>6, <2>3, <3>1 DEF TypeInv, TypeOK
      <3>3. ProtocolOK'
        BY <1>1, <1>6, <2>1, <2>3, <3>1, <3>2, ReceivedProtocol
      <3> QED BY <1>3, <3>3
    <2>4. CASE m.command = "dI"
      <3> DEFINE image == [session |-> session, frame |-> m.frame, tile |-> m.tile, color |-> m.color]
      <3>1. /\ frameEndReceived' = (frameEndReceived /\ ~(lastFrame # m.frame))
            /\ UNCHANGED <<frameErrors, up, waitingForFullUpdate>>
            /\ pendingPatches' = pendingPatches + 1 /\ loading' = loading \cup {image}
        BY <2>1, <2>4 DEF Perform
      <3>2. image \in Image /\ image.tile = m.tile
        BY <1>2, <2>4, MessageFields DEF Image, TypeInv, TypeOK
      <3>3. waitingForFullUpdate' = (waitingForFullUpdate /\ m.command # "fullUpdate")
        BY <1>6, <2>4, <3>1 DEF TypeInv, TypeOK
      <3> HIDE DEF image
      <3>4. ProtocolOK'
        BY <1>1, <1>6, <2>1, <2>4, <3>1, <3>2, <3>3, ReceivedProtocol
      <3> QED BY <1>3, <3>4
    <2>5. CASE m.command = "end"
      <3>1. /\ DetermineReadyState(TRUE, pendingPatches, frameErrors, canvas)
            /\ UNCHANGED loading
        BY <2>1, <2>5 DEF Perform
      <3>2. ~waitingForFullUpdate /\ down' = <<>> /\ lastFrame' = LastSent /\ ~Idle
        BY <1>1, <1>2, <1>6, <2>1, <2>5
      <3>3. /\ pendingPatches \in Int /\ frameErrors \in Nat
            /\ IsFiniteSet(loading') /\ pendingPatches = Cardinality(loading') /\ loading' \subseteq loading
        BY <3>1 DEF ProtocolOK, LoadingOK, TypeInv, TypeOK
      <3>4. \A i \in DOMAIN down : down[i].command # "fullUpdate"
        BY <1>2, <2>5, <3>2
      <3>5. ProtocolOK'
        BY <1>1, <1>2, <3>1, <3>2, <3>3, <3>4, DetermineProtocol
      <3> QED BY <1>3, <3>5
    <2> QED BY <1>4, <2>2, <2>3, <2>4, <2>5
  <1> QED BY <1>5, <1>6

\* While an image is loading, the client performs the last frame, and has all of it
\* when it has its end.
LEMMA WhileLoading ==
  ASSUME TypeInv, ProtocolOK, loading # {}
  PROVE  /\ ~waitingForFullUpdate /\ ~Idle /\ ~ReadyIsComing /\ ~FullUpdateIsComing
         /\ lastFrame = LastSent
         /\ \A i \in DOMAIN down : down[i].command # "fullUpdate"
         /\ frameEndReceived => down = <<>>
  <1>1. /\ ~waitingForFullUpdate /\ ~Idle /\ ~ReadyIsComing
        /\ lastFrame = LastSent
        /\ \A i \in DOMAIN down : down[i].command # "fullUpdate"
    BY DEF ProtocolOK, LoadingOK
  <1>2. ~FullUpdateIsComing
    BY <1>1 DEF ProtocolOK, RequestsOK
  <1>3. \A i \in DOMAIN down : ~frameEndReceived
    BY <1>1 DEF ProtocolOK, DownOK, Live
  <1>4. frameEndReceived => down = <<>>
    BY <1>3, DownDomain DEF TypeInv
  <1> QED BY <1>1, <1>2, <1>4

LEMMA ImageProtocol ==
  ASSUME TypeInv, ProtocolOK, NEW image \in loading, NEW errors \in Nat, NEW picture,
         DetermineReadyState(frameEndReceived, pendingPatches - 1, errors, picture),
         loading' = loading \ {image},
         UNCHANGED <<connected, Idle, fullUpdateRequested, LastSent, lastFrame, down>>
  PROVE  ProtocolOK'
  <1>1. /\ ~waitingForFullUpdate /\ ~Idle /\ ~ReadyIsComing
        /\ lastFrame = LastSent
        /\ \A i \in DOMAIN down : down[i].command # "fullUpdate"
        /\ frameEndReceived => down = <<>>
    BY WhileLoading
  <1>2. frameEndReceived \in BOOLEAN /\ pendingPatches - 1 \in Int
    BY DEF TypeInv, TypeOK
  <1>3. /\ IsFiniteSet(loading') /\ pendingPatches - 1 = Cardinality(loading') /\ loading' \subseteq loading
    BY FS_RemoveElement DEF ProtocolOK, LoadingOK
  <1> QED BY <1>1, <1>2, <1>3, DetermineProtocol

\* A new size of the page.
LEMMA ResizeElementProtocol ==
  ASSUME TypeInv, ProtocolOK, ResizeElement
  PROVE  ProtocolOK' /\ (ReadyIsComing' <=> ReadyIsComing) /\ (FullUpdateIsComing' <=> FullUpdateIsComing)
  <1>1. /\ up' = Append(up, "resize")
        /\ UNCHANGED <<displayVars, canvasVars, down, connected>>
    BY DEF ResizeElement
  <1>2. "resize" \in Request
    BY DEF Request
  <1>3. /\ Len(up) \in Nat /\ DOMAIN up = 1..Len(up) /\ DOMAIN up' = 1..(Len(up) + 1)
        /\ \A i \in 1..Len(up) : up'[i] = up[i]
        /\ up'[Len(up) + 1] = "resize"
    <2>1. up \in Seq(Request)
      BY DEF TypeInv, TypeOK
    <2> HIDE DEF Request
    <2> QED BY <1>1, <1>2, <2>1
  <1>4. /\ \A i \in DOMAIN up' : \/ i \in DOMAIN up /\ up'[i] = up[i]
                                 \/ i = Len(up) + 1 /\ up'[i] = "resize"
        /\ \A i \in DOMAIN up : i \in DOMAIN up' /\ i # Len(up) + 1
        /\ \A i, j \in DOMAIN up' : i < j => i # Len(up) + 1
    <2>1. \A i \in DOMAIN up' : i \in 1..Len(up) \/ i = Len(up) + 1
      BY <1>3
    <2>2. \A i \in DOMAIN up : i \in DOMAIN up' /\ i # Len(up) + 1
      BY <1>3
    <2>3. \A i, j \in DOMAIN up' : i < j => i # Len(up) + 1
      BY <1>3
    <2> QED BY <1>3, <2>1, <2>2, <2>3
  <1>5. (ReadyIsComing' <=> ReadyIsComing) /\ (FullUpdateIsComing' <=> FullUpdateIsComing)
    BY <1>3, <1>4 DEF ReadyIsComing, FullUpdateIsComing
  <1>9. UNCHANGED <<Idle, LastSent>>
    BY <1>1, IdleUnchanged DEF displayVars, makingVars
  <1>6. RequestsOK'
    BY <1>1, <1>3, <1>4, <1>5, <1>9 DEF ProtocolOK, RequestsOK, displayVars, canvasVars
  <1>7. DownOK'
    BY <1>1, <1>5, <1>9 DEF ProtocolOK, DownOK, displayVars, canvasVars, Live, Operation
  <1>8. LoadingOK'
    BY <1>1, <1>5, <1>9 DEF ProtocolOK, LoadingOK, displayVars, canvasVars, Live, Operation
  <1> QED BY <1>5, <1>6, <1>7, <1>8 DEF ProtocolOK

LEMMA ProtocolInit == ASSUME Init PROVE ProtocolOK /\ UpdatingOK
  <1>1. DOMAIN down = {} /\ DOMAIN up = {} /\ LastSent = 0
    BY DEF Init, LastSent, Sending
  <1>2. RequestsOK
    BY <1>1 DEF Init, RequestsOK, ReadyIsComing, FullUpdateIsComing
  <1>3. DownOK
    BY <1>1 DEF DownOK
  <1>4. LoadingOK
    BY <1>1, FS_EmptySet DEF Init, LoadingOK
  <1>5. UpdatingOK
    BY DEF Init, UpdatingOK
  <1> QED BY <1>2, <1>3, <1>4, <1>5 DEF ProtocolOK

\* A connection that has not broken is there, and what has disturbed it is not undone.
LEMMA ConnectedNext ==
  ASSUME TypeInv, disconnects = 0 => connected, [Next]_vars
  PROVE  /\ (disconnects = 0 => connected)'
         /\ Undisturbed' => Undisturbed /\ ~Disconnect
  <1>1. disconnects \in Nat
    BY BoundAssumption DEF TypeInv, TypeOK
  <1>2. CASE Disconnect
    <2>1. disconnects' # 0
      BY <1>1, <1>2 DEF Disconnect
    <2> QED BY <2>1 DEF Undisturbed
  <1>3. CASE Reattach \/ StartNewSession
    <2>1. ~connected /\ connected' /\ disconnects' = disconnects
      BY <1>3 DEF Reattach, StartNewSession, boundVars
    <2> QED BY <1>1, <2>1 DEF Undisturbed
  <1>4. CASE ~Disconnect /\ ~Reattach /\ ~StartNewSession
    <2>1. UNCHANGED <<connected, disconnects>>
      BY <1>4 DEF Next, DisplayNext, TakePendingMessages, BrowserNext, EnvironmentNext, Reconnect,
                  vars, boundVars, UpdateCheckTimerTimeout, HandleMessage, FullUpdateReady,
                  FinishFullUpdate, CheckUpdateAvailable, ClaimUpdate, PaintUpdatesToBuffer,
                  FindUpdateOperations, BeginFrame, ReadFullUpdateRequested, EmitOperation,
                  EndFrame, ReceiveMessage, TakePatch, ImageLoaded, ImageFailed, SceneChanged,
                  ResizeElement
    <2>2. overtaken \subseteq overtaken'
      BY <1>4 DEF Next, DisplayNext, TakePendingMessages, BrowserNext, EnvironmentNext, Reconnect,
                  vars, displayVars, historyVars, Overtake, UpdateCheckTimerTimeout, HandleMessage,
                  FullUpdateReady, FinishFullUpdate, CheckUpdateAvailable, ClaimUpdate,
                  PaintUpdatesToBuffer, FindUpdateOperations, BeginFrame, ReadFullUpdateRequested,
                  EmitOperation, EndFrame, ReceiveMessage, TakePatch, ImageLoaded, ImageFailed,
                  SceneChanged, ResizeElement
    <2> QED BY <1>4, <2>1, <2>2 DEF Undisturbed
  <1> QED BY <1>2, <1>3, <1>4

\* The browser answers before a thread takes the next update.
LEMMA BrowserUpdating ==
  ASSUME TypeInv, MakingOK, OwedOK, ProtocolOK, UpdatingOK, BrowserNext
  PROVE  UpdatingOK'
  <1>1. UNCHANGED <<fullUpdating, fullUpdateRequested, marked>>
    BY DEF BrowserNext, ReceiveMessage, TakePatch, ImageLoaded, ImageFailed, displayVars,
           makingVars
  <1>2. CASE up' = up
    BY <1>1, <1>2 DEF UpdatingOK, FullUpdateIsComing
  <1>3. ASSUME ~Idle, up # <<>> => Head(up') = Head(up) PROVE UpdatingOK'
    <2>1. ~marked
      BY <1>3 DEF OwedOK, MakingOK
    <2>2. fullUpdating # "no" => up # <<>>
      BY DEF TypeInv, HandlingOK
    <2> QED BY <1>1, <1>3, <2>1, <2>2 DEF UpdatingOK
  <1>4. pendingPatches \in Int /\ frameErrors \in Nat /\ frameEndReceived \in BOOLEAN
        /\ canvas \in Picture /\ TypeOK
    BY DEF TypeInv, TypeOK
  <1>5. CASE ReceiveMessage /\ up' # up
    <2> DEFINE m == Head(down)
    <2>1. down # <<>>
      BY <1>5 DEF ReceiveMessage
    <2>2. Perform(m, frameEndReceived /\ ~(lastFrame # m.frame))
          /\ (~waitingForFullUpdate \/ m.command = "fullUpdate")
      BY <1>5, ReceiveProtocol DEF ReceiveMessage
    <2>3. m.command = "end" /\ ~Idle
      BY <1>5, <2>1, <2>2, HeadMessage DEF Perform
    <2>4. (frameEndReceived /\ ~(lastFrame # m.frame)) \in BOOLEAN
      OBVIOUS
    <2>5. m \in Message
      BY <2>1, DownHead DEF TypeInv
    <2>6. up # <<>> => Head(up') = Head(up)
      BY <2>2, <2>4, <2>5, PerformType
    <2> QED BY <1>3, <2>3, <2>6
  <1>6. ASSUME NEW image \in loading, ImageLoaded(image) \/ ImageFailed(image)
        PROVE  UpdatingOK'
    <2>1. ~Idle
      BY WhileLoading
    <2>2. [canvas EXCEPT ![image.tile] = image.color] \in Picture
      BY <1>4 DEF Picture, TypeInv, TypeOK, Image
    <2>3. pendingPatches - 1 \in Int /\ frameErrors + 1 \in Nat
      BY <1>4
    <2>4. up # <<>> => Head(up') = Head(up)
      BY <1>4, <1>6, <2>2, <2>3, DetermineType DEF ImageLoaded, ImageFailed
    <2> QED BY <1>3, <2>1, <2>4
  <1>7. ASSUME NEW image \in loading, TakePatch(image) PROVE UpdatingOK'
    BY <1>2, <1>7 DEF TakePatch
  <1> QED BY <1>2, <1>5, <1>6, <1>7 DEF BrowserNext

\* The steps that neither the client nor the protocol has to do with.
LEMMA ProtocolKept ==
  ASSUME TypeInv, FlowInv, ProtocolOK, UpdatingOK,
         \/ UpdateCheckTimerTimeout \/ CheckUpdateAvailable \/ ClaimUpdate
         \/ PaintUpdatesToBuffer \/ FindUpdateOperations \/ UNCHANGED vars
         \/ BeginFrame \/ ReadFullUpdateRequested \/ EmitOperation
         \/ \E t \in Tile, color \in Color : SceneChanged(t, color)
         \/ \E image \in loading : TakePatch(image)
  PROVE  /\ ProtocolOK' /\ UpdatingOK' /\ UNCHANGED <<Idle, LastSent, fullUpdating, up>>
         /\ (ReadyIsComing' <=> ReadyIsComing) /\ (FullUpdateIsComing' <=> FullUpdateIsComing)
  <1>1. /\ UNCHANGED <<connected, up, down, fullUpdateRequested, lastFrame, frameEndReceived,
                       waitingForFullUpdate, loading, pendingPatches, frameErrors, fullUpdating>>
        /\ ReadFullUpdateRequested \/ UNCHANGED marked
    <2>1. CASE UpdateCheckTimerTimeout \/ CheckUpdateAvailable \/ ClaimUpdate
               \/ PaintUpdatesToBuffer \/ FindUpdateOperations \/ UNCHANGED vars
      BY <2>1 DEF UpdateCheckTimerTimeout, CheckUpdateAvailable, ClaimUpdate, FindUpdateOperations,
                  PaintUpdatesToBuffer, vars, displayVars, canvasVars, makingVars
    <2>2. CASE BeginFrame \/ ReadFullUpdateRequested \/ EmitOperation
      BY <2>2 DEF BeginFrame, ReadFullUpdateRequested, EmitOperation, canvasVars
    <2>3. ASSUME NEW t \in Tile, NEW color \in Color, SceneChanged(t, color)
          PROVE  UNCHANGED <<connected, up, down, fullUpdateRequested, canvasVars, fullUpdating, marked>>
      BY <2>3 DEF SceneChanged, makingVars
    <2>4. ASSUME NEW image \in loading, TakePatch(image)
          PROVE  UNCHANGED <<connected, up, down, fullUpdateRequested, lastFrame, frameEndReceived,
                             waitingForFullUpdate, loading, pendingPatches, frameErrors,
                             fullUpdating, marked>>
      BY <2>4 DEF TakePatch, makingVars
    <2> QED BY <2>1, <2>2, <2>3, <2>4 DEF canvasVars
  <1>2. ASSUME ~(BeginFrame \/ ReadFullUpdateRequested \/ EmitOperation)
        PROVE  UNCHANGED <<Idle, LastSent>>
    <2>1. /\ UNCHANGED <<clientReady, frame>>
          /\ \/ UNCHANGED <<taking, operations>>
             \/ {taking, taking'} \subseteq {"no", "checked", "claimed", "painted", "found"}
      BY <1>2 DEF UpdateCheckTimerTimeout, CheckUpdateAvailable, ClaimUpdate, FindUpdateOperations,
                  PaintUpdatesToBuffer, SceneChanged, TakePatch, vars, displayVars, makingVars
    <2> QED BY <2>1, IdleUnchanged
  <1>4. UNCHANGED <<Idle, LastSent>>
    BY <1>2, MakingStep
  <1>5. (ReadyIsComing' <=> ReadyIsComing) /\ (FullUpdateIsComing' <=> FullUpdateIsComing)
    BY <1>1 DEF ReadyIsComing, FullUpdateIsComing
  <1>6. ProtocolOK'
    BY <1>1, <1>4, ProtocolUnchanged
  <1>7. ReadFullUpdateRequested => (marked' => ~FullUpdateIsComing)
    <2> SUFFICES ASSUME ReadFullUpdateRequested, fullUpdateRequested, FullUpdateIsComing PROVE FALSE
      BY DEF ReadFullUpdateRequested
    <2>1. Idle
      BY DEF ReadFullUpdateRequested, FlowInv, TakingInOrder, Idle, Sending
    <2> QED BY <2>1 DEF ProtocolOK, RequestsOK
  <1>8. UpdatingOK'
    BY <1>1, <1>5, <1>7 DEF UpdatingOK
  <1> QED BY <1>1, <1>4, <1>5, <1>6, <1>8

LEMMA ProtocolNext ==
  ASSUME TypeInv, MakingOK, FlowInv, OwedOK, ProtocolOK, UpdatingOK, [Next]_vars, ~Disconnect,
         overtaken' = {}
  PROVE  ProtocolOK' /\ UpdatingOK'
  <1>1. CASE \/ UpdateCheckTimerTimeout \/ CheckUpdateAvailable \/ ClaimUpdate
             \/ PaintUpdatesToBuffer \/ FindUpdateOperations \/ UNCHANGED vars
             \/ BeginFrame \/ ReadFullUpdateRequested \/ EmitOperation
             \/ \E t \in Tile, color \in Color : SceneChanged(t, color)
             \/ \E image \in loading : TakePatch(image)
    BY <1>1, ProtocolKept
  <1>2. CASE HandleMessage
    BY <1>2, ReadyProtocol, FullUpdateProtocol, ResizeProtocol
  <1>3. CASE FullUpdateReady
    BY <1>3, FullUpdateReadyProtocol
  <1>4. CASE FinishFullUpdate
    BY <1>4, FinishProtocol
  <1>5. CASE EndFrame
    BY <1>5, EmitProtocol
  <1>6. CASE ReceiveMessage
    BY <1>6, ReceiveProtocol, BrowserUpdating DEF BrowserNext
  <1>7. ASSUME NEW image \in loading, ImageLoaded(image) \/ ImageFailed(image)
        PROVE  ProtocolOK' /\ UpdatingOK'
    <2>1. frameErrors \in Nat /\ frameErrors + 1 \in Nat
      BY DEF TypeInv, TypeOK
    <2>2. UNCHANGED <<Idle, LastSent, connected, fullUpdateRequested, lastFrame, down>>
      BY <1>7, IdleUnchanged DEF ImageLoaded, ImageFailed, displayVars, makingVars
    <2>3. ProtocolOK'
      BY <1>7, <2>1, <2>2, ImageProtocol DEF ImageLoaded, ImageFailed
    <2> QED BY <1>7, <2>3, BrowserUpdating DEF BrowserNext
  <1>8. CASE ResizeElement
    <2>1. ProtocolOK' /\ (FullUpdateIsComing' <=> FullUpdateIsComing)
      BY <1>8, ResizeElementProtocol
    <2>2. /\ up' = Append(up, "resize") /\ UNCHANGED <<fullUpdating, fullUpdateRequested, marked>>
          /\ "resize" \in Request
      BY <1>8 DEF ResizeElement, displayVars, makingVars, Request
    <2>3. up # <<>> => Head(up') = Head(up)
      BY <2>2, UpAppend DEF TypeInv
    <2>4. fullUpdating # "no" => up # <<>>
      BY DEF TypeInv, HandlingOK
    <2>5. UpdatingOK'
      BY <2>1, <2>2, <2>3, <2>4 DEF UpdatingOK
    <2> QED BY <2>1, <2>5
  <1>9. ~Reattach /\ ~StartNewSession
    BY DEF ProtocolOK, RequestsOK, Reattach, StartNewSession
  <1> QED BY <1>1, <1>2, <1>3, <1>4, <1>5, <1>6, <1>7, <1>8, <1>9
          DEF Next, DisplayNext, TakePendingMessages, BrowserNext, EnvironmentNext, Reconnect

\* As long as nothing disturbs them, server and client agree on what is on its way.
LEMMA ProtocolInvariant ==
  Spec => []((disconnects = 0 => connected) /\ (Undisturbed => ProtocolOK /\ UpdatingOK))
  <1> DEFINE I == (disconnects = 0 => connected) /\ (Undisturbed => ProtocolOK /\ UpdatingOK)
  <1>1. Init => I
    BY ProtocolInit DEF Init
  <1>2. TypeInv /\ MakingOK /\ FlowInv /\ I /\ [Next]_vars => I'
    <2> SUFFICES ASSUME TypeInv, MakingOK, FlowInv, I, [Next]_vars PROVE I'
      OBVIOUS
    <2>1. (disconnects = 0 => connected)' /\ (Undisturbed' => Undisturbed /\ ~Disconnect)
      BY ConnectedNext
    <2>2. Undisturbed' => overtaken = {} /\ overtaken' = {}
      BY <2>1 DEF Undisturbed
    <2> QED BY <2>1, <2>2, Owed, ProtocolNext
  <1> QED BY <1>1, <1>2, TypeInvariant, FlowInvariant, PTL DEF Spec

\* As long as the connection lives and the display has declared no client ready for a
\* frame still being made, a frame is begun only when no image of the previous one is
\* loading or waits to be fetched, and nothing of it is on its way that the client will
\* not throw away: ready() is the client's word that it has everything
\* (takePendingMessages, _determineReadyState, requestFullUpdate).
THEOREM FramesAreSentOneByOne == Spec => OneFrameAtATime
  <1> DEFINE Begun == Undisturbed /\ frame' > frame =>
               /\ loading = {} /\ patches = {}
               /\ waitingForFullUpdate \/ \A i \in DOMAIN down : down[i].command = "fullUpdate"
  <1>1. TypeInv /\ FlowInv /\ (Undisturbed => ProtocolOK /\ UpdatingOK) /\ [Next]_vars => [Begun]_vars
    <2> SUFFICES ASSUME TypeInv, FlowInv, Undisturbed => ProtocolOK, Next, Undisturbed, frame' > frame
                 PROVE  /\ loading = {} /\ patches = {}
                        /\ waitingForFullUpdate \/ \A i \in DOMAIN down : down[i].command = "fullUpdate"
      OBVIOUS
    <2>1. frame \in Nat /\ ~(frame > frame) /\ ~(0 > frame)
      BY DEF TypeInv, TypeOK
    <2>2. CASE BeginFrame
      <3>1. Idle /\ patches = {}
        BY <2>2 DEF BeginFrame, FlowInv, TakingInOrder, Idle
      <3>2. loading = {}
        BY <3>1 DEF ProtocolOK, LoadingOK
      <3>3. ~waitingForFullUpdate => \A i \in DOMAIN down : down[i].command = "fullUpdate"
        BY <3>1 DEF ProtocolOK, DownOK, Live
      <3> QED BY <3>1, <3>2, <3>3
    <2>3. CASE ~BeginFrame
      <3>1. frame' = frame \/ frame' = 0
        BY <2>3 DEF Next, DisplayNext, TakePendingMessages, BrowserNext, EnvironmentNext, Reconnect,
                displayVars, UpdateCheckTimerTimeout, HandleMessage, FullUpdateReady,
                FinishFullUpdate, CheckUpdateAvailable, ClaimUpdate, PaintUpdatesToBuffer,
                FindUpdateOperations, ReadFullUpdateRequested, EmitOperation, EndFrame,
                ReceiveMessage, TakePatch, ImageLoaded, ImageFailed, SceneChanged, ResizeElement,
                Disconnect, Reattach, StartNewSession
      <3> QED BY <2>1, <3>1
    <2> QED BY <2>2, <2>3
  <1> QED BY <1>1, TypeInvariant, FlowInvariant, ProtocolInvariant, PTL DEF Spec, OneFrameAtATime

-----------------------------------------------------------------------------
(* The picture of the server and the one of the client *)

\* Everything will be painted again on a blank picture.
FromScratch == damage = Tile /\ \A t \in Tile : work[t] = Clear

\* A full update has blanked the buffers, and nothing has been painted since.
Restarted == FromScratch /\ \A t \in Tile : other[t] = White

\* What an operation draws.
Draws(m) == IF m.command = "mI" THEN front[m.from] ELSE m.color

\* What is on its way will make the canvas the picture of the server.
FrameOK ==
    /\ \A i \in DOMAIN down : Live(i) /\ Operation(down[i]) => Draws(down[i]) = work[down[i].tile]
    /\ \A image \in loading : image.color = work[image.tile]
    /\ \A t \in Tile :
        \/ canvas[t] = work[t]
        \/ \E i \in DOMAIN down : Live(i) /\ Operation(down[i]) /\ down[i].tile = t
        \/ \E image \in loading : image.tile = t

\* The client shows the picture of the server.
ShownOK == ~fullUpdateRequested /\ \A t \in Tile : canvas[t] = work[t] /\ front[t] = work[t]

\* The display is about to find what turns the canvas into its picture.
PaintedOK ==
    \/ Restarted
    \/ \A t \in Tile : other[t] = Clear /\ work[t] # Clear /\ t \in rects
    \/ /\ ~fullUpdateRequested
       /\ \A t \in Tile : /\ canvas[t] = other[t] /\ front[t] = other[t]
                          /\ t \notin rects => work[t] = other[t]

\* The operations turn the canvas into its picture, and the client will perform them.
MadeOK ==
    /\ \A i \in DOMAIN operations : Draws(operations[i]) = work[operations[i].tile]
    /\ \A t \in Tile : canvas[t] = work[t] \/ \E i \in DOMAIN operations : operations[i].tile = t
    /\ operations = <<>> => ShownOK
    /\ taking = "emitting" => (waitingForFullUpdate => marked)

PictureOK ==
    /\ fullUpdating # "no" => Restarted
    /\ ~FullUpdateIsComing =>
        /\ ~Idle => FromScratch \/ frameErrors > 0 \/ FrameOK
        /\ ReadyIsComing => FromScratch \/ \A t \in Tile : front[t] = canvas[t]
        /\ taking = "painted" => PaintedOK
        /\ taking \in {"found", "begun", "emitting"} => Restarted \/ MadeOK
        /\ Idle /\ taking \in {"no", "checked", "claimed"} => FromScratch \/ ShownOK

\* What the operations of a frame give, when the server knows what the client shows.
LEMMA OperationsDraw ==
  ASSUME TypeInv,
         \/ \A t \in Tile : other[t] = Clear /\ work[t] # Clear /\ t \in rects
         \/ \A t \in Tile : /\ canvas[t] = other[t] /\ front[t] = other[t]
                            /\ t \notin rects => work[t] = other[t]
  PROVE  /\ \A t \in Changed : Draws(UpdateOperation(t)) = work[t]
         /\ \A t \in Tile : t \in Changed \/ canvas[t] = work[t]
  <1>1. \A t \in Tile : t \in Changed \/ canvas[t] = work[t]
    BY DEF Changed
  <1>2. Changed \subseteq Tile
    BY DEF Changed, TypeInv, TypeOK
  <1>3. ASSUME NEW t \in Changed PROVE Draws(UpdateOperation(t)) = work[t]
    <2>1. CASE work[t] \in Solid \cup {Clear}
      BY <2>1 DEF UpdateOperation, Draws
    <2>2. CASE work[t] \notin Solid \cup {Clear} /\ Sources(t) = {}
      BY <2>2 DEF UpdateOperation, Draws
    <2>3. CASE work[t] \notin Solid \cup {Clear} /\ Sources(t) # {}
      <3> DEFINE s == CHOOSE x \in Sources(t) : TRUE
      <3>1. s \in Sources(t)
        BY <2>3
      <3>2. s \in Tile /\ other[s] = work[t]
        BY <3>1 DEF Sources
      <3>3. UpdateOperation(t).command = "mI" /\ UpdateOperation(t).from = s
        BY <2>3 DEF UpdateOperation
      <3>4. front[s] = other[s]
        BY <1>2, <2>3, <3>2
      <3> QED BY <3>2, <3>3, <3>4 DEF Draws
    <2> QED BY <2>1, <2>2, <2>3
  <1> QED BY <1>1, <1>3

\* Damage alone does not spoil it.
LEMMA PictureKept ==
  ASSUME PictureOK, damage \subseteq damage', damage' \subseteq Tile,
         UNCHANGED <<work, other, rects, operations, marked, fullUpdating, fullUpdateRequested,
                     canvas, front, frameErrors, waitingForFullUpdate, loading, down, Idle>>,
         \/ taking' = taking
         \/ {taking, taking'} \subseteq {"no", "checked", "claimed"}
         \/ taking = "found" /\ taking' = "begun",
         ReadyIsComing' <=> ReadyIsComing, FullUpdateIsComing' <=> FullUpdateIsComing
  PROVE  PictureOK'
  <1>1. (FromScratch => FromScratch') /\ (Restarted => Restarted')
    BY DEF FromScratch, Restarted
  <1>2. FrameOK' <=> FrameOK
    BY DEF FrameOK, Live, Operation, Draws
  <1>3. (PaintedOK => PaintedOK') /\ (ShownOK' <=> ShownOK)
    BY <1>1 DEF PaintedOK, ShownOK
  <1>4. MadeOK /\ (taking' = "emitting" => taking = "emitting") => MadeOK'
    BY <1>3 DEF MadeOK, Draws
  <1> QED BY <1>1, <1>2, <1>3, <1>4 DEF PictureOK

\* After a full update has blanked the buffers.
LEMMA PictureRestarted == ASSUME Restarted' PROVE PictureOK'
  BY DEF PictureOK, PaintedOK, Restarted

LEMMA HandlePicture ==
  ASSUME TypeInv, MakingOK, OwedOK, ProtocolOK, UpdatingOK, PictureOK, HandleMessage
  PROVE  PictureOK'
  <1>1. UNCHANGED <<canvasVars, makingVars, down>> /\ damage \subseteq Tile
    BY DEF HandleMessage, TypeInv, TypeOK
  <1>2. CASE Head(up) = "ready"
    <2>1. /\ Ready /\ ReadyIsComing /\ ~ReadyIsComing' /\ (FullUpdateIsComing' <=> FullUpdateIsComing)
          /\ taking = "no" /\ ~Idle
      BY <1>2, ReadyProtocol
    <2>2. down = <<>> /\ loading = {} /\ frameErrors = 0 /\ fullUpdating' = fullUpdating
      BY <1>2, <2>1 DEF ProtocolOK, RequestsOK, LoadingOK, HandleMessage, FullUpdateRequest
    <2>3. UNCHANGED <<damage, work, other, canvas, front>> /\ ~fullUpdateRequested' /\ Idle' /\ taking' = "no"
      BY <1>1, <2>1 DEF Ready, rendererVars, canvasVars, makingVars, Idle
    <2>4. (FromScratch' <=> FromScratch) /\ (Restarted' <=> Restarted)
      BY <2>3 DEF FromScratch, Restarted
    <2>5. FrameOK => \A t \in Tile : canvas[t] = work[t]
      BY <2>2 DEF FrameOK
    <2>6. ~FullUpdateIsComing => FromScratch \/ \A t \in Tile : canvas[t] = work[t] /\ front[t] = work[t]
      BY <2>1, <2>2, <2>5 DEF PictureOK
    <2>7. ~FullUpdateIsComing => FromScratch' \/ ShownOK'
      BY <2>3, <2>4, <2>6 DEF ShownOK
    <2> QED BY <2>1, <2>2, <2>3, <2>4, <2>7 DEF PictureOK
  <1>3. CASE Head(up) = "resize"
    <2>1. /\ Resize /\ (ReadyIsComing' <=> ReadyIsComing) /\ fullUpdating' = fullUpdating
          /\ FullUpdateIsComing' <=> FullUpdateIsComing
          /\ UNCHANGED Idle
      BY <1>3, ResizeProtocol DEF HandleMessage, FullUpdateRequest
    <2> QED BY <1>1, <2>1, PictureKept DEF Resize, canvasVars, makingVars
  <1>4. CASE Head(up) \notin {"ready", "resize"}
    <2>1. FullUpdate(TRUE)
      BY <1>4, FullUpdateProtocol
    <2>2. Restarted'
      BY <2>1 DEF FullUpdate, FromScratch, Restarted, Blank
    <2> QED BY <2>2, PictureRestarted
  <1> QED BY <1>2, <1>3, <1>4

LEMMA UpdatingPicture ==
  ASSUME PictureOK, FullUpdateReady \/ FinishFullUpdate
  PROVE  PictureOK'
  <1>1. UNCHANGED <<damage, work, other>> /\ fullUpdating # "no"
    BY DEF FullUpdateReady, Ready, FinishFullUpdate, rendererVars
  <1>2. Restarted'
    BY <1>1 DEF PictureOK, Restarted, FromScratch
  <1> QED BY <1>2, PictureRestarted

LEMMA PaintPicture ==
  ASSUME TypeInv, OwedOK, ProtocolOK, UpdatingOK, PictureOK, PaintUpdatesToBuffer, FlowInv,
         Clear \notin Color
  PROVE  PictureOK'
  <1>1. /\ Idle /\ taking = "claimed" /\ Idle'
        /\ (ReadyIsComing' <=> ReadyIsComing) /\ (FullUpdateIsComing' <=> FullUpdateIsComing)
    BY ProtocolKept DEF PaintUpdatesToBuffer, OwedOK
  <1>2. /\ other' = work /\ work' = Painted /\ rects' = {t \in Tile : Painted[t] # work[t]}
        /\ taking' = "painted" /\ fullUpdating' = "no"
        /\ UNCHANGED <<fullUpdateRequested, canvasVars>>
    BY DEF PaintUpdatesToBuffer
  <1>3. ~ReadyIsComing'
    BY <1>1 DEF ProtocolOK, RequestsOK
  <1>4. \A t \in Tile : Painted[t] = IF t \in damage THEN scene[t] ELSE work[t]
    BY DEF Painted
  <1>5. \A t \in Tile : t \notin rects' => work'[t] = other'[t]
    BY <1>2
  <1>6. CASE FromScratch
    <2>1. \A t \in Tile : Painted[t] = scene[t] /\ scene[t] \in Color /\ work[t] = Clear
      BY <1>4, <1>6 DEF FromScratch, TypeInv, TypeOK
    <2>2. \A t \in Tile : other'[t] = Clear /\ work'[t] # Clear /\ t \in rects'
      BY <1>2, <2>1
    <2>3. PaintedOK'
      BY <2>2 DEF PaintedOK
    <2> QED BY <1>1, <1>2, <1>3, <2>3 DEF PictureOK
  <1>7. CASE ShownOK
    <2>1. PaintedOK'
      BY <1>2, <1>5, <1>7 DEF PaintedOK, ShownOK, canvasVars
    <2> QED BY <1>1, <1>2, <1>3, <2>1 DEF PictureOK
  <1>8. CASE FullUpdateIsComing
    BY <1>1, <1>2, <1>8 DEF PictureOK
  <1> QED BY <1>1, <1>6, <1>7, <1>8 DEF PictureOK

LEMMA FindPicture ==
  ASSUME TypeInv, OwedOK, ProtocolOK, UpdatingOK, PictureOK, FindUpdateOperations, FlowInv
  PROVE  PictureOK'
  <1>1. /\ Idle /\ taking = "painted" /\ taking' = "found" /\ Idle'
        /\ (ReadyIsComing' <=> ReadyIsComing) /\ (FullUpdateIsComing' <=> FullUpdateIsComing)
        /\ ~ReadyIsComing
    BY ProtocolKept DEF FindUpdateOperations, OwedOK, ProtocolOK, RequestsOK
  <1>2. /\ operations' = SetToSeq({UpdateOperation(t) : t \in Changed})
        /\ UNCHANGED <<rendererVars, fullUpdateRequested, fullUpdating, canvasVars>>
    BY DEF FindUpdateOperations
  <1>3. Restarted => Restarted'
    BY <1>2 DEF Restarted, FromScratch, rendererVars
  <1>4. ASSUME ~Restarted, PaintedOK PROVE MadeOK'
    <2>1. \/ \A t \in Tile : other[t] = Clear /\ work[t] # Clear /\ t \in rects
          \/ /\ ~fullUpdateRequested
             /\ \A t \in Tile : /\ canvas[t] = other[t] /\ front[t] = other[t]
                                /\ t \notin rects => work[t] = other[t]
      BY <1>4 DEF PaintedOK
    <2>2. /\ \A t \in Changed : Draws(UpdateOperation(t)) = work[t]
          /\ \A t \in Tile : t \in Changed \/ canvas[t] = work[t]
      BY <2>1, OperationsDraw
    <2>3. /\ operations' \in Seq(Message)
          /\ \A i \in DOMAIN operations' : \E t \in Changed : operations'[i] = UpdateOperation(t)
          /\ \A t \in Changed : \E i \in DOMAIN operations' : operations'[i] = UpdateOperation(t)
      BY <1>2, OperationsFound
    <2>4. \A t \in Changed : UpdateOperation(t).tile = t /\ t \in Tile
      BY OperationsAreMessages DEF Changed, TypeInv, TypeOK
    <2>5. ASSUME NEW i \in DOMAIN operations'
          PROVE  Draws(operations[i])' = work'[operations'[i].tile]
      <3>1. PICK t \in Changed : operations'[i] = UpdateOperation(t)
        BY <2>3
      <3>2. operations'[i].tile = t /\ work'[t] = work[t] /\ front' = front
        BY <1>2, <2>4, <3>1 DEF rendererVars, canvasVars
      <3>3. Draws(operations[i])' = Draws(UpdateOperation(t))
        BY <3>1, <3>2 DEF Draws
      <3> QED BY <2>2, <3>2, <3>3
    <2>6. ASSUME NEW t \in Tile
          PROVE  canvas'[t] = work'[t] \/ \E i \in DOMAIN operations' : operations'[i].tile = t
      <3>1. CASE t \in Changed
        <4>1. PICK i \in DOMAIN operations' : operations'[i] = UpdateOperation(t)
          BY <2>3, <3>1
        <4> QED BY <2>4, <3>1, <4>1
      <3>2. CASE canvas[t] = work[t]
        BY <1>2, <3>2 DEF rendererVars, canvasVars
      <3> QED BY <2>2, <3>1, <3>2
    <2>7. ASSUME operations' = <<>> PROVE ShownOK'
      <3>1. Changed = {}
        BY <2>3, <2>7
      <3>2. \A t \in Tile : t \notin rects \/ work[t] = other[t]
        BY <3>1 DEF Changed
      <3>3. Tile # {}
        BY <1>4 DEF Restarted, FromScratch, TypeInv, TypeOK
      <3>4. ~fullUpdateRequested /\ \A t \in Tile : canvas[t] = work[t] /\ front[t] = work[t]
        BY <2>1, <3>2, <3>3
      <3> QED BY <1>2, <3>4 DEF ShownOK, rendererVars, canvasVars
    <2>8. \A i \in DOMAIN operations' : Draws(operations[i])' = work'[operations'[i].tile]
      BY <2>5
    <2> QED BY <1>1, <2>6, <2>7, <2>8 DEF MadeOK
  <1> QED BY <1>1, <1>2, <1>3, <1>4 DEF PictureOK

\* A frame begins, is marked, and is written.
LEMMA MakingPicture ==
  ASSUME TypeInv, MakingOK, OwedOK, ProtocolOK, UpdatingOK, PictureOK, FlowInv,
         ReadFullUpdateRequested \/ EmitOperation
  PROVE  PictureOK'
  <1>1. /\ Idle /\ Idle' /\ UNCHANGED fullUpdating
        /\ (ReadyIsComing' <=> ReadyIsComing) /\ (FullUpdateIsComing' <=> FullUpdateIsComing)
        /\ ~ReadyIsComing
        /\ taking \in {"begun", "emitting"} /\ taking' = "emitting"
    BY ProtocolKept DEF ReadFullUpdateRequested, EmitOperation, OwedOK, ProtocolOK, RequestsOK
  <1>2. UNCHANGED <<rendererVars, fullUpdateRequested, canvasVars>>
    BY DEF ReadFullUpdateRequested, EmitOperation
  <1>3. (Restarted => Restarted') /\ (ShownOK' <=> ShownOK)
    BY <1>2 DEF Restarted, FromScratch, ShownOK, rendererVars, canvasVars
  <1>4. ASSUME ReadFullUpdateRequested, ~FullUpdateIsComing, MadeOK PROVE MadeOK'
    <2>1. waitingForFullUpdate => marked'
      BY <1>4 DEF ReadFullUpdateRequested, ProtocolOK, RequestsOK
    <2>2. operations' = operations
      BY <1>4 DEF ReadFullUpdateRequested
    <2> QED BY <1>2, <1>3, <1>4, <2>1, <2>2 DEF MadeOK, Draws, rendererVars, canvasVars
  <1>5. ASSUME EmitOperation, MadeOK PROVE MadeOK'
    <2>1. /\ DOMAIN operations' = DOMAIN operations
          /\ operations # <<>> /\ operations' # <<>>
          /\ \A i \in DOMAIN operations :
              \/ operations'[i] = operations[i]
              \/ /\ operations[i].command = "dI" /\ operations'[i].command = "dI"
                 /\ operations'[i].tile = operations[i].tile
                 /\ operations'[i].color \in {operations[i].color, work[operations[i].tile]}
      BY <1>5, OperationWritten
    <2>2. UNCHANGED <<marked, taking>>
      BY <1>5 DEF EmitOperation
    <2>3. \A i \in DOMAIN operations' : Draws(operations[i])' = work'[operations'[i].tile]
      BY <1>2, <1>5, <2>1 DEF MadeOK, Draws, rendererVars, canvasVars
    <2>4. \A t \in Tile : canvas'[t] = work'[t] \/ \E i \in DOMAIN operations' : operations'[i].tile = t
      BY <1>2, <1>5, <2>1 DEF MadeOK, rendererVars, canvasVars
    <2> QED BY <1>1, <1>2, <1>5, <2>1, <2>2, <2>3, <2>4 DEF MadeOK, canvasVars
  <1> QED BY <1>1, <1>3, <1>4, <1>5 DEF PictureOK

LEMMA EndPicture ==
  ASSUME TypeInv, MakingOK, OwedOK, ProtocolOK, UpdatingOK, PictureOK, EndFrame
  PROVE  PictureOK'
  <1>1. /\ UNCHANGED <<damage, work, other, fullUpdateRequested, canvas, front, frameErrors,
                       loading, waitingForFullUpdate, up, fullUpdating, clientReady>>
        /\ taking = "emitting" /\ taking' = "no"
    BY DEF EndFrame, canvasVars, rendererVars
  <1>2. /\ \A i \in DOMAIN down : Live(i)' <=> Live(i)
        /\ \A i \in DOMAIN down : Live(i) => down[i].command = "fullUpdate"
        /\ (waitingForFullUpdate => marked) => \A k \in DOMAIN down' : k > Len(down) => Live(k)'
        /\ Idle /\ ~ReadyIsComing
    BY EmittedLive
  <1>3. /\ (ReadyIsComing' <=> ReadyIsComing) /\ (FullUpdateIsComing' <=> FullUpdateIsComing)
        /\ (FromScratch' <=> FromScratch) /\ (Restarted' <=> Restarted)
        /\ ShownOK' <=> ShownOK
    BY <1>1 DEF ReadyIsComing, FullUpdateIsComing, FromScratch, Restarted, ShownOK
  <1>4. CASE Restarted
    BY <1>3, <1>4, PictureRestarted
  <1>5. CASE FullUpdateIsComing
    BY <1>1, <1>3, <1>5 DEF PictureOK
  <1>6. CASE ~Restarted /\ ~FullUpdateIsComing
    <2>1. MadeOK /\ (waitingForFullUpdate => marked)
      BY <1>1, <1>6 DEF PictureOK, MadeOK
    <2>2. CASE operations = <<>>
      <3>1. ShownOK' /\ Idle'
        BY <1>1, <1>2, <1>3, <2>1, <2>2 DEF MadeOK, Idle, Sending
      <3> QED BY <1>1, <1>2, <1>3, <1>6, <3>1 DEF PictureOK
    <2>3. CASE operations # <<>>
      <3>1. ~Idle'
        BY <1>1, <2>3 DEF OwedOK, Idle, Sending
      <3>2. /\ Len(down) \in Nat /\ DOMAIN down = 1..Len(down) /\ DOMAIN down' = 1..Len(down')
            /\ \A i \in DOMAIN down : down'[i] = down[i]
            /\ \A o \in DOMAIN operations : \E k \in DOMAIN down' : k > Len(down) /\ down'[k] = operations[o]
        BY EmittedMessages
      <3>3. \A k \in DOMAIN down' : k \in DOMAIN down \/ k > Len(down)
        BY <3>2
      <3>4. \A k \in DOMAIN down' : k > Len(down) =>
              \/ down'[k] = [command |-> "fullUpdate", frame |-> frame]
              \/ \E o \in DOMAIN operations : down'[k] = operations[o]
              \/ down'[k] = [command |-> "end", frame |-> frame]
        BY EmittedMessages
      <3>5. \A o \in DOMAIN operations : Operation(operations[o])
        BY DEF MakingOK
      <3>6. ASSUME NEW i \in DOMAIN down', Live(i)', Operation(down'[i])
            PROVE  Draws(down[i])' = work'[down'[i].tile]
        <4>1. i > Len(down)
          BY <1>2, <3>2, <3>3, <3>6 DEF Operation
        <4>2. PICK o \in DOMAIN operations : down'[i] = operations[o]
          BY <3>4, <3>6, <4>1 DEF Operation
        <4>3. Draws(operations[o]) = work[operations[o].tile]
          BY <2>1 DEF MadeOK
        <4>4. Draws(down[i])' = Draws(operations[o])
          BY <1>1, <4>2 DEF Draws
        <4> QED BY <1>1, <4>2, <4>3, <4>4
      <3>7. \A image \in loading' : image.color = work'[image.tile]
        BY <1>1, <1>2 DEF ProtocolOK, LoadingOK
      <3>8. ASSUME NEW t \in Tile
            PROVE  \/ canvas'[t] = work'[t]
                   \/ \E i \in DOMAIN down' : Live(i)' /\ Operation(down'[i]) /\ down'[i].tile = t
        <4>1. ASSUME NEW o \in DOMAIN operations, operations[o].tile = t
              PROVE  \E i \in DOMAIN down' : Live(i)' /\ Operation(down'[i]) /\ down'[i].tile = t
          <5>1. PICK k \in DOMAIN down' : k > Len(down) /\ down'[k] = operations[o]
            BY <3>2
          <5>2. Live(k)' /\ Operation(down'[k]) /\ down'[k].tile = t
            BY <1>2, <2>1, <3>5, <4>1, <5>1
          <5> QED BY <5>2
        <4> QED BY <1>1, <2>1, <4>1 DEF MadeOK
      <3>9. \A i \in DOMAIN down' : Live(i)' /\ Operation(down'[i]) => Draws(down[i])' = work'[down'[i].tile]
        BY <3>6
      <3>10. FrameOK'
        BY <3>7, <3>8, <3>9 DEF FrameOK, Operation, Draws
      <3> QED BY <1>1, <1>2, <1>3, <1>6, <3>1, <3>10 DEF PictureOK
    <2> QED BY <2>2, <2>3
  <1> QED BY <1>4, <1>5, <1>6

\* What a message draws is no longer on its way, but on the canvas or being loaded.
LEMMA FrameTail ==
  ASSUME TypeInv, FrameOK, down # <<>>, down' = Tail(down), UNCHANGED <<work, front>>,
         waitingForFullUpdate' = (waitingForFullUpdate /\ Head(down).command # "fullUpdate"),
         loading \subseteq loading',
         \A image \in loading' : image.color = work[image.tile],
         \A t \in Tile : canvas'[t] = canvas[t] \/ canvas'[t] = work[t],
         Live(1) /\ Operation(Head(down)) =>
           \/ canvas'[Head(down).tile] = work[Head(down).tile]
           \/ \E image \in loading' : image.tile = Head(down).tile
  PROVE  FrameOK'
  <1>1. /\ Head(down) = down[1] /\ 1 \in DOMAIN down
        /\ \A i \in DOMAIN down' : /\ i + 1 \in DOMAIN down /\ down'[i] = down[i + 1]
                                   /\ Live(i)' <=> Live(i + 1)
        /\ \A i \in DOMAIN down : i # 1 => /\ i - 1 \in DOMAIN down' /\ down'[i - 1] = down[i]
                                           /\ Live(i - 1)' <=> Live(i)
    BY LiveTail DEF TypeInv
  <1>2. ASSUME NEW i \in DOMAIN down', Live(i)', Operation(down'[i])
        PROVE  Draws(down[i])' = work'[down'[i].tile]
    <2>1. i + 1 \in DOMAIN down /\ down'[i] = down[i + 1] /\ Live(i + 1) /\ Operation(down[i + 1])
      BY <1>1, <1>2
    <2>2. Draws(down[i + 1]) = work[down[i + 1].tile]
      BY <2>1 DEF FrameOK
    <2> QED BY <2>1, <2>2 DEF Draws
  <1>3. ASSUME NEW t \in Tile
        PROVE  \/ canvas'[t] = work'[t]
               \/ \E i \in DOMAIN down' : Live(i)' /\ Operation(down'[i]) /\ down'[i].tile = t
               \/ \E image \in loading' : image.tile = t
    <2>1. CASE canvas[t] = work[t]
      BY <2>1
    <2>2. CASE \E image \in loading : image.tile = t
      BY <2>2
    <2>3. ASSUME NEW i \in DOMAIN down, Live(i), Operation(down[i]), down[i].tile = t
          PROVE  \/ canvas'[t] = work'[t]
                 \/ \E j \in DOMAIN down' : Live(j)' /\ Operation(down'[j]) /\ down'[j].tile = t
                 \/ \E image \in loading' : image.tile = t
      <3>1. CASE i = 1
        BY <1>1, <2>3, <3>1
      <3>2. CASE i # 1
        <4>1. i - 1 \in DOMAIN down' /\ down'[i - 1] = down[i] /\ Live(i - 1)'
          BY <1>1, <2>3, <3>2
        <4>2. Operation(down'[i - 1]) /\ down'[i - 1].tile = t
          BY <2>3, <4>1
        <4> QED BY <4>1, <4>2
      <3> QED BY <3>1, <3>2
    <2> QED BY <2>1, <2>2, <2>3 DEF FrameOK
  <1>4. \A i \in DOMAIN down' : Live(i)' /\ Operation(down'[i]) => Draws(down[i])' = work'[down'[i].tile]
    BY <1>2
  <1>5. \A image \in loading' : image.color = work'[image.tile]
    OBVIOUS
  <1> QED BY <1>3, <1>4, <1>5 DEF FrameOK, Operation, Draws

\* A step of the browser that does not end a frame.
LEMMA PictureReceived ==
  ASSUME PictureOK, OwedOK, UNCHANGED <<rendererVars, displayVars, up>>,
         Idle => UNCHANGED <<canvas, front>>, ~ReadyIsComing, frameErrors' >= frameErrors,
         frameErrors \in Nat, frameErrors' \in Nat,
         waitingForFullUpdate' => waitingForFullUpdate,
         ~Idle /\ ~FromScratch /\ FrameOK /\ frameErrors' = 0 => FrameOK'
  PROVE  PictureOK'
  <1>1. /\ (ReadyIsComing' <=> ReadyIsComing) /\ (FullUpdateIsComing' <=> FullUpdateIsComing)
        /\ (FromScratch' <=> FromScratch) /\ (Restarted' <=> Restarted)
    BY DEF ReadyIsComing, FullUpdateIsComing, FromScratch, Restarted, rendererVars
  <1>2. UNCHANGED <<Idle, taking, rects, operations, marked, fullUpdateRequested, fullUpdating,
                    work, other>>
    BY IdleUnchanged DEF displayVars, makingVars, rendererVars
  <1>3. Idle => (PaintedOK' <=> PaintedOK) /\ (ShownOK' <=> ShownOK)
    BY <1>1, <1>2 DEF PaintedOK, ShownOK
  <1>4. Idle /\ MadeOK => MadeOK'
    BY <1>2, <1>3 DEF MadeOK, Draws
  <1>5. taking # "no" => Idle
    BY DEF OwedOK
  <1>6. frameErrors > 0 => frameErrors' > 0
    OBVIOUS
  <1>7. frameErrors' > 0 \/ frameErrors' = 0
    OBVIOUS
  <1>8. ~FullUpdateIsComing /\ ~Idle => FromScratch' \/ frameErrors' > 0 \/ FrameOK'
    BY <1>1, <1>6, <1>7 DEF PictureOK
  <1>9. ~FullUpdateIsComing => /\ taking = "painted" => PaintedOK'
                               /\ taking \in {"found", "begun", "emitting"} => Restarted' \/ MadeOK'
                               /\ Idle /\ taking \in {"no", "checked", "claimed"} => FromScratch' \/ ShownOK'
    BY <1>1, <1>3, <1>4, <1>5 DEF PictureOK
  <1> QED BY <1>1, <1>2, <1>8, <1>9 DEF PictureOK

\* A step that may end it: the picture is shown when nothing has failed.
LEMMA PictureDetermined ==
  ASSUME TypeInv, OwedOK, ProtocolOK, PictureOK, UNCHANGED <<rendererVars, displayVars>>,
         NEW ended \in BOOLEAN, NEW count \in Int, NEW errors \in Nat, NEW picture,
         DetermineReadyState(ended, count, errors, picture),
         ~Idle, ~ReadyIsComing, ~waitingForFullUpdate, errors >= frameErrors,
         ended /\ count = 0 => down' = <<>> /\ loading' = {},
         ~FromScratch /\ FrameOK /\ errors = 0 =>
            IF ended /\ count = 0 THEN \A t \in Tile : picture[t] = work[t]
            ELSE front' = front /\ ~waitingForFullUpdate' => FrameOK'
  PROVE  PictureOK'
  <1> DEFINE complete == ended /\ count = 0
  <1>1. connected /\ ~FullUpdateIsComing
    BY DEF ProtocolOK, RequestsOK
  <1>2. /\ canvas' = picture /\ frameErrors' = IF complete THEN 0 ELSE errors
        /\ front' = IF complete /\ errors = 0 THEN picture ELSE front
        /\ waitingForFullUpdate' = (complete /\ errors > 0)
    BY <1>1 DEF DetermineReadyState
  <1>3. (FromScratch' <=> FromScratch) /\ (Restarted' <=> Restarted)
    BY DEF FromScratch, Restarted, rendererVars
  <1>4. ~Idle' /\ frameErrors \in Nat /\ taking' = "no" /\ fullUpdating' = fullUpdating
    BY IdleUnchanged DEF displayVars, makingVars, TypeInv, TypeOK, OwedOK
  <1>5. errors > 0 \/ errors = 0
    OBVIOUS
  <1>6. FromScratch \/ frameErrors > 0 \/ FrameOK
    BY <1>1 DEF PictureOK
  <1>7. CASE complete
    <2> DEFINE failed == errors > 0
    <2>1. up' = up \o <<"ready">> \o (IF failed THEN <<"forcedFullUpdate">> ELSE <<>>)
      BY <1>1, <1>7 DEF DetermineReadyState, Ask
    <2>2. \A i \in DOMAIN up : up[i] = "resize"
      BY <1>1 DEF ProtocolOK, RequestsOK, ReadyIsComing, FullUpdateIsComing
    <2>3. failed \in BOOLEAN
      OBVIOUS
    <2> HIDE DEF failed
    <2>4. FullUpdateIsComing' <=> failed
      BY <2>1, <2>2, <2>3, AnswerRequests
    <2>5. SUFFICES ASSUME errors = 0 PROVE PictureOK'
      BY <1>3, <1>4, <1>5, <2>4 DEF failed, PictureOK
    <2>6. front' = canvas'
      BY <1>2, <1>7, <2>5
    <2>7. ASSUME ~FromScratch PROVE FrameOK'
      <3>1. frameErrors = 0
        BY <1>4, <2>5
      <3>2. \A t \in Tile : canvas'[t] = work'[t]
        BY <1>2, <1>4, <1>6, <1>7, <2>5, <2>7, <3>1 DEF rendererVars
      <3>3. DOMAIN down' = {} /\ loading' = {}
        BY <1>7
      <3> QED BY <3>2, <3>3 DEF FrameOK
    <2> QED BY <1>3, <1>4, <2>6, <2>7 DEF PictureOK
  <1>8. CASE ~complete
    <2>1. up' = up /\ ~waitingForFullUpdate' /\ front' = front /\ frameErrors' = errors
      BY <1>2, <1>8 DEF DetermineReadyState
    <2>2. ~ReadyIsComing' /\ ~FullUpdateIsComing'
      BY <1>1, <2>1 DEF ReadyIsComing, FullUpdateIsComing
    <2>3. errors = 0 => frameErrors = 0
      BY <1>4
    <2>4. FromScratch' \/ frameErrors' > 0 \/ FrameOK'
      BY <1>3, <1>4, <1>5, <1>6, <1>8, <2>1, <2>3
    <2> QED BY <1>3, <1>4, <2>2, <2>4 DEF PictureOK
  <1> QED BY <1>7, <1>8

LEMMA ReceivePicture ==
  ASSUME TypeInv, OwedOK, ProtocolOK, PictureOK, ReceiveMessage
  PROVE  PictureOK'
  <1> DEFINE m == Head(down)
  <1>1. /\ down # <<>> /\ down' = Tail(down)
        /\ UNCHANGED <<rendererVars, displayVars>>
    BY DEF ReceiveMessage
  <1>2. /\ ~ReadyIsComing /\ m \in Message /\ m = down[1] /\ 1 \in DOMAIN down
        /\ ~waitingForFullUpdate /\ m.command # "fullUpdate" =>
             /\ Live(1) /\ ~Idle /\ m.frame = LastSent
             /\ \A i \in DOMAIN down : down[i].command # "fullUpdate"
        /\ ~waitingForFullUpdate /\ m.command = "end" => Tail(down) = <<>>
    BY <1>1, HeadMessage
  <1>3. ~(/\ ~waitingForFullUpdate /\ lastFrame # Head(down).frame
          /\ pendingPatches # 0 /\ Head(down).command # "fullUpdate")
    BY ReceiveProtocol
  <1>4. /\ m.command \in {"fullUpdate", "end", "fR", "mI", "dI"}
        /\ Operation(m) => m.tile \in Tile
    BY <1>2, MessageFields DEF Operation
  <1>5. /\ frameErrors \in Nat /\ frameErrors >= frameErrors /\ canvas \in Picture
        /\ waitingForFullUpdate \in BOOLEAN /\ work = work'
    BY <1>1 DEF TypeInv, TypeOK, rendererVars
  <1>6. Operation(m) /\ FrameOK /\ ~waitingForFullUpdate => Draws(m) = work[m.tile]
    BY <1>2, <1>4 DEF FrameOK, Operation
  <1>7. FrameOK => \A image \in loading : image.color = work[image.tile]
    BY DEF FrameOK
  <1>8. CASE waitingForFullUpdate /\ m.command # "fullUpdate"
    <2>1. UNCHANGED <<canvasVars, up>>
      BY <1>8 DEF ReceiveMessage
    <2>2. waitingForFullUpdate' = (waitingForFullUpdate /\ m.command # "fullUpdate")
      BY <1>5, <1>8, <2>1 DEF canvasVars
    <2>3. ~Live(1)
      BY <1>2, <1>8 DEF Live
    <2>4. FrameOK => FrameOK'
      BY <1>1, <1>5, <1>7, <2>1, <2>2, <2>3, FrameTail DEF canvasVars
    <2> QED BY <1>1, <1>2, <1>5, <2>1, <2>4, PictureReceived DEF canvasVars
  <1>9. CASE ~waitingForFullUpdate \/ m.command = "fullUpdate"
    <2>1. Perform(m, frameEndReceived /\ ~(lastFrame # m.frame))
      BY <1>3, <1>9 DEF ReceiveMessage
    <2>2. CASE m.command = "fullUpdate"
      <3>1. UNCHANGED <<canvas, front, frameErrors, loading, up>> /\ waitingForFullUpdate' = FALSE
        BY <2>1, <2>2 DEF Perform
      <3>2. waitingForFullUpdate' = (waitingForFullUpdate /\ m.command # "fullUpdate")
        BY <2>2, <3>1
      <3>3. ~Operation(m)
        BY <2>2 DEF Operation
      <3>4. FrameOK => FrameOK'
        BY <1>1, <1>5, <1>7, <3>1, <3>2, <3>3, FrameTail
      <3> QED BY <1>1, <1>2, <1>5, <3>1, <3>4, PictureReceived
    <2>3. CASE m.command \in {"fR", "mI"}
      <3>1. /\ UNCHANGED <<front, frameErrors, loading, up, waitingForFullUpdate>>
            /\ canvas' = [canvas EXCEPT ![m.tile] = Draws(m)]
        BY <2>1, <2>3 DEF Perform, Draws
      <3>2. waitingForFullUpdate' = (waitingForFullUpdate /\ m.command # "fullUpdate")
        BY <1>5, <1>9, <2>3, <3>1
      <3>3. ~waitingForFullUpdate /\ Operation(m)
        BY <1>9, <2>3 DEF Operation
      <3>4. /\ canvas'[m.tile] = Draws(m)
            /\ \A t \in Tile : canvas'[t] = canvas[t] \/ t = m.tile
        BY <1>4, <1>5, <3>1, <3>3 DEF Picture
      <3>5. FrameOK => FrameOK'
        BY <1>1, <1>5, <1>6, <1>7, <3>1, <3>2, <3>3, <3>4, FrameTail
      <3> QED BY <1>1, <1>2, <1>5, <2>3, <3>1, <3>3, <3>5, PictureReceived
    <2>4. CASE m.command = "dI"
      <3> DEFINE image == [session |-> session, frame |-> m.frame, tile |-> m.tile, color |-> m.color]
      <3>1. /\ UNCHANGED <<canvas, front, frameErrors, up, waitingForFullUpdate>>
            /\ loading' = loading \cup {image}
        BY <2>1, <2>4 DEF Perform
      <3>2. image.tile = m.tile /\ image.color = m.color
        OBVIOUS
      <3>3. waitingForFullUpdate' = (waitingForFullUpdate /\ m.command # "fullUpdate")
        BY <1>5, <1>9, <2>4, <3>1
      <3>4. ~waitingForFullUpdate /\ Operation(m) /\ Draws(m) = m.color
        BY <1>9, <2>4 DEF Operation, Draws
      <3> HIDE DEF image
      <3>5. image \in loading' /\ \A i \in loading' : i \in loading \/ i = image
        BY <3>1
      <3>6. FrameOK => FrameOK'
        BY <1>1, <1>5, <1>6, <1>7, <3>1, <3>2, <3>3, <3>4, <3>5, FrameTail
      <3> QED BY <1>1, <1>2, <1>5, <2>4, <3>1, <3>4, <3>6, PictureReceived
    <2>5. CASE m.command = "end"
      <3>1. /\ DetermineReadyState(TRUE, pendingPatches, frameErrors, canvas)
            /\ UNCHANGED loading
        BY <2>1, <2>5 DEF Perform
      <3>2. ~waitingForFullUpdate /\ ~Idle /\ down' = <<>> /\ ~Operation(m)
        BY <1>1, <1>2, <1>9, <2>5 DEF Operation
      <3>3. /\ pendingPatches \in Int /\ TRUE \in BOOLEAN
            /\ pendingPatches = 0 => loading' = {}
        BY <3>1, FS_EmptySet DEF ProtocolOK, LoadingOK, TypeInv, TypeOK
      <3>4. \A i \in DOMAIN down : i = 1
        <4>1. down \in Seq(Message)
          BY DEF TypeInv, TypeOK
        <4>2. Len(down) = 1
          BY <1>1, <3>2, <4>1, OnlyEmptyTail
        <4> QED BY <4>2, DownDomain DEF TypeInv
      <3>5. FrameOK /\ pendingPatches = 0 => \A t \in Tile : canvas[t] = work[t]
        BY <1>2, <3>1, <3>2, <3>3, <3>4 DEF FrameOK
      <3>6. /\ canvas' = canvas /\ waitingForFullUpdate \in BOOLEAN
            /\ ~waitingForFullUpdate' => waitingForFullUpdate' = FALSE
        BY <1>5, <3>1 DEF DetermineReadyState
      <3>7. FrameOK /\ front' = front /\ ~waitingForFullUpdate' => FrameOK'
        BY <1>1, <1>2, <1>5, <1>7, <2>5, <3>1, <3>2, <3>6, FrameTail
      <3> QED BY <1>1, <1>2, <1>5, <3>1, <3>2, <3>3, <3>5, <3>7, PictureDetermined
    <2> QED BY <1>4, <2>2, <2>3, <2>4, <2>5
  <1> QED BY <1>8, <1>9

LEMMA ImagePicture ==
  ASSUME TypeInv, OwedOK, ProtocolOK, PictureOK, NEW image \in loading, ImageLoaded(image) \/ ImageFailed(image)
  PROVE  PictureOK'
  <1>1. /\ ~waitingForFullUpdate /\ ~Idle /\ ~ReadyIsComing
        /\ \A i \in DOMAIN down : down[i].command # "fullUpdate"
        /\ frameEndReceived => down = <<>>
    BY WhileLoading
  <1>2. /\ frameEndReceived \in BOOLEAN /\ pendingPatches - 1 \in Int /\ canvas \in Picture
        /\ frameErrors \in Nat /\ frameErrors + 1 \in Nat /\ image.tile \in Tile
    BY DEF TypeInv, TypeOK, Image
  <1>3. /\ loading' = loading \ {image} /\ UNCHANGED <<rendererVars, displayVars, down>>
    BY DEF ImageLoaded, ImageFailed
  <1>4. pendingPatches - 1 = 0 => loading' = {}
    <2>1. IsFiniteSet(loading') /\ pendingPatches - 1 = Cardinality(loading')
      BY <1>3, FS_RemoveElement DEF ProtocolOK, LoadingOK
    <2> QED BY <2>1, FS_EmptySet
  <1>5. frameEndReceived /\ pendingPatches - 1 = 0 => down' = <<>> /\ loading' = {}
    BY <1>1, <1>3, <1>4
  <1>6. CASE ImageFailed(image)
    <2>1. DetermineReadyState(frameEndReceived, pendingPatches - 1, frameErrors + 1, canvas)
      BY <1>6 DEF ImageFailed
    <2>2. frameErrors + 1 >= frameErrors /\ frameErrors + 1 # 0
      BY <1>2
    <2> QED BY <1>1, <1>2, <1>3, <1>5, <2>1, <2>2, PictureDetermined
  <1>7. CASE ImageLoaded(image)
    <2> DEFINE picture == [canvas EXCEPT ![image.tile] = image.color]
    <2>1. /\ DetermineReadyState(frameEndReceived, pendingPatches - 1, frameErrors, picture)
          /\ canvas' = picture
      BY <1>7 DEF ImageLoaded, DetermineReadyState
    <2>2. /\ picture[image.tile] = image.color
          /\ \A t \in Tile : t = image.tile \/ picture[t] = canvas[t]
      BY <1>2 DEF Picture
    <2> HIDE DEF picture
    <2>3. ASSUME FrameOK
          PROVE  /\ \A t \in Tile : \/ picture[t] = work[t]
                                    \/ \E i \in DOMAIN down : Operation(down[i]) /\ down[i].tile = t
                                    \/ \E i2 \in loading' : i2.tile = t
      <3>1. image.color = work[image.tile]
        BY <2>3 DEF FrameOK
      <3> QED BY <1>3, <2>2, <2>3, <3>1 DEF FrameOK
    <2>4. FrameOK /\ frameEndReceived /\ pendingPatches - 1 = 0 => \A t \in Tile : picture[t] = work[t]
      BY <1>3, <1>5, <2>3
    <2>5. FrameOK /\ front' = front /\ ~waitingForFullUpdate' => FrameOK'
      <3> SUFFICES ASSUME FrameOK, front' = front, ~waitingForFullUpdate' PROVE FrameOK'
        OBVIOUS
      <3>1. \A i \in DOMAIN down : Live(i) /\ Live(i)'
        BY <1>1 DEF Live
      <3>2. work' = work
        BY <1>3 DEF rendererVars
      <3>3. \A i \in DOMAIN down' : Live(i)' /\ Operation(down'[i]) => Draws(down[i])' = work'[down'[i].tile]
        BY <1>3, <3>1, <3>2 DEF FrameOK, Draws
      <3>4. \A i2 \in loading' : i2.color = work'[i2.tile]
        BY <1>3, <3>2 DEF FrameOK
      <3>5. \A t \in Tile : \/ canvas'[t] = work'[t]
                            \/ \E i \in DOMAIN down' : Live(i)' /\ Operation(down'[i]) /\ down'[i].tile = t
                            \/ \E i2 \in loading' : i2.tile = t
        BY <1>3, <2>1, <2>3, <3>1, <3>2
      <3> QED BY <3>3, <3>4, <3>5 DEF FrameOK, Operation, Draws
    <2>6. frameErrors >= frameErrors
      BY <1>2
    <2> QED BY <1>1, <1>2, <1>3, <1>5, <2>1, <2>4, <2>5, <2>6, PictureDetermined
  <1> QED BY <1>6, <1>7

LEMMA PictureInit == ASSUME Init PROVE PictureOK
  <1>1. FromScratch
    BY DEF Init, FromScratch, Blank
  <1>2. clientReady /\ taking = "no" /\ fullUpdating = "no" /\ ~ReadyIsComing
    BY DEF Init, ReadyIsComing
  <1> QED BY <1>1, <1>2 DEF PictureOK, Idle

LEMMA PictureNext ==
  ASSUME TypeInv, MakingOK, FlowInv, OwedOK, ProtocolOK, UpdatingOK, PictureOK, [Next]_vars,
         ~Disconnect, Clear \notin Color
  PROVE  PictureOK'
  <1>1. damage \subseteq Tile /\ damage \subseteq damage
    BY DEF TypeInv, TypeOK
  <1>2. CASE \/ UpdateCheckTimerTimeout \/ CheckUpdateAvailable \/ ClaimUpdate \/ BeginFrame
             \/ UNCHANGED vars
    <2>1. /\ (ReadyIsComing' <=> ReadyIsComing) /\ (FullUpdateIsComing' <=> FullUpdateIsComing)
          /\ UNCHANGED <<Idle, fullUpdating>>
      BY <1>2, ProtocolKept
    <2>2. /\ UNCHANGED <<rendererVars, rects, operations, marked, fullUpdateRequested, canvasVars, down>>
          /\ \/ taking' = taking
             \/ {taking, taking'} \subseteq {"no", "checked", "claimed"}
             \/ taking = "found" /\ taking' = "begun"
      BY <1>2 DEF UpdateCheckTimerTimeout, CheckUpdateAvailable, ClaimUpdate, BeginFrame, vars,
                  displayVars, makingVars
    <2> QED BY <1>1, <2>1, <2>2, PictureKept DEF rendererVars, canvasVars
  <1>3. ASSUME NEW t \in Tile, NEW color \in Color, SceneChanged(t, color) PROVE PictureOK'
    <2>1. /\ (ReadyIsComing' <=> ReadyIsComing) /\ (FullUpdateIsComing' <=> FullUpdateIsComing)
          /\ UNCHANGED <<Idle, fullUpdating>>
      BY <1>3, ProtocolKept
    <2>2. damage \subseteq damage' /\ damage' \subseteq Tile
      BY <1>1, <1>3 DEF SceneChanged
    <2> QED BY <1>3, <2>1, <2>2, PictureKept DEF SceneChanged, canvasVars, makingVars
  <1>4. ASSUME NEW image \in loading, TakePatch(image) PROVE PictureOK'
    <2>1. /\ (ReadyIsComing' <=> ReadyIsComing) /\ (FullUpdateIsComing' <=> FullUpdateIsComing)
          /\ UNCHANGED <<Idle, fullUpdating>>
      BY <1>4, ProtocolKept
    <2> QED BY <1>1, <1>4, <2>1, PictureKept DEF TakePatch, rendererVars, makingVars
  <1>5. CASE HandleMessage
    BY <1>5, HandlePicture
  <1>6. CASE FullUpdateReady \/ FinishFullUpdate
    BY <1>6, UpdatingPicture
  <1>7. CASE PaintUpdatesToBuffer
    BY <1>7, PaintPicture
  <1>8. CASE FindUpdateOperations
    BY <1>8, FindPicture
  <1>9. CASE ReadFullUpdateRequested \/ EmitOperation
    BY <1>9, MakingPicture
  <1>10. CASE EndFrame
    BY <1>10, EndPicture
  <1>11. CASE ReceiveMessage
    BY <1>11, ReceivePicture
  <1>12. CASE \E image \in loading : ImageLoaded(image) \/ ImageFailed(image)
    BY <1>12, ImagePicture
  <1>13. CASE ResizeElement
    <2>1. (ReadyIsComing' <=> ReadyIsComing) /\ (FullUpdateIsComing' <=> FullUpdateIsComing)
      BY <1>13, ResizeElementProtocol
    <2>2. UNCHANGED <<rendererVars, displayVars, canvasVars, down>>
      BY <1>13 DEF ResizeElement
    <2>3. UNCHANGED Idle
      BY <2>2, IdleUnchanged DEF displayVars, makingVars
    <2> QED BY <1>1, <2>1, <2>2, <2>3, PictureKept DEF rendererVars, displayVars, makingVars, canvasVars
  <1>14. ~Reattach /\ ~StartNewSession
    BY DEF ProtocolOK, RequestsOK, Reattach, StartNewSession
  <1> QED BY <1>2, <1>3, <1>4, <1>5, <1>6, <1>7, <1>8, <1>9, <1>10, <1>11, <1>12, <1>13, <1>14
          DEF Next, DisplayNext, TakePendingMessages, BrowserNext, EnvironmentNext, Reconnect

\* A frame that is complete turns the canvas into the picture of the server.
LEMMA FrameRebuilds ==
  ASSUME TypeInv, ProtocolOK, UpdatingOK, PictureOK, Made,
         waitingForFullUpdate => marked, other # Blank(White)
  PROVE  \A t \in Tile : Result(t) = work[t]
  <1>1. ~FullUpdateIsComing
    BY DEF ProtocolOK, RequestsOK, UpdatingOK
  <1>2. ~(\A t \in Tile : other[t] = White)
    <2> SUFFICES ASSUME \A t \in Tile : other[t] = White PROVE other = Blank(White)
      OBVIOUS
    <2>1. other = [t \in Tile |-> other[t]]
      BY DEF TypeInv, TypeOK, Picture
    <2> QED BY <2>1 DEF Blank
  <1>3. MadeOK
    BY <1>1, <1>2 DEF Made, PictureOK, Restarted
  <1> SUFFICES ASSUME NEW t \in Tile PROVE Result(t) = work[t]
    OBVIOUS
  <1>4. CASE \E i \in DOMAIN operations : operations[i].tile = t
    <2> DEFINE i == CHOOSE i \in DOMAIN operations : operations[i].tile = t
    <2>1. i \in DOMAIN operations /\ operations[i].tile = t
      BY <1>4
    <2>2. Result(t) = Draws(operations[i])
      BY <1>4 DEF Result, Draws
    <2> QED BY <1>3, <2>1, <2>2 DEF MadeOK
  <1>5. CASE ~\E i \in DOMAIN operations : operations[i].tile = t
    BY <1>3, <1>5 DEF MadeOK, Result
  <1> QED BY <1>4, <1>5

\* The server knows what the client has: as long as the connection lives and the display
\* has declared no client ready for a frame still being made, and unless the frame is one
\* the client throws away or one during which a full update blanked the buffers, the
\* messages of a complete frame give the picture of the server.  The scene draws every
\* tile opaque: a blank buffer is transparent, and what is transparent in the scene as
\* well is not sent after a full update (findDifferences, processRect, requestFullUpdate,
\* takePendingMessages, _messageCallback, _determineReadyState).
THEOREM FramesRebuildThePicture ==
  ASSUME Clear \notin Color PROVE Spec => []FrameRebuildsPicture
  <1>1. Init => (Undisturbed => PictureOK)
    BY PictureInit
  <1>2. /\ TypeInv /\ MakingOK /\ FlowInv /\ (disconnects = 0 => connected)
        /\ (Undisturbed => ProtocolOK /\ UpdatingOK) /\ (Undisturbed => PictureOK)
        /\ [Next]_vars
        => (Undisturbed => PictureOK)'
    <2> SUFFICES ASSUME TypeInv, MakingOK, FlowInv, disconnects = 0 => connected,
                        Undisturbed => ProtocolOK /\ UpdatingOK, Undisturbed => PictureOK,
                        [Next]_vars, Undisturbed'
                 PROVE  PictureOK'
      OBVIOUS
    <2>1. Undisturbed /\ ~Disconnect
      BY ConnectedNext
    <2>2. OwedOK
      BY <2>1, Owed DEF Undisturbed
    <2> QED BY <2>1, <2>2, PictureNext
  <1>3. TypeInv /\ (Undisturbed => ProtocolOK /\ UpdatingOK) /\ (Undisturbed => PictureOK)
        => FrameRebuildsPicture
    BY FrameRebuilds DEF FrameRebuildsPicture, TypeInv
  <1> QED BY <1>1, <1>2, <1>3, TypeInvariant, FlowInvariant, ProtocolInvariant, PTL DEF Spec
=============================================================================
