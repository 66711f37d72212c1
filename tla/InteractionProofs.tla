-------------------------- MODULE InteractionProofs --------------------------
(***************************************************************************)
(* Proofs about what the user of a display does and what he gets to see:    *)
(* the mouse and the keyboard (Input), for any buttons, keys and bounds, and*)
(* the adapters of items of Qt Quick (Adapters), for any displays, adapters *)
(* and bounds.                                                              *)
(***************************************************************************)
EXTENDS Input, Adapters, TLAPS

-----------------------------------------------------------------------------
(* Input: the inductive invariant *)

Down(b) == Msg("mouseDown", b)
Up(b) == Msg("mouseUp", b)

\* The messages that tell about a button: an adapter takes any press or release
\* for one of the button it knows.
Tells(m, b) == m.type \in {"mouseDown", "mouseUp"}

Quiet(i, j, b) == \A k \in DOMAIN wire : i < k /\ k < j => ~Tells(wire[k], b)

\* A stuck button that is pressed again: the scene is about to be told so.
PressedAgain(b) == wire # <<>> /\ Head(wire) = Down(b)

\* What is on its way about a button: presses and releases take turns,
\* beginning with what the scene takes for pressed, and ending with what the
\* user presses.
TurnsOf(b) ==
    /\ \A j \in DOMAIN wire :
          Tells(wire[j], b) =>
              /\ Quiet(0, j, b) /\ ~PressedAgain(b) => (b \in held <=> wire[j] = Up(b))
              /\ \A i \in DOMAIN wire : i < j /\ Tells(wire[i], b) /\ Quiet(i, j, b)
                    => (wire[i] = Down(b) <=> wire[j] = Up(b))
              /\ Quiet(j, Len(wire) + 1, b) => (wire[j] = Down(b) <=> b \in pressed)
    /\ Quiet(0, Len(wire) + 1, b) => (b \in held <=> b \in pressed)

TakeTurns == \A b \in Button \ disturbed : TurnsOf(b)

\* The adapter knows the one undisturbed button that is held.
AdapterKnows ==
    \A b \in held \ disturbed : PressedAgain(b) \/ (buttonDown /\ lastButton = b /\ inPress)

\* With two buttons pressed it is in doubt about both.
OneAtATime == \A b, c \in pressed : b # c => b \in disturbed

\* The browser sends a double click behind its last release; the adapter
\* forgets about buttons then.
DoubleFollowsRelease ==
    /\ \A j \in DOMAIN wire : wire[j].type = "mouseDblClick" /\ j > 1
          => wire[j - 1] = Up(wire[j].arg)
    /\ wire # <<>> /\ Head(wire).type = "mouseDblClick" => held \subseteq disturbed

\* Moves.
ButtonOfMoves == buttonDown => lastButton \in held

\* A graphics scene is told of a released button while none is down.
StaleIsReleased == stale # NoButton => adapter = "graphics" /\ ~buttonDown

ClickIsSingle == recent => single

\* The interpreter remembers the last key that went down.
KeyIsRemembered ==
    lastDown # {} => /\ lastDown = {keyDownKeyCode}
                     /\ keyDownKeyCodeHandled <=> keyDownKeyCode \in Special

CharactersArrive == Same(arrived, due) /\ (~caps => arrived = due)

MovesAreSound ==
    /\ drag.button # NoButton => drag.button \in drag.held
    /\ adapter = "quick" /\ drag.button = NoButton => drag.held \subseteq drag.doubt

InputInv ==
    /\ TypeOK
    /\ TakeTurns /\ AdapterKnows /\ OneAtATime /\ DoubleFollowsRelease
    /\ ButtonOfMoves /\ MovesAreSound /\ StaleIsReleased
    /\ ClickIsSingle /\ sound
    /\ KeyIsRemembered /\ CharactersArrive

-----------------------------------------------------------------------------
(* Input: types *)

\* A message has the argument of its type.
LEMMA ArgTypes ==
    ASSUME TypeOK, wire # <<>>
    PROVE  /\ Head(wire) \in Message /\ wire[1] = Head(wire) /\ Tail(wire) \in Seq(Message)
           /\ Head(wire).type \in {"mouseDown", "mouseUp", "mouseDblClick"} => Arg \in Button
           /\ Head(wire).type \in {"keyDown", "keyUp"} => Arg \in Key
           /\ Head(wire).type = "keyPress" => Arg \in Stroke
           /\ Head(wire).type = "text" => Arg \in Char
<1>1. wire \in Seq(Message)
  BY DEF TypeOK
<1>2. Head(wire) \in Message /\ wire[1] = Head(wire) /\ Tail(wire) \in Seq(Message)
  BY <1>1
<1> QED BY <1>2 DEF Message, Arg

\* What is sent comes behind what is on its way.
LEMMA Sends ==
    ASSUME TypeOK, NEW msgs \in Seq(Message), Act(msgs)
    PROVE  /\ wire' \in Seq(Message) /\ acts' \in 0..MaxActs
           /\ wire' = wire \o msgs
           /\ Len(wire') = Len(wire) + Len(msgs)
           /\ \A k \in DOMAIN wire : wire'[k] = wire[k]
           /\ \A k \in DOMAIN msgs : wire'[Len(wire) + k] = msgs[k]
<1> USE DEF Act
<1>1. wire \in Seq(Message) /\ acts \in 0..MaxActs /\ MaxActs \in Nat
  BY InputAssumption DEF TypeOK
<1>2. wire' \in Seq(Message) /\ acts' \in 0..MaxActs
  BY <1>1
<1> QED BY <1>1, <1>2

\* Every message of the page is well typed.
LEMMA Messages ==
    /\ \A b \in Button : /\ Down(b) \in Message /\ Up(b) \in Message
                         /\ Msg("mouseDblClick", b) \in Message
    /\ \A t \in {"mouseMove", "mouseEnter", "mouseExit", "mouseWheel", "contextMenu"} :
          Msg(t, NoButton) \in Message
    /\ \A k \in Key : Msg("keyDown", k) \in Message /\ Msg("keyUp", k) \in Message
    /\ \A s \in Stroke : Msg("keyPress", s) \in Message /\ s.letter \in Key
    /\ \A c \in Char : Msg("text", c) \in Message
BY DEF Message, Msg, Down, Up, Key, Stroke

\* A step that sends something sends one of these.
SendsOther ==
    \/ MoveInside \/ Cross \/ TurnWheelOrAsk \/ Type
Silent(msgs) ==
    \A k \in DOMAIN msgs : msgs[k].type \notin {"mouseDown", "mouseUp", "mouseDblClick"}

LEMMA OtherMessages ==
    ASSUME TypeOK, SendsOther
    PROVE  /\ \E msgs \in Seq(Message) : Act(msgs) /\ Silent(msgs)
           /\ UNCHANGED <<pressed, clicked, keyVars, adapter, mouseVars, active, disturbed>>
           /\ inside' \in BOOLEAN
<1> USE DEF Silent, Msg
<1>1. CASE MoveInside
  <2>1. <<Msg("mouseMove", NoButton)>> \in Seq(Message)
    BY Messages
  <2>2. Silent(<<Msg("mouseMove", NoButton)>>)
    OBVIOUS
  <2>3. Act(<<Msg("mouseMove", NoButton)>>)
    BY <1>1 DEF MoveInside
  <2> QED BY <1>1, <2>1, <2>2, <2>3 DEF MoveInside, TypeOK
<1>2. CASE Cross
  <2>1. \A t \in {"mouseEnter", "mouseExit"} : <<Msg(t, NoButton)>> \in Seq(Message)
    BY Messages
  <2>2. \A t \in {"mouseEnter", "mouseExit"} : Silent(<<Msg(t, NoButton)>>)
    OBVIOUS
  <2>3. PICK t \in {"mouseEnter", "mouseExit"} : Act(<<Msg(t, NoButton)>>)
    BY <1>2 DEF Cross
  <2>4. inside' \in BOOLEAN
    BY <1>2 DEF Cross
  <2> QED BY <1>2, <2>1, <2>2, <2>3, <2>4 DEF Cross
<1>3. CASE TurnWheelOrAsk
  <2>1. \A t \in {"mouseWheel", "contextMenu"} : <<Msg(t, NoButton)>> \in Seq(Message)
    BY Messages
  <2>2. \A t \in {"mouseWheel", "contextMenu"} : Silent(<<Msg(t, NoButton)>>)
    OBVIOUS
  <2>3. PICK t \in {"mouseWheel", "contextMenu"} : Act(<<Msg(t, NoButton)>>)
    BY <1>3 DEF TurnWheelOrAsk
  <2> QED BY <1>3, <2>1, <2>2, <2>3 DEF TurnWheelOrAsk, TypeOK
<1>4. CASE Type
  <2>1. \E msgs \in Seq(Message) : Act(msgs) /\ Silent(msgs)
    <3>1. ASSUME NEW s \in Stroke, Act(<<Msg("keyDown", s.letter), Msg("keyPress", s)>>)
          PROVE  \E msgs \in Seq(Message) : Act(msgs) /\ Silent(msgs)
      <4>1. <<Msg("keyDown", s.letter), Msg("keyPress", s)>> \in Seq(Message)
        <5>1. Msg("keyDown", s.letter) \in Message /\ Msg("keyPress", s) \in Message
          BY Messages
        <5> HIDE DEF Msg
        <5> QED BY <5>1
      <4>2. Silent(<<Msg("keyDown", s.letter), Msg("keyPress", s)>>)
        OBVIOUS
      <4> QED BY <3>1, <4>1, <4>2
    <3>2. ASSUME NEW k \in Key, NEW t \in {"keyDown", "keyUp"}, Act(<<Msg(t, k)>>)
          PROVE  \E msgs \in Seq(Message) : Act(msgs) /\ Silent(msgs)
      <4>1. <<Msg(t, k)>> \in Seq(Message)
        <5>1. Msg(t, k) \in Message
          BY Messages
        <5> HIDE DEF Msg
        <5> QED BY <5>1
      <4>2. Silent(<<Msg(t, k)>>)
        OBVIOUS
      <4> QED BY <3>2, <4>1, <4>2
    <3>3. ASSUME NEW c \in Char, Act(<<Msg("text", c)>>)
          PROVE  \E msgs \in Seq(Message) : Act(msgs) /\ Silent(msgs)
      <4>1. <<Msg("text", c)>> \in Seq(Message)
        <5>1. Msg("text", c) \in Message
          BY Messages
        <5> HIDE DEF Msg
        <5> QED BY <5>1
      <4>2. Silent(<<Msg("text", c)>>)
        OBVIOUS
      <4> QED BY <3>3, <4>1, <4>2
    <3> QED BY <1>4, <3>1, <3>2, <3>3 DEF Type, Key
  <2> QED BY <1>4, <2>1 DEF Type, TypeOK
<1> QED BY <1>1, <1>2, <1>3, <1>4 DEF SendsOther

\* The messages about buttons.
LEMMA ButtonMessages ==
    ASSUME NEW b \in Button
    PROVE  /\ <<Down(b)>> \in Seq(Message) /\ <<Up(b)>> \in Seq(Message)
           /\ <<Up(b), Msg("mouseDblClick", b)>> \in Seq(Message)
           /\ <<>> \in Seq(Message)
<1>1. Down(b) \in Message /\ Up(b) \in Message /\ Msg("mouseDblClick", b) \in Message
  BY Messages
<1> QED BY <1>1

LEMMA InputTypeStep == TypeOK /\ [Next]_vars => TypeOK'
<1> SUFFICES ASSUME TypeOK, [Next]_vars PROVE TypeOK'
  OBVIOUS
<1>1. ASSUME NEW b \in Button, PressInside(b) PROVE TypeOK'
  <2>1. wire' \in Seq(Message) /\ acts' \in 0..MaxActs
    BY <1>1, ButtonMessages, Sends DEF PressInside, Down
  <2>2. pressed' \in SUBSET Button /\ disturbed' \in SUBSET Button
    BY <1>1 DEF PressInside, Disturb, TypeOK
  <2> QED BY <1>1, <2>1, <2>2 DEF PressInside, TypeOK, keyVars, mouseVars
<1>2. ASSUME NEW b \in Button, ReleaseInside(b) PROVE TypeOK'
  <2>1. wire' \in Seq(Message) /\ acts' \in 0..MaxActs
    BY <1>2, ButtonMessages, Sends DEF ReleaseInside, Up
  <2> QED BY <1>2, <2>1 DEF ReleaseInside, TypeOK, Buttons, keyVars, mouseVars
<1>3. ASSUME NEW b \in Button, ChangeOutside(b) PROVE TypeOK'
  <2>1. wire' \in Seq(Message) /\ acts' \in 0..MaxActs
    BY <1>3, ButtonMessages, Sends DEF ChangeOutside
  <2>2. pressed' \in SUBSET Button /\ disturbed' \in SUBSET Button
    BY <1>3 DEF ChangeOutside, Disturb, TypeOK
  <2> QED BY <1>3, <2>1, <2>2 DEF ChangeOutside, TypeOK, keyVars, mouseVars
<1>4. CASE SendsOther
  <2>1. wire' \in Seq(Message) /\ acts' \in 0..MaxActs
    BY <1>4, OtherMessages, Sends
  <2> QED BY <1>4, <2>1, OtherMessages DEF TypeOK, keyVars, mouseVars
<1>5. CASE Lose
  <2>1. wire' \in Seq(Message) /\ disturbed' \in SUBSET Button
    BY <1>5, ArgTypes DEF Lose, TypeOK
  <2> QED BY <1>5, <2>1 DEF Lose, TypeOK, pageVars, keyVars, mouseVars
<1>0. /\ MoveButton \in Buttons
      /\ Move \in [button : Buttons, held : SUBSET Button, doubt : SUBSET Button]
      /\ HeldAfterMove \in SUBSET Button /\ StaleAfterMove \in Buttons
  BY DEF MoveButton, Move, HeldAfterMove, StaleAfterMove, TypeOK, Buttons
<1>6. CASE HandleMove
  BY <1>0, <1>6, ArgTypes DEF HandleMove, Receive, TypeOK, pageVars, keyVars
<1>7. CASE HandlePress
  BY <1>0, <1>7, ArgTypes DEF HandlePress, Receive, TypeOK, Buttons, pageVars, keyVars
<1>8. CASE HandleRelease
  <2>1. /\ wire' \in Seq(Message) /\ recent' \in BOOLEAN /\ single' \in BOOLEAN /\ sound' \in BOOLEAN
        /\ double' \in Buttons /\ held' \in SUBSET Button /\ stale' \in Buttons
    BY <1>8, ArgTypes DEF HandleRelease, TimeAfterRelease, Receive, TypeOK, Buttons
  <2> QED BY <1>8, <2>1 DEF HandleRelease, TypeOK, pageVars, keyVars
<1>9. CASE HandleDblClick
  <2>1. wire' \in Seq(Message) /\ Arg \in Button
    BY <1>9, ArgTypes DEF HandleDblClick, Receive
  <2>2. buttonDown' \in BOOLEAN /\ double' \in Buttons /\ stale' \in Buttons
    BY <1>9, <2>1 DEF HandleDblClick, TypeOK, Buttons
  <2> QED BY <1>9, <2>1, <2>2 DEF HandleDblClick, TypeOK, pageVars, keyVars
<1>10. CASE IntervalPasses
  BY <1>10 DEF IntervalPasses, TypeOK, pageVars, keyVars
<1>11. CASE HandleOther
  <2>1. wire' \in Seq(Message)
    BY <1>11, ArgTypes DEF HandleOther, Receive
  <2>2. active' \in BOOLEAN
    BY <1>11 DEF HandleOther, TypeOK
  <2> QED BY <1>11, <2>1, <2>2 DEF HandleOther, TypeOK, pageVars, keyVars, mouseVars
<1>12. CASE HandleKeyDown
  BY <1>12, ArgTypes DEF HandleKeyDown, Handled, Receive, TypeOK, pageVars, mouseVars
<1>13. CASE HandleKeyPress
  <2>1. wire' \in Seq(Message) /\ Arg \in Stroke
    BY <1>13, ArgTypes DEF HandleKeyPress, Receive
  <2>2. caps' \in BOOLEAN
    BY <1>13, <2>1 DEF HandleKeyPress, Stroke
  <2> QED BY <1>13, <2>1, <2>2 DEF HandleKeyPress, TypeOK, pageVars, mouseVars
<1>14. CASE HandleKeyUp
  BY <1>14, ArgTypes DEF HandleKeyUp, Receive, TypeOK, pageVars, keyVars, mouseVars
<1>15. CASE HandleText
  BY <1>15, ArgTypes DEF HandleText, Receive, TypeOK, pageVars, mouseVars
<1>16. CASE UNCHANGED vars
  BY <1>16 DEF vars, TypeOK, pageVars, keyVars, mouseVars
<1> QED
  BY <1>1, <1>2, <1>3, <1>4, <1>5, <1>6, <1>7, <1>8, <1>9, <1>10, <1>11, <1>12, <1>13, <1>14, <1>15,
     <1>16 DEF Next, SendsOther

-----------------------------------------------------------------------------
(* Input: keys and moves *)

\* Steps that have to do with neither, each in a word.
KeysAlone == UNCHANGED keyVars
LEMMA OtherStepsLeaveKeys ==
    ASSUME Next PROVE HandleKeyDown \/ HandleKeyPress \/ HandleText \/ KeysAlone
BY DEF Next, KeysAlone, PressInside, ReleaseInside, ChangeOutside, MoveInside, Cross,
       TurnWheelOrAsk,
       Type, Lose, HandleMove, HandlePress, HandleRelease, HandleDblClick, IntervalPasses,
       HandleOther, HandleKeyUp

\* The key of a character is the one of the last keyDown, unless that was lost.
LEMMA KeysStep ==
    ASSUME TypeOK, KeyIsRemembered, CharactersArrive, [Next]_vars
    PROVE  KeyIsRemembered' /\ CharactersArrive'
<1>s. \A s : Same(s, s)
  BY DEF Same
<1>1. CASE HandleKeyDown
  BY <1>1 DEF HandleKeyDown, Handled, KeyIsRemembered, CharactersArrive, Same
<1>2. CASE HandleKeyPress
  <2>1. Arg \in Stroke /\ Arg.letter \in Letter
    BY <1>2, ArgTypes DEF HandleKeyPress, Receive, Stroke
  <2>2. ASSUME Arg.letter \in lastDown PROVE CharactersArrive'
    <3>1. keyDownKeyCode = Arg.letter /\ ~keyDownKeyCodeHandled
      BY <2>1, <2>2, InputAssumption DEF KeyIsRemembered
    <3>2. /\ arrived' = Typed(Arg.letter, TextForKey(Arg)) /\ due' = Typed(Arg.letter, CharOf(Arg))
          /\ caps' = (Arg.upper # Arg.shift)
      BY <1>2, <2>2, <3>1 DEF HandleKeyPress
    <3>3. TextForKey(Arg).letter = CharOf(Arg).letter /\ (~caps' => TextForKey(Arg) = CharOf(Arg))
      BY <2>1, <3>2 DEF TextForKey, CharOf, Stroke
    <3>4. Same(arrived', due')
      BY <3>2, <3>3 DEF Same, Typed
    <3>5. ~caps' => arrived' = due'
      BY <3>2, <3>3
    <3> QED BY <3>4, <3>5 DEF CharactersArrive, Same
  <2>3. ASSUME Arg.letter \notin lastDown PROVE CharactersArrive'
    <3>1. due' = arrived' /\ caps' = FALSE
      BY <1>2, <2>3 DEF HandleKeyPress
    <3>2. Same(arrived', due')
      BY <1>s, <3>1
    <3> QED BY <3>1, <3>2 DEF CharactersArrive, Same
  <2>4. KeyIsRemembered'
    BY <1>2 DEF HandleKeyPress, KeyIsRemembered
  <2> QED BY <2>2, <2>3, <2>4
<1>3. CASE HandleText
  <2>1. due' = arrived' /\ KeyIsRemembered'
    BY <1>3 DEF HandleText, KeyIsRemembered
  <2>2. Same(arrived', due')
    BY <1>s, <2>1
  <2> QED BY <2>1, <2>2 DEF CharactersArrive, Same
<1>4. CASE KeysAlone
  BY <1>4 DEF KeysAlone, keyVars, KeyIsRemembered, CharactersArrive, Same
<1>5. CASE UNCHANGED vars
  BY <1>5 DEF vars, keyVars, KeyIsRemembered, CharactersArrive, Same
<1> QED BY <1>1, <1>2, <1>3, <1>4, <1>5, OtherStepsLeaveKeys

MouseAlone == UNCHANGED mouseVars
LEMMA OtherStepsLeaveMouse ==
    ASSUME Next
    PROVE  \/ HandleMove \/ HandlePress \/ HandleRelease \/ HandleDblClick \/ IntervalPasses
           \/ MouseAlone
BY DEF Next, MouseAlone, PressInside, ReleaseInside, ChangeOutside, MoveInside, Cross,
       TurnWheelOrAsk,
       Type, Lose, HandleOther, HandleKeyDown, HandleKeyPress, HandleKeyUp, HandleText

LEMMA AdapterIsFixed == ASSUME [Next]_vars PROVE adapter' = adapter
BY DEF Next, vars, PressInside, ReleaseInside, ChangeOutside, MoveInside, Cross, TurnWheelOrAsk,
       Type, Lose, HandleOther, HandleKeyDown, HandleKeyPress, HandleKeyUp, HandleText,
       HandleMove, HandlePress, HandleRelease, HandleDblClick, IntervalPasses

\* A move has a button the scene holds, and an adapter of Qt Quick that knows
\* of none holds none but in doubt.
LEMMA MoveIsSound ==
    ASSUME TypeOK, ButtonOfMoves, AdapterKnows
    PROVE  /\ Move.button # NoButton => Move.button \in Move.held
           /\ adapter = "quick" /\ Move.button = NoButton /\ (\A b \in Button : ~PressedAgain(b))
                 => Move.held \subseteq Move.doubt
<1>1. buttonDown => lastButton \in held /\ lastButton # NoButton
  BY InputAssumption DEF ButtonOfMoves, TypeOK
<1>2. held \subseteq Button
  BY DEF TypeOK
<1>3. Move.button = MoveButton /\ Move.held = held /\ Move.doubt = disturbed
  BY DEF Move
<1>4. ASSUME MoveButton # NoButton PROVE MoveButton \in held
  BY <1>1, <1>4 DEF MoveButton
<1>5. ASSUME adapter = "quick", MoveButton = NoButton, \A b \in Button : ~PressedAgain(b)
      PROVE  held \subseteq disturbed
  BY <1>1, <1>2, <1>5 DEF MoveButton, AdapterKnows
<1> QED BY <1>3, <1>4, <1>5

LEMMA MovesStep ==
    ASSUME TypeOK, ButtonOfMoves, MovesAreSound, StaleIsReleased, AdapterKnows, [Next]_vars
    PROVE  ButtonOfMoves' /\ MovesAreSound' /\ StaleIsReleased'
<1>0. adapter' = adapter
  BY AdapterIsFixed
<1> USE DEF ButtonOfMoves, MovesAreSound, StaleIsReleased, HeldAfterMove, StaleAfterMove
<1>1. CASE HandleMove
  <2>1. \A b \in Button : ~PressedAgain(b)
    BY <1>1 DEF HandleMove, Receive, PressedAgain, Down, Msg
  <2>2. MovesAreSound'
    BY <1>0, <1>1, <2>1, MoveIsSound DEF HandleMove
  <2> QED BY <1>1, <2>2 DEF HandleMove, MoveButton
<1>2. CASE HandlePress
  <2>1. adapter \in {"quick", "graphics"}
    BY DEF TypeOK
  <2> QED BY <1>0, <1>2, <2>1, MoveIsSound DEF HandlePress
<1>3. CASE HandleRelease
  BY <1>0, <1>3 DEF HandleRelease
<1>4. CASE HandleDblClick
  BY <1>0, <1>4 DEF HandleDblClick
<1>5. CASE IntervalPasses
  BY <1>0, <1>5 DEF IntervalPasses
<1>6. CASE MouseAlone
  BY <1>0, <1>6 DEF MouseAlone, mouseVars
<1>7. CASE UNCHANGED vars
  BY <1>7 DEF vars, mouseVars
<1> QED BY <1>1, <1>2, <1>3, <1>4, <1>5, <1>6, <1>7, OtherStepsLeaveMouse

-----------------------------------------------------------------------------
(* Input: what is on its way about a button *)

\* The first message is taken: the others move up.
LEMMA MovesUp ==
    ASSUME TypeOK, wire # <<>>, wire' = Tail(wire), adapter' = adapter, NEW b
    PROVE  /\ Len(wire) \in Nat \ {0} /\ Len(wire') = Len(wire) - 1
           /\ DOMAIN wire = 1..Len(wire) /\ DOMAIN wire' = 1..(Len(wire) - 1)
           /\ \A k \in DOMAIN wire' : k + 1 \in DOMAIN wire /\ wire'[k] = wire[k + 1]
           /\ \A k \in DOMAIN wire' : Tells(wire[k], b)' <=> Tells(wire[k + 1], b)
           /\ \A i, j \in Nat : Quiet(i, j, b)' <=> Quiet(i + 1, j + 1, b)
<1>1. wire \in Seq(Message)
  BY DEF TypeOK
<1>2. /\ Len(wire) \in Nat \ {0} /\ Len(wire') = Len(wire) - 1
      /\ DOMAIN wire = 1..Len(wire) /\ DOMAIN wire' = 1..(Len(wire) - 1)
      /\ \A k \in DOMAIN wire' : k + 1 \in DOMAIN wire /\ wire'[k] = wire[k + 1]
  BY <1>1
<1>3. \A k \in DOMAIN wire' : Tells(wire[k], b)' <=> Tells(wire[k + 1], b)
  BY <1>2 DEF Tells
<1>4. ASSUME NEW i \in Nat, NEW j \in Nat PROVE Quiet(i, j, b)' <=> Quiet(i + 1, j + 1, b)
  <2>1. ASSUME Quiet(i + 1, j + 1, b) PROVE Quiet(i, j, b)'
    BY <1>2, <1>3, <2>1 DEF Quiet
  <2>2. ASSUME Quiet(i, j, b)' PROVE Quiet(i + 1, j + 1, b)
    <3> SUFFICES ASSUME NEW k \in DOMAIN wire, i + 1 < k, k < j + 1 PROVE ~Tells(wire[k], b)
      BY DEF Quiet
    <3>1. k - 1 \in DOMAIN wire' /\ i < k - 1 /\ k - 1 < j /\ (k - 1) + 1 = k
      BY <1>2
    <3>2. ~Tells(wire[k - 1], b)'
      BY <2>2, <3>1 DEF Quiet
    <3> QED BY <1>3, <3>1, <3>2
  <2> QED BY <2>1, <2>2
<1> QED BY <1>2, <1>3, <1>4

\* A message that tells nothing about a button is taken, and neither the scene
\* nor the user does anything with it.
LEMMA NothingTold ==
    ASSUME TypeOK, wire # <<>>, wire' = Tail(wire), adapter' = adapter, NEW b \in Button,
           ~Tells(Head(wire), b), b \in held' <=> b \in held, pressed' = pressed, TurnsOf(b)
    PROVE  TurnsOf(b)'
<1> USE MovesUp
<1>1. wire[1] = Head(wire) /\ ~PressedAgain(b)
  BY ArgTypes DEF PressedAgain, Tells, Down, Msg
<1>2. \A j \in Nat : Quiet(0, j, b) <=> Quiet(1, j, b)
  BY <1>1 DEF Quiet
<1>3. \A j \in DOMAIN wire' : j \in Nat /\ j + 1 \in DOMAIN wire
  OBVIOUS
<1>4. ASSUME NEW j \in DOMAIN wire', Tells(wire[j], b)'
      PROVE  /\ (Quiet(0, j, b) /\ ~PressedAgain(b))' => (b \in held <=> wire[j] = Up(b))'
             /\ \A i \in DOMAIN wire' : i < j /\ Tells(wire[i], b)' /\ Quiet(i, j, b)'
                    => (wire[i] = Down(b) <=> wire[j] = Up(b))'
             /\ Quiet(j, Len(wire) + 1, b)' => (wire[j] = Down(b) <=> b \in pressed)'
  <2>1. Tells(wire[j + 1], b) /\ wire'[j] = wire[j + 1]
    BY <1>4
  <2>2. Quiet(0, j, b)' => (b \in held <=> wire[j + 1] = Up(b))
    BY <1>1, <1>2, <1>3, <2>1 DEF TurnsOf
  <2>3. ASSUME NEW i \in DOMAIN wire', i < j, Tells(wire[i], b)', Quiet(i, j, b)'
        PROVE  (wire[i] = Down(b) <=> wire[j] = Up(b))'
    <3>1. Tells(wire[i + 1], b) /\ Quiet(i + 1, j + 1, b) /\ i + 1 < j + 1
      BY <1>3, <2>3
    <3>2. wire[i + 1] = Down(b) <=> wire[j + 1] = Up(b)
      BY <1>3, <2>1, <3>1 DEF TurnsOf
    <3> QED BY <1>3, <2>1, <3>2 DEF Down, Up, Msg
  <2>4. Quiet(j, Len(wire) + 1, b)' => (wire[j + 1] = Down(b) <=> b \in pressed)
    <3>1. Quiet(j, Len(wire) + 1, b)' <=> Quiet(j + 1, Len(wire) + 1, b)
      BY <1>3
    <3> QED BY <1>3, <2>1, <3>1 DEF TurnsOf
  <2> QED BY <2>1, <2>2, <2>3, <2>4 DEF Down, Up, Msg
<1>5. Quiet(0, Len(wire) + 1, b)' => (b \in held <=> b \in pressed)'
  <2>1. Quiet(0, Len(wire) + 1, b)' <=> Quiet(1, Len(wire) + 1, b)
    OBVIOUS
  <2> QED BY <1>2, <2>1 DEF TurnsOf
<1> QED BY <1>4, <1>5 DEF TurnsOf

\* A message that tells about a button is taken, and the scene holds the button
\* if that was pressed.
LEMMA Told ==
    ASSUME TypeOK, wire # <<>>, wire' = Tail(wire), adapter' = adapter, NEW b \in Button,
           Tells(Head(wire), b), b \in held' <=> Head(wire) = Down(b), pressed' = pressed,
           TurnsOf(b)
    PROVE  TurnsOf(b)'
<1> USE MovesUp
<1>1. wire[1] = Head(wire) /\ 1 \in DOMAIN wire
  BY ArgTypes
<1>2. \A j \in DOMAIN wire' : j \in Nat /\ j + 1 \in DOMAIN wire /\ 1 < j + 1
  OBVIOUS
<1>3. ASSUME NEW j \in DOMAIN wire', Tells(wire[j], b)'
      PROVE  /\ (Quiet(0, j, b) /\ ~PressedAgain(b))' => (b \in held <=> wire[j] = Up(b))'
             /\ \A i \in DOMAIN wire' : i < j /\ Tells(wire[i], b)' /\ Quiet(i, j, b)'
                    => (wire[i] = Down(b) <=> wire[j] = Up(b))'
             /\ Quiet(j, Len(wire) + 1, b)' => (wire[j] = Down(b) <=> b \in pressed)'
  <2>1. Tells(wire[j + 1], b) /\ wire'[j] = wire[j + 1]
    BY <1>3
  <2>2. Quiet(0, j, b)' => (b \in held' <=> wire[j + 1] = Up(b))
    <3>1. Quiet(0, j, b)' <=> Quiet(1, j + 1, b)
      BY <1>2
    <3>2. Quiet(1, j + 1, b) => (wire[1] = Down(b) <=> wire[j + 1] = Up(b))
      BY <1>1, <1>2, <2>1 DEF TurnsOf
    <3> QED BY <1>1, <3>1, <3>2
  <2>3. ASSUME NEW i \in DOMAIN wire', i < j, Tells(wire[i], b)', Quiet(i, j, b)'
        PROVE  (wire[i] = Down(b) <=> wire[j] = Up(b))'
    <3>1. Tells(wire[i + 1], b) /\ Quiet(i + 1, j + 1, b) /\ i + 1 < j + 1
      BY <1>2, <2>3
    <3>2. wire[i + 1] = Down(b) <=> wire[j + 1] = Up(b)
      BY <1>2, <2>1, <3>1 DEF TurnsOf
    <3> QED BY <1>2, <2>1, <3>2 DEF Down, Up, Msg
  <2>4. Quiet(j, Len(wire) + 1, b)' => (wire[j + 1] = Down(b) <=> b \in pressed)
    <3>1. Quiet(j, Len(wire) + 1, b)' <=> Quiet(j + 1, Len(wire) + 1, b)
      BY <1>2
    <3> QED BY <1>2, <2>1, <3>1 DEF TurnsOf
  <2> QED BY <2>1, <2>2, <2>3, <2>4 DEF Down, Up, Msg
<1>4. Quiet(0, Len(wire) + 1, b)' => (b \in held <=> b \in pressed)'
  <2>1. Quiet(0, Len(wire) + 1, b)' <=> Quiet(1, Len(wire) + 1, b)
    OBVIOUS
  <2>2. Quiet(1, Len(wire) + 1, b) => (wire[1] = Down(b) <=> b \in pressed)
    BY <1>1 DEF TurnsOf
  <2> QED BY <1>1, <2>1, <2>2
<1> QED BY <1>3, <1>4 DEF TurnsOf

\* Messages are sent: the others stay where they are.
LEMMA ComesBehind ==
    ASSUME TypeOK, NEW msgs \in Seq(Message), Act(msgs), adapter' = adapter, NEW b
    PROVE  /\ Len(wire) \in Nat /\ Len(msgs) \in Nat /\ Len(wire') = Len(wire) + Len(msgs)
           /\ DOMAIN wire = 1..Len(wire) /\ DOMAIN wire' = 1..(Len(wire) + Len(msgs))
           /\ DOMAIN msgs = 1..Len(msgs)
           /\ \A k \in DOMAIN wire : wire'[k] = wire[k] /\ (Tells(wire[k], b)' <=> Tells(wire[k], b))
           /\ \A k \in DOMAIN msgs : /\ wire'[Len(wire) + k] = msgs[k]
                                     /\ Tells(wire'[Len(wire) + k], b) <=> Tells(msgs[k], b)
           /\ \A i, j \in Nat : j <= Len(wire) + 1 => (Quiet(i, j, b)' <=> Quiet(i, j, b))
<1>1. wire \in Seq(Message)
  BY DEF TypeOK
<1>2. /\ Len(wire) \in Nat /\ Len(msgs) \in Nat /\ Len(wire') = Len(wire) + Len(msgs)
      /\ DOMAIN wire = 1..Len(wire) /\ DOMAIN wire' = 1..(Len(wire) + Len(msgs))
      /\ DOMAIN msgs = 1..Len(msgs)
      /\ \A k \in DOMAIN wire : wire'[k] = wire[k]
      /\ \A k \in DOMAIN msgs : wire'[Len(wire) + k] = msgs[k]
  BY <1>1, Sends
<1>3. /\ \A k \in DOMAIN wire : Tells(wire[k], b)' <=> Tells(wire[k], b)
      /\ \A k \in DOMAIN msgs : Tells(wire'[Len(wire) + k], b) <=> Tells(msgs[k], b)
  <2>1. ASSUME NEW k \in DOMAIN wire PROVE Tells(wire[k], b)' <=> Tells(wire[k], b)
    BY <1>2 DEF Tells
  <2>2. ASSUME NEW k \in DOMAIN msgs PROVE Tells(wire'[Len(wire) + k], b) <=> Tells(msgs[k], b)
    BY <1>2 DEF Tells
  <2> QED BY <2>1, <2>2 DEF Tells
<1>4. ASSUME NEW i \in Nat, NEW j \in Nat, j <= Len(wire) + 1
      PROVE  Quiet(i, j, b)' <=> Quiet(i, j, b)
  BY <1>2, <1>3, <1>4 DEF Quiet
<1> QED BY <1>2, <1>3, <1>4

\* What is sent tells nothing about a button.
LEMMA NothingSent ==
    ASSUME TypeOK, NEW msgs \in Seq(Message), Act(msgs), adapter' = adapter, NEW b \in Button,
           \A k \in DOMAIN msgs : ~Tells(msgs[k], b), held' = held,
           b \in pressed' <=> b \in pressed, TurnsOf(b)
    PROVE  TurnsOf(b)'
<1>f. /\ Len(wire) \in Nat /\ Len(msgs) \in Nat /\ Len(wire') = Len(wire) + Len(msgs)
      /\ DOMAIN wire = 1..Len(wire) /\ DOMAIN wire' = 1..(Len(wire) + Len(msgs))
      /\ DOMAIN msgs = 1..Len(msgs)
      /\ \A k \in DOMAIN wire : wire'[k] = wire[k] /\ (Tells(wire[k], b)' <=> Tells(wire[k], b))
      /\ \A k \in DOMAIN msgs : /\ wire'[Len(wire) + k] = msgs[k]
                                /\ Tells(wire'[Len(wire) + k], b) <=> Tells(msgs[k], b)
      /\ \A i, j \in Nat : j <= Len(wire) + 1 => (Quiet(i, j, b)' <=> Quiet(i, j, b))
  BY ComesBehind
<1> USE <1>f
<1>1. ASSUME NEW k \in DOMAIN wire', Tells(wire[k], b)' PROVE k \in DOMAIN wire
  <2>1. CASE k > Len(wire)
    <3>1. k - Len(wire) \in DOMAIN msgs /\ Len(wire) + (k - Len(wire)) = k
      BY <2>1
    <3>2. ~Tells(wire'[k], b)
      BY <3>1
    <3> QED BY <1>1, <3>2 DEF Tells
  <2> QED BY <2>1
<1>2. ASSUME NEW i \in Nat, Quiet(i, Len(wire) + 1, b)' PROVE Quiet(i, Len(wire) + 1, b)
  <2>1. \A k \in DOMAIN wire : i < k => ~Tells(wire[k], b)
    BY <1>2 DEF Quiet
  <2> QED BY <2>1 DEF Quiet
<1>3. PressedAgain(b) => PressedAgain(b)'
  <2> SUFFICES ASSUME PressedAgain(b) PROVE PressedAgain(b)'
    OBVIOUS
  <2>1. wire \in Seq(Message) /\ wire' \in Seq(Message) /\ wire # <<>>
    BY Sends DEF TypeOK, PressedAgain
  <2>2. Head(wire) = wire[1] /\ Head(wire') = wire'[1] /\ 1 \in DOMAIN wire /\ wire' # <<>>
    BY <2>1
  <2> QED BY <2>2 DEF PressedAgain, Down, Msg
<1>4. ASSUME NEW j \in DOMAIN wire', Tells(wire[j], b)'
      PROVE  /\ (Quiet(0, j, b) /\ ~PressedAgain(b))' => (b \in held <=> wire[j] = Up(b))'
             /\ \A i \in DOMAIN wire' : i < j /\ Tells(wire[i], b)' /\ Quiet(i, j, b)'
                    => (wire[i] = Down(b) <=> wire[j] = Up(b))'
             /\ Quiet(j, Len(wire) + 1, b)' => (wire[j] = Down(b) <=> b \in pressed)'
  <2>1. j \in DOMAIN wire /\ Tells(wire[j], b) /\ wire'[j] = wire[j] /\ j \in Nat
        /\ j <= Len(wire) + 1
    BY <1>1, <1>4
  <2>2. (Quiet(0, j, b) /\ ~PressedAgain(b))' => (b \in held <=> wire[j] = Up(b))
    BY <1>3, <2>1 DEF TurnsOf
  <2>3. ASSUME NEW i \in DOMAIN wire', i < j, Tells(wire[i], b)', Quiet(i, j, b)'
        PROVE  (wire[i] = Down(b) <=> wire[j] = Up(b))'
    <3>1. i \in DOMAIN wire /\ Tells(wire[i], b) /\ Quiet(i, j, b) /\ wire'[i] = wire[i]
      BY <1>1, <2>1, <2>3
    <3> QED BY <2>1, <2>3, <3>1 DEF TurnsOf, Down, Up, Msg
  <2>4. Quiet(j, Len(wire) + 1, b)' => (wire[j] = Down(b) <=> b \in pressed')
    BY <1>2, <2>1 DEF TurnsOf
  <2> QED BY <2>1, <2>2, <2>3, <2>4 DEF Down, Up, Msg
<1>5. Quiet(0, Len(wire) + 1, b)' => (b \in held <=> b \in pressed)'
  BY <1>2 DEF TurnsOf
<1> QED BY <1>4, <1>5 DEF TurnsOf

\* What is sent tells about a button: it is not pressed where the user pressed
\* it already, nor released where he did not, and the user goes on from it.
LEMMA Sent ==
    ASSUME TypeOK, NEW msgs \in Seq(Message), Act(msgs), adapter' = adapter, NEW b \in Button,
           1 \in DOMAIN msgs, Tells(msgs[1], b), \A k \in DOMAIN msgs : k > 1 => ~Tells(msgs[k], b),
           held' = held, b \in pressed <=> msgs[1] = Up(b), b \in pressed' <=> msgs[1] = Down(b),
           TurnsOf(b)
    PROVE  TurnsOf(b)'
<1>f. /\ Len(wire) \in Nat /\ Len(msgs) \in Nat /\ Len(wire') = Len(wire) + Len(msgs)
      /\ DOMAIN wire = 1..Len(wire) /\ DOMAIN wire' = 1..(Len(wire) + Len(msgs))
      /\ DOMAIN msgs = 1..Len(msgs)
      /\ \A k \in DOMAIN wire : wire'[k] = wire[k] /\ (Tells(wire[k], b)' <=> Tells(wire[k], b))
      /\ \A k \in DOMAIN msgs : /\ wire'[Len(wire) + k] = msgs[k]
                                /\ Tells(wire'[Len(wire) + k], b) <=> Tells(msgs[k], b)
      /\ \A i, j \in Nat : j <= Len(wire) + 1 => (Quiet(i, j, b)' <=> Quiet(i, j, b))
  BY ComesBehind
<1> USE <1>f
<1> PICK new \in Nat : new = Len(wire) + 1
  OBVIOUS
<1>0. new \in DOMAIN wire' /\ wire'[new] = msgs[1] /\ Tells(wire[new], b)' /\ new \notin DOMAIN wire
  <2>1. new \in DOMAIN wire' /\ wire'[new] = msgs[1] /\ Tells(wire'[new], b)
    OBVIOUS
  <2> QED BY <2>1 DEF Tells
<1>1. ASSUME NEW k \in DOMAIN wire', Tells(wire[k], b)' PROVE k \in DOMAIN wire \/ k = new
  <2>1. CASE k > new
    <3>1. k - Len(wire) \in DOMAIN msgs /\ Len(wire) + (k - Len(wire)) = k /\ k - Len(wire) > 1
      BY <2>1
    <3>2. ~Tells(wire'[k], b)
      BY <3>1
    <3> QED BY <1>1, <3>2 DEF Tells
  <2> QED BY <2>1
<1>2. \A i \in Nat : i < new => ~Quiet(i, Len(wire) + 1, b)'
  BY <1>0 DEF Quiet
<1>3. Quiet(new, Len(wire) + 1, b)'
  BY <1>1 DEF Quiet
<1>4. PressedAgain(b) => PressedAgain(b)'
  <2> SUFFICES ASSUME PressedAgain(b) PROVE PressedAgain(b)'
    OBVIOUS
  <2>1. wire \in Seq(Message) /\ wire' \in Seq(Message) /\ wire # <<>>
    BY Sends DEF TypeOK, PressedAgain
  <2>2. Head(wire) = wire[1] /\ Head(wire') = wire'[1] /\ 1 \in DOMAIN wire /\ wire' # <<>>
    BY <2>1
  <2> QED BY <2>2 DEF PressedAgain, Down, Msg
<1>5. ASSUME NEW i \in DOMAIN wire, Tells(wire[i], b)
      PROVE  Quiet(i, new, b) => (wire[i] = Down(b) <=> b \in pressed)
  BY <1>5 DEF TurnsOf
<1>6. ASSUME NEW j \in DOMAIN wire', Tells(wire[j], b)'
      PROVE  /\ (Quiet(0, j, b) /\ ~PressedAgain(b))' => (b \in held <=> wire[j] = Up(b))'
             /\ \A i \in DOMAIN wire' : i < j /\ Tells(wire[i], b)' /\ Quiet(i, j, b)'
                    => (wire[i] = Down(b) <=> wire[j] = Up(b))'
             /\ Quiet(j, Len(wire) + 1, b)' => (wire[j] = Down(b) <=> b \in pressed)'
  <2>1. CASE j \in DOMAIN wire
    <3>1. Tells(wire[j], b) /\ wire'[j] = wire[j] /\ j < new
      BY <1>6, <2>1
    <3>2. (Quiet(0, j, b) /\ ~PressedAgain(b))' => (b \in held <=> wire[j] = Up(b))
      BY <1>4, <2>1, <3>1 DEF TurnsOf
    <3>3. ASSUME NEW i \in DOMAIN wire', i < j, Tells(wire[i], b)', Quiet(i, j, b)'
          PROVE  (wire[i] = Down(b) <=> wire[j] = Up(b))'
      <4>1. i \in DOMAIN wire /\ Tells(wire[i], b) /\ Quiet(i, j, b) /\ wire'[i] = wire[i]
        BY <1>1, <2>1, <3>1, <3>3
      <4> QED BY <2>1, <3>1, <3>3, <4>1 DEF TurnsOf, Down, Up, Msg
    <3>4. ~Quiet(j, Len(wire) + 1, b)'
      BY <1>2, <2>1, <3>1
    <3> QED BY <3>1, <3>2, <3>3, <3>4 DEF Down, Up, Msg
  <2>2. CASE j = new
    <3>1. Quiet(0, j, b)' => (b \in held <=> b \in pressed)
      <4>1. \A k \in Nat : k <= Len(wire) + 1 => (Quiet(0, k, b)' <=> Quiet(0, k, b))
        OBVIOUS
      <4>2. Quiet(0, j, b)' <=> Quiet(0, j, b)
        BY <2>2, <4>1
      <4> QED BY <2>2, <4>2 DEF TurnsOf
    <3>2. ASSUME NEW i \in DOMAIN wire', i < j, Tells(wire[i], b)', Quiet(i, j, b)'
          PROVE  wire'[i] = Down(b) <=> b \in pressed
      <4>1. i \in DOMAIN wire /\ Tells(wire[i], b) /\ Quiet(i, new, b) /\ wire'[i] = wire[i]
        BY <1>1, <2>2, <3>2
      <4> QED BY <1>5, <4>1
    <3> QED BY <1>0, <2>2, <3>1, <3>2 DEF Down, Up, Msg
  <2> QED BY <1>1, <1>6, <2>1, <2>2
<1>7. ~Quiet(0, Len(wire) + 1, b)'
  BY <1>2
<1> QED BY <1>6, <1>7 DEF TurnsOf

\* A button that is pressed again when nothing is on its way starts anew.
LEMMA SentAnew ==
    ASSUME TypeOK, adapter' = adapter, NEW b \in Button, wire' = <<Down(b)>>, b \in pressed'
    PROVE  TurnsOf(b)'
<1>1. DOMAIN wire' = {1} /\ wire'[1] = Down(b) /\ Len(wire') = 1 /\ wire' # <<>>
      /\ Head(wire') = Down(b)
  BY DEF Down, Msg
<1>2. PressedAgain(b)'
  BY <1>1 DEF PressedAgain, Down, Msg
<1>3. ~Quiet(0, Len(wire) + 1, b)'
  BY <1>1 DEF Quiet, Tells, Down, Msg
<1> QED BY <1>1, <1>2, <1>3 DEF TurnsOf, Down, Msg

-----------------------------------------------------------------------------
(* Input: every step keeps the turns *)

LEMMA HeadOfButton ==
    ASSUME TypeOK, wire # <<>>
    PROVE  /\ Head(wire).type = "mouseDown" => Head(wire) = Down(Arg) /\ Arg \in Button
           /\ Head(wire).type = "mouseUp" => Head(wire) = Up(Arg) /\ Arg \in Button
           /\ \A b : Head(wire) = Down(b) => Head(wire).type = "mouseDown" /\ b = Arg
           /\ \A b : Head(wire) = Up(b) => Head(wire).type = "mouseUp" /\ b = Arg
<1>1. Head(wire) \in Message
  BY ArgTypes
<1>2. /\ Head(wire).type = "mouseDown" => Head(wire) = Down(Arg)
      /\ Head(wire).type = "mouseUp" => Head(wire) = Up(Arg)
  BY <1>1 DEF Message, Down, Up, Msg, Arg
<1> QED BY <1>2, ArgTypes DEF Down, Up, Msg, Arg

\* What the first message tells is what the scene is about to learn.
LEMMA FirstTurn ==
    ASSUME TypeOK, wire # <<>>, NEW b \in Button, TurnsOf(b), Tells(Head(wire), b),
           Head(wire) # Down(b)
    PROVE  b \in held <=> Head(wire) = Up(b)
<1>1. wire[1] = Head(wire) /\ 1 \in DOMAIN wire
  BY ArgTypes DEF TypeOK
<1>2. Quiet(0, 1, b)
  BY DEF Quiet, TypeOK
<1> QED BY <1>1, <1>2 DEF TurnsOf, PressedAgain

LEMMA NothingHappens ==
    ASSUME wire' = wire, adapter' = adapter, NEW b, held' = held, pressed' = pressed, TurnsOf(b)
    PROVE  TurnsOf(b)'
BY DEF TurnsOf, Quiet, Tells, PressedAgain

\* A press tells the scene what the page counted on.
LEMMA PressTurns ==
    ASSUME TypeOK, TakeTurns, NEW b \in Button, PressInside(b) PROVE TakeTurns'
<1> DEFINE msgs == <<Down(b)>>
<1>0. /\ msgs \in Seq(Message) /\ DOMAIN msgs = {1} /\ msgs[1] = Down(b) /\ Act(msgs)
      /\ adapter' = adapter /\ held' = held /\ pressed' = pressed \cup {b} /\ b \notin pressed
  BY ButtonMessages DEF PressInside, mouseVars, Down
<1> HIDE DEF msgs
<1> SUFFICES ASSUME NEW c \in Button \ disturbed' PROVE TurnsOf(c)'
  BY DEF TakeTurns
<1>1. Tells(Down(b), c)
  BY DEF Tells, Down, Msg
<1>2. Down(b) # Up(c) /\ (Down(b) = Down(c) <=> b = c)
  BY DEF Down, Up, Msg
<1>3. CASE c = b /\ pressed = {} /\ wire = <<>>
  <2>1. wire' = <<Down(b)>>
    BY <1>3 DEF PressInside, Act, Down
  <2> QED BY <1>0, <1>3, <2>1, SentAnew
<1>4. CASE c # b \/ pressed # {} \/ wire # <<>>
  <2>1. c \notin disturbed
    BY <1>4 DEF PressInside
  <2>2. TurnsOf(c)
    BY <2>1 DEF TakeTurns
  <2>3. c \notin pressed
    BY <1>0 DEF PressInside, Disturb
  <2> QED BY <1>0, <1>1, <1>2, <2>2, <2>3, Sent
<1> QED BY <1>3, <1>4

\* A release, too, with what the browser makes a double click behind it.
LEMMA ReleaseTurns ==
    ASSUME TypeOK, TakeTurns, OneAtATime, NEW b \in Button, ReleaseInside(b) PROVE TakeTurns'
<1>0. /\ adapter' = adapter /\ held' = held /\ pressed' = pressed \ {b} /\ b \in pressed
      /\ disturbed' = disturbed
  BY DEF ReleaseInside, mouseVars
<1>1. PICK msgs \in Seq(Message) :
          /\ Act(msgs) /\ 1 \in DOMAIN msgs /\ msgs[1] = Up(b)
          /\ \A k \in DOMAIN msgs : k > 1 => msgs[k].type = "mouseDblClick"
  <2> DEFINE Fits(m) == /\ m \in Seq(Message) /\ 1 \in DOMAIN m /\ m[1] = Up(b)
                        /\ \A k \in DOMAIN m : k > 1 => m[k].type = "mouseDblClick"
  <2>1. Fits(<<Up(b)>>)
    BY ButtonMessages
  <2>2. Fits(<<Up(b), Msg("mouseDblClick", b)>>)
    <3>1. Msg("mouseDblClick", b).type = "mouseDblClick"
      BY DEF Msg
    <3> QED BY <3>1, ButtonMessages
  <2>3. Act(<<Up(b)>>) \/ Act(<<Up(b), Msg("mouseDblClick", b)>>)
    BY DEF ReleaseInside, Up
  <2> HIDE DEF Fits
  <2>4. \E m : Act(m) /\ Fits(m)
    BY <2>1, <2>2, <2>3
  <2> QED BY <2>4 DEF Fits
<1> SUFFICES ASSUME NEW c \in Button \ disturbed PROVE TurnsOf(c)'
  BY <1>0 DEF TakeTurns
<1>2. /\ Tells(Up(b), c)
      /\ \A k \in DOMAIN msgs : k > 1 => ~Tells(msgs[k], c)
  BY <1>1 DEF Tells, Up, Msg
<1>3. Up(b) # Down(c) /\ (Up(b) = Up(c) <=> b = c)
  BY DEF Down, Up, Msg
<1>4. TurnsOf(c)
  BY DEF TakeTurns
<1>5. c # b => c \notin pressed
  BY <1>0 DEF OneAtATime
<1> QED BY <1>0, <1>1, <1>2, <1>3, <1>4, <1>5, Sent

\* What the interpreter is told, or is never told.
LEMMA TakenTurns ==
    ASSUME TypeOK, TakeTurns, AdapterKnows, Lose \/ HandlePress \/ HandleRelease
    PROVE  TakeTurns'
<1>0. /\ wire # <<>> /\ wire' = Tail(wire) /\ adapter' = adapter /\ pressed' = pressed
      /\ disturbed \subseteq disturbed'
  BY DEF Lose, HandlePress, HandleRelease, Receive, pageVars
<1> SUFFICES ASSUME NEW c \in Button \ disturbed' PROVE TurnsOf(c)'
  BY DEF TakeTurns
<1>1. TurnsOf(c) /\ c \notin disturbed
  BY <1>0 DEF TakeTurns
<1>2. ASSUME Tells(Head(wire), c), c # Arg PROVE c \notin held
  <2>1. Head(wire) # Up(c) /\ Head(wire) # Down(c)
    BY <1>0, <1>2, HeadOfButton
  <2> QED BY <1>0, <1>1, <1>2, <2>1, FirstTurn
<1>3. CASE Lose
  <2>1. held' = held
    BY <1>3 DEF Lose, mouseVars
  <2>2. Tells(Head(wire), c) => c # Arg
    BY <1>3 DEF Lose, Tells
  <2>3. Tells(Head(wire), c) => c \notin held /\ Head(wire) # Down(c)
    BY <1>0, <1>2, <2>2, HeadOfButton
  <2> QED BY <1>0, <1>1, <2>1, <2>3, Told, NothingTold
<1>4. CASE HandlePress
  <2>1. Head(wire) = Down(Arg) /\ Arg \in held' /\ held' \subseteq held \cup {Arg}
    BY <1>0, <1>4, HeadOfButton DEF HandlePress, HeldAfterMove, Receive
  <2>2. Tells(Head(wire), c)
    BY <2>1 DEF Tells, Down, Msg
  <2>3. c \in held' <=> Head(wire) = Down(c)
    BY <1>0, <1>2, <2>1, <2>2, HeadOfButton
  <2> QED BY <1>0, <1>1, <2>2, <2>3, Told
<1>5. CASE HandleRelease
  <2>1. Head(wire) = Up(Arg) /\ held' = held \ {ReleaseButton}
    BY <1>0, <1>5, HeadOfButton DEF HandleRelease, Receive
  <2>2. Tells(Head(wire), c)
    BY <2>1 DEF Tells, Up, Msg
  <2>3. c \notin held' /\ Head(wire) # Down(c)
    <3>1. Head(wire) # Down(c)
      BY <2>1 DEF Up, Down, Msg
    <3>2. ASSUME c = Arg, c \in held PROVE ReleaseButton = c
      <4>1. ~PressedAgain(c)
        BY <3>1 DEF PressedAgain
      <4> QED BY <1>1, <3>2, <4>1 DEF AdapterKnows, ReleaseButton
    <3> QED BY <1>2, <2>1, <2>2, <3>1, <3>2
  <2> QED BY <1>0, <1>1, <2>2, <2>3, Told
<1> QED BY <1>3, <1>4, <1>5

\* Other messages say nothing of buttons.
HandlesOther ==
    \/ HandleMove \/ HandleDblClick \/ HandleOther
    \/ HandleKeyDown \/ HandleKeyPress \/ HandleKeyUp \/ HandleText

LEMMA OtherTurns ==
    ASSUME TypeOK, TakeTurns, AdapterKnows,
           HandlesOther \/ SendsOther \/ IntervalPasses \/ UNCHANGED vars
    PROVE  TakeTurns'
<1>0. /\ adapter' = adapter /\ pressed' = pressed /\ disturbed' = disturbed
      /\ held' = IF HandleMove THEN HeldAfterMove ELSE held
  BY OtherMessages
     DEF HandlesOther, HandleMove, HandleDblClick, HandleOther, HandleKeyDown, HandleKeyPress,
         HandleKeyUp, HandleText, IntervalPasses, vars, mouseVars, pageVars
<1> SUFFICES ASSUME NEW c \in Button \ disturbed, TurnsOf(c) PROVE TurnsOf(c)'
  BY <1>0 DEF TakeTurns
<1>1. CASE HandlesOther
  <2>1. /\ wire # <<>> /\ wire' = Tail(wire)
        /\ Head(wire).type \notin {"mouseDown", "mouseUp"}
    BY <1>1 DEF HandlesOther, HandleMove, HandleDblClick, HandleOther, HandleKeyDown,
                HandleKeyPress, HandleKeyUp, HandleText, Receive
  <2>2. ~Tells(Head(wire), c) /\ ~PressedAgain(c)
    BY <2>1 DEF Tells, PressedAgain, Down, Msg
  <2>3. c \in held' <=> c \in held
    BY <1>0, <2>2 DEF AdapterKnows, HeldAfterMove
  <2> QED BY <1>0, <2>1, <2>2, <2>3, NothingTold
<1>2. CASE SendsOther
  <2>1. PICK msgs \in Seq(Message) : Act(msgs) /\ Silent(msgs)
    BY <1>2, OtherMessages
  <2>2. \A k \in DOMAIN msgs : ~Tells(msgs[k], c)
    BY <2>1 DEF Silent, Tells
  <2>3. held' = held
    BY <1>2, OtherMessages DEF mouseVars
  <2> QED BY <1>0, <2>1, <2>2, <2>3, NothingSent
<1>3. CASE IntervalPasses \/ UNCHANGED vars
  <2>1. wire' = wire /\ held' = held
    BY <1>3 DEF IntervalPasses, vars, mouseVars
  <2> QED BY <1>0, <2>1, NothingHappens
<1> QED BY <1>1, <1>2, <1>3

LEMMA OutsideTurns ==
    ASSUME TypeOK, TakeTurns, NEW b \in Button, ChangeOutside(b) PROVE TakeTurns'
<1>0. /\ Act(<<>>) /\ <<>> \in Seq(Message) /\ adapter' = adapter /\ held' = held
      /\ disturbed \cup {b} \subseteq disturbed'
  BY ButtonMessages DEF ChangeOutside, Disturb, mouseVars
<1> SUFFICES ASSUME NEW c \in Button \ disturbed' PROVE TurnsOf(c)'
  BY DEF TakeTurns
<1>1. TurnsOf(c) /\ c # b
  BY <1>0 DEF TakeTurns
<1>2. c \in pressed' <=> c \in pressed
  BY <1>1 DEF ChangeOutside
<1>3. \A k \in DOMAIN <<>> : ~Tells(<<>>[k], c)
  OBVIOUS
<1> QED BY <1>0, <1>1, <1>2, <1>3, NothingSent

LEMMA TurnsStep ==
    ASSUME TypeOK, TakeTurns, AdapterKnows, OneAtATime, [Next]_vars PROVE TakeTurns'
BY PressTurns, ReleaseTurns, OutsideTurns, TakenTurns, OtherTurns
   DEF Next, HandlesOther, SendsOther

-----------------------------------------------------------------------------
(* Input: what the adapter knows *)

LEMMA HeadStays ==
    ASSUME TypeOK, wire # <<>>, NEW msgs \in Seq(Message), Act(msgs)
    PROVE  wire' # <<>> /\ Head(wire') = Head(wire)
<1>1. wire \in Seq(Message) /\ wire' \in Seq(Message) /\ Len(wire) > 0
  BY Sends DEF TypeOK
<1>2. 1 \in DOMAIN wire /\ wire'[1] = wire[1] /\ Len(wire') > 0
  BY <1>1, Sends
<1> QED BY <1>1, <1>2

\* What the page does keeps what is about to be told.
PageStep ==
    \/ \E b \in Button : PressInside(b) \/ ReleaseInside(b) \/ ChangeOutside(b)
    \/ SendsOther

LEMMA PageSends ==
    ASSUME TypeOK, PageStep
    PROVE  /\ \E msgs \in Seq(Message) :
                 /\ Act(msgs)
                 /\ \A k \in DOMAIN msgs : msgs[k].type = "mouseDblClick"
                        => k = 2 /\ msgs[1] = Up(msgs[2].arg)
           /\ UNCHANGED <<mouseVars, adapter>>
           /\ wire # <<>> => disturbed \subseteq disturbed'
<1> DEFINE Fits(m) == /\ m \in Seq(Message)
                      /\ \A k \in DOMAIN m : m[k].type = "mouseDblClick"
                             => k = 2 /\ m[1] = Up(m[2].arg)
<1>1. ASSUME NEW b \in Button, PressInside(b)
      PROVE  /\ \E m : Act(m) /\ Fits(m)
             /\ UNCHANGED <<mouseVars, adapter>> /\ (wire # <<>> => disturbed \subseteq disturbed')
  <2>1. Fits(<<Down(b)>>)
    <3>1. Down(b).type # "mouseDblClick"
      BY DEF Down, Msg
    <3> QED BY <3>1, ButtonMessages
  <2>2. Act(<<Down(b)>>)
    BY <1>1 DEF PressInside, Down
  <2>3. UNCHANGED <<mouseVars, adapter>> /\ (wire # <<>> => disturbed \subseteq disturbed')
    BY <1>1 DEF PressInside
  <2> HIDE DEF Fits
  <2> QED BY <2>1, <2>2, <2>3
<1>2. ASSUME NEW b \in Button, ReleaseInside(b)
      PROVE  /\ \E m : Act(m) /\ Fits(m)
             /\ UNCHANGED <<mouseVars, adapter>> /\ (wire # <<>> => disturbed \subseteq disturbed')
  <2>1. Fits(<<Up(b)>>) /\ Fits(<<Up(b), Msg("mouseDblClick", b)>>)
    <3>1. Up(b).type # "mouseDblClick" /\ Msg("mouseDblClick", b).arg = b
      BY DEF Up, Msg
    <3>2. Fits(<<Up(b)>>)
      BY <3>1, ButtonMessages
    <3>3. Fits(<<Up(b), Msg("mouseDblClick", b)>>)
      BY <3>1, ButtonMessages
    <3> QED BY <3>2, <3>3
  <2>2. Act(<<Up(b)>>) \/ Act(<<Up(b), Msg("mouseDblClick", b)>>)
    BY <1>2 DEF ReleaseInside, Up
  <2>3. UNCHANGED <<mouseVars, adapter, disturbed>>
    BY <1>2 DEF ReleaseInside
  <2> HIDE DEF Fits
  <2> QED BY <2>1, <2>2, <2>3
<1>3. ASSUME NEW b \in Button, ChangeOutside(b)
      PROVE  /\ \E m : Act(m) /\ Fits(m)
             /\ UNCHANGED <<mouseVars, adapter>> /\ (wire # <<>> => disturbed \subseteq disturbed')
  <2>1. Fits(<<>>)
    BY ButtonMessages
  <2>2. Act(<<>>) /\ UNCHANGED <<mouseVars, adapter>> /\ disturbed \subseteq disturbed'
    BY <1>3 DEF ChangeOutside
  <2> HIDE DEF Fits
  <2> QED BY <2>1, <2>2
<1>4. ASSUME SendsOther
      PROVE  /\ \E m : Act(m) /\ Fits(m)
             /\ UNCHANGED <<mouseVars, adapter>> /\ (wire # <<>> => disturbed \subseteq disturbed')
  <2>1. PICK m \in Seq(Message) : Act(m) /\ Silent(m)
    BY <1>4, OtherMessages
  <2>2. Fits(m)
    BY <2>1 DEF Silent
  <2>3. UNCHANGED <<mouseVars, adapter, disturbed>>
    BY <1>4, OtherMessages
  <2> HIDE DEF Fits
  <2> QED BY <2>1, <2>2, <2>3
<1>5. /\ \E m : Act(m) /\ Fits(m)
      /\ UNCHANGED <<mouseVars, adapter>> /\ (wire # <<>> => disturbed \subseteq disturbed')
  <2> HIDE DEF Fits
  <2> QED BY <1>1, <1>2, <1>3, <1>4 DEF PageStep
<1> QED BY <1>5

\* A release or a lost release leaves no undisturbed button held.
LEMMA NothingHeld ==
    ASSUME TypeOK, TakeTurns, AdapterKnows, Lose \/ HandleRelease,
           Head(wire).type = "mouseUp"
    PROVE  held' \subseteq disturbed'
<1>0. wire # <<>> /\ held' \subseteq held /\ disturbed \subseteq disturbed' /\ held \subseteq Button
  BY DEF Lose, HandleRelease, Receive, mouseVars, TypeOK
<1>1. Head(wire) = Up(Arg) /\ Arg \in Button
  BY <1>0, HeadOfButton
<1>2. ASSUME NEW c \in held', c \notin disturbed' PROVE FALSE
  <2>1. c \in Button \ disturbed /\ c \in held /\ TurnsOf(c)
    BY <1>0, <1>2 DEF TakeTurns
  <2>2. Tells(Head(wire), c) /\ Head(wire) # Down(c)
    BY <1>1 DEF Tells, Up, Down, Msg
  <2>3. c = Arg
    BY <1>0, <1>1, <2>1, <2>2, FirstTurn, HeadOfButton
  <2>4. CASE Lose
    BY <1>1, <1>2, <2>3, <2>4 DEF Lose
  <2>5. CASE HandleRelease
    <3>1. ~PressedAgain(c)
      BY <2>2 DEF PressedAgain
    <3>2. lastButton = c /\ Arg = c
      BY <2>1, <2>3, <3>1 DEF AdapterKnows
    <3> QED BY <1>2, <2>5, <3>2 DEF HandleRelease, ReleaseButton
  <2> QED BY <2>4, <2>5
<1> QED BY <1>2

LEMMA KnowsStep ==
    ASSUME TypeOK, TakeTurns, AdapterKnows, DoubleFollowsRelease, [Next]_vars
    PROVE  AdapterKnows'
<1>0. adapter' = adapter
  BY AdapterIsFixed
<1> SUFFICES ASSUME NEW b \in held', b \notin disturbed'
             PROVE  PressedAgain(b)' \/ (buttonDown /\ lastButton = b /\ inPress)'
  BY DEF AdapterKnows
<1>1. CASE PageStep
  <2>1. b \in held /\ UNCHANGED <<buttonDown, lastButton, inPress>>
    BY <1>1, PageSends DEF mouseVars
  <2>2. CASE b \in disturbed
    <3>1. PressInside(b) /\ wire = <<>>
      BY <1>1, <2>2, OtherMessages DEF PageStep, PressInside, ReleaseInside, ChangeOutside
    <3>2. wire' = <<Down(b)>>
      BY <3>1 DEF PressInside, Act, Down
    <3> QED BY <3>2 DEF PressedAgain, Down, Msg
  <2>3. CASE b \notin disturbed /\ PressedAgain(b)
    <3>1. wire # <<>> /\ wire' # <<>> /\ Head(wire') = Head(wire)
      BY <1>1, <2>3, PageSends, HeadStays DEF PressedAgain
    <3> QED BY <2>3, <3>1 DEF PressedAgain, Down, Msg
  <2>4. CASE b \notin disturbed /\ ~PressedAgain(b)
    BY <2>1, <2>4 DEF AdapterKnows
  <2> QED BY <2>2, <2>3, <2>4
<1>2. CASE Lose
  <2>1. b \in held /\ b \notin disturbed /\ UNCHANGED <<buttonDown, lastButton, inPress>>
    BY <1>2 DEF Lose, mouseVars
  <2>2. ~PressedAgain(b)
    <3>1. ASSUME PressedAgain(b) PROVE FALSE
      <4>1. Arg = b /\ b \in Button
        BY <2>1, <3>1, HeadOfButton DEF PressedAgain, TypeOK
      <4> QED BY <1>2, <4>1 DEF Lose
    <3> QED BY <3>1
  <2> QED BY <2>1, <2>2 DEF AdapterKnows
<1>3. CASE HandlePress
  <2>1. /\ wire # <<>> /\ Head(wire) = Down(Arg) /\ held' \subseteq held \cup {Arg}
        /\ disturbed' = disturbed
    BY <1>3, HeadOfButton DEF HandlePress, HeldAfterMove, Receive
  <2>2. ASSUME b # Arg PROVE FALSE
    <3>1. b \in Button \ disturbed /\ b \in held /\ TurnsOf(b)
      BY <2>1, <2>2 DEF TakeTurns, TypeOK
    <3>2. Tells(Head(wire), b) /\ Head(wire) # Down(b) /\ Head(wire) # Up(b)
      BY <2>1, <2>2 DEF Tells, Up, Down, Msg
    <3> QED BY <2>1, <3>1, <3>2, FirstTurn
  <2> QED BY <1>3, <2>2 DEF HandlePress
<1>4. CASE HandleRelease
  BY <1>4, NothingHeld DEF HandleRelease, Receive
<1>5. CASE HandleDblClick
  <2>1. held \subseteq disturbed /\ held' = held /\ disturbed' = disturbed
    BY <1>5 DEF HandleDblClick, Receive, DoubleFollowsRelease
  <2> QED BY <2>1
<1>6. CASE HandlesOther /\ ~HandleDblClick
  <2>1. /\ wire # <<>> /\ Head(wire).type # "mouseDown"
        /\ held' \subseteq held /\ UNCHANGED <<disturbed, buttonDown, inPress>>
        /\ lastButton' \in {MoveButton, lastButton}
    BY <1>6 DEF HandlesOther, HeldAfterMove, HandleMove, HandleOther, HandleKeyDown, HandleKeyPress, HandleKeyUp,
                HandleText, Receive, mouseVars
  <2>2. ~PressedAgain(b)
    BY <2>1 DEF PressedAgain, Down, Msg
  <2>3. buttonDown /\ lastButton = b /\ inPress
    BY <2>1, <2>2 DEF AdapterKnows
  <2> QED BY <2>1, <2>3 DEF MoveButton
<1>7. CASE IntervalPasses \/ UNCHANGED vars
  BY <1>7 DEF IntervalPasses, vars, mouseVars, AdapterKnows, PressedAgain, Down, Msg
<1> QED
  BY <1>1, <1>2, <1>3, <1>4, <1>5, <1>6, <1>7 DEF Next, PageStep, SendsOther, HandlesOther

LEMMA OneAtATimeStep ==
    ASSUME TypeOK, OneAtATime, [Next]_vars PROVE OneAtATime'
<1> SUFFICES ASSUME NEW b \in pressed', NEW c \in pressed', b # c PROVE b \in disturbed'
  BY DEF OneAtATime
<1>1. ASSUME NEW x \in Button, PressInside(x) PROVE b \in disturbed'
  BY <1>1 DEF PressInside, Disturb
<1>2. ASSUME NEW x \in Button, ReleaseInside(x) PROVE b \in disturbed'
  BY <1>2 DEF ReleaseInside, OneAtATime
<1>3. ASSUME NEW x \in Button, ChangeOutside(x) PROVE b \in disturbed'
  BY <1>3 DEF ChangeOutside, Disturb
<1>4. CASE pressed' = pressed /\ disturbed \subseteq disturbed'
  BY <1>4 DEF OneAtATime
<1>5. CASE SendsOther
  BY <1>4, <1>5, OtherMessages
<1>6. CASE Lose \/ HandlePress \/ HandleRelease \/ HandlesOther \/ IntervalPasses \/ UNCHANGED vars
  BY <1>4, <1>6
     DEF HandlesOther, Lose, HandlePress, HandleRelease, HandleMove, HandleDblClick, HandleOther,
         HandleKeyDown, HandleKeyPress, HandleKeyUp, HandleText, IntervalPasses, vars, pageVars
<1> QED BY <1>1, <1>2, <1>3, <1>5, <1>6 DEF Next, SendsOther, HandlesOther

\* The browser's double click stays behind the release it came with.
LEMMA DoubleStep ==
    ASSUME TypeOK, TakeTurns, AdapterKnows, DoubleFollowsRelease, [Next]_vars
    PROVE  DoubleFollowsRelease'
<1>0. adapter' = adapter /\ wire \in Seq(Message)
  BY AdapterIsFixed DEF TypeOK
<1>1. CASE PageStep
  <2>1. PICK msgs \in Seq(Message) :
            /\ Act(msgs)
            /\ \A k \in DOMAIN msgs : msgs[k].type = "mouseDblClick"
                   => k = 2 /\ msgs[1] = Up(msgs[2].arg)
    BY <1>1, PageSends
  <2>2. /\ DOMAIN wire = 1..Len(wire) /\ Len(wire) \in Nat
        /\ DOMAIN wire' = 1..(Len(wire) + Len(msgs)) /\ DOMAIN msgs = 1..Len(msgs)
        /\ Len(msgs) \in Nat
        /\ \A k \in DOMAIN wire : wire'[k] = wire[k]
        /\ \A k \in DOMAIN msgs : wire'[Len(wire) + k] = msgs[k]
    BY <1>0, <2>1, Sends
  <2>3. ASSUME NEW j \in DOMAIN wire', wire'[j].type = "mouseDblClick", j > 1
        PROVE  wire'[j - 1] = Up(wire'[j].arg)
    <3>1. CASE j \in DOMAIN wire
      BY <2>2, <2>3, <3>1 DEF DoubleFollowsRelease
    <3>2. CASE j \notin DOMAIN wire
      <4>1. j - Len(wire) \in DOMAIN msgs /\ Len(wire) + (j - Len(wire)) = j
        BY <2>2, <3>2
      <4>2. j - Len(wire) = 2 /\ msgs[1] = Up(msgs[2].arg) /\ msgs[2] = wire'[j]
        BY <2>1, <2>2, <2>3, <4>1
      <4>3. 1 \in DOMAIN msgs /\ Len(wire) + 1 = j - 1
        BY <2>2, <4>1, <4>2
      <4> QED BY <2>2, <4>2, <4>3
    <3> QED BY <3>1, <3>2
  <2>4. ASSUME wire' # <<>>, Head(wire').type = "mouseDblClick"
        PROVE  held' \subseteq disturbed'
    <3>1. CASE wire = <<>>
      <4>1. wire' = msgs /\ msgs # <<>> /\ Head(msgs) = msgs[1] /\ 1 \in DOMAIN msgs
        BY <2>1, <2>4, <3>1 DEF Act
      <4> QED BY <2>1, <2>4, <4>1
    <3>2. CASE wire # <<>>
      <4>1. Head(wire) = Head(wire')
        BY <2>1, <3>2, HeadStays
      <4> QED BY <1>1, <2>4, <3>2, <4>1, PageSends DEF DoubleFollowsRelease, mouseVars
    <3> QED BY <3>1, <3>2
  <2> QED BY <1>0, <2>3, <2>4 DEF DoubleFollowsRelease
<1>2. CASE Lose \/ HandlePress \/ HandleRelease \/ HandlesOther
  <2>0. wire # <<>> /\ wire' = Tail(wire)
    BY <1>2 DEF HandlesOther, Lose, HandlePress, HandleRelease, HandleMove, HandleDblClick,
                HandleOther, HandleKeyDown, HandleKeyPress, HandleKeyUp, HandleText, Receive
  <2>1. /\ DOMAIN wire = 1..Len(wire) /\ Len(wire) \in Nat \ {0}
        /\ DOMAIN wire' = 1..(Len(wire) - 1) /\ wire[1] = Head(wire)
        /\ \A k \in DOMAIN wire' : wire'[k] = wire[k + 1]
        /\ wire' # <<>> => 1 \in DOMAIN wire' /\ Head(wire') = wire'[1]
    BY <1>0, <2>0
  <2>2. ASSUME NEW j \in DOMAIN wire', wire'[j].type = "mouseDblClick", j > 1
        PROVE  wire'[j - 1] = Up(wire'[j].arg)
    <3>1. /\ j + 1 \in DOMAIN wire /\ j + 1 > 1 /\ wire[j + 1] = wire'[j]
          /\ j - 1 \in DOMAIN wire' /\ (j - 1) + 1 = j
      BY <2>1, <2>2
    <3>2. wire[(j + 1) - 1] = Up(wire[j + 1].arg)
      BY <2>2, <3>1 DEF DoubleFollowsRelease
    <3>3. wire'[j - 1] = wire[j] /\ (j + 1) - 1 = j
      BY <2>1, <3>1
    <3> QED BY <3>1, <3>2, <3>3
  <2>3. ASSUME wire' # <<>>, Head(wire').type = "mouseDblClick"
        PROVE  held' \subseteq disturbed'
    <3>1. 2 \in DOMAIN wire /\ wire[2].type = "mouseDblClick"
      BY <2>1, <2>3
    <3>2. wire[2 - 1] = Up(wire[2].arg)
      BY <3>1 DEF DoubleFollowsRelease
    <3>3. Head(wire).type = "mouseUp"
      BY <2>1, <3>2 DEF Up, Msg
    <3>4. Lose \/ HandleRelease
      BY <1>2, <3>3 DEF HandlePress, HandlesOther, HandleMove, HandleDblClick, HandleOther,
                        HandleKeyDown, HandleKeyPress, HandleKeyUp, HandleText, Receive
    <3> QED BY <2>3, <3>3, <3>4, NothingHeld
  <2> QED BY <1>0, <2>2, <2>3 DEF DoubleFollowsRelease
<1>3. CASE IntervalPasses \/ UNCHANGED vars
  BY <1>0, <1>3 DEF IntervalPasses, vars, mouseVars, DoubleFollowsRelease, Up, Msg
<1> QED BY <1>1, <1>2, <1>3 DEF Next, PageStep, SendsOther, HandlesOther

\* A double click comes while a button is pressed, behind a single click.
LEMMA ClicksStep ==
    ASSUME TypeOK, TakeTurns, AdapterKnows, ClickIsSingle, sound, [Next]_vars
    PROVE  ClickIsSingle' /\ sound'
<1>1. CASE HandleRelease
  <2>1. ASSUME disturbed = {} PROVE inPress
    <3>1. wire # <<>> /\ Head(wire) = Up(Arg) /\ Arg \in Button
      BY <1>1, HeadOfButton DEF HandleRelease, Receive
    <3>2. Tells(Head(wire), Arg) /\ Head(wire) # Down(Arg) /\ ~PressedAgain(Arg)
      BY <3>1 DEF Tells, PressedAgain, Up, Down, Msg
    <3>3. Arg \in held
      BY <2>1, <3>1, <3>2, FirstTurn DEF TakeTurns
    <3> QED BY <2>1, <3>2, <3>3 DEF AdapterKnows
  <2>2. adapter = "quick" => recent' = ~recent /\ single' = ~recent
    BY <1>1 DEF HandleRelease, TimeAfterRelease
  <2>3. adapter # "quick" => recent' = recent /\ single' = single
    BY <1>1 DEF HandleRelease
  <2>4. ClickIsSingle'
    BY <2>2, <2>3 DEF ClickIsSingle
  <2>5. sound'
    BY <1>1, <2>1 DEF HandleRelease, ClickIsSingle
  <2> QED BY <2>4, <2>5
<1>2. CASE IntervalPasses
  BY <1>2 DEF IntervalPasses, ClickIsSingle
<1>3. CASE HandleMove \/ HandlePress \/ HandleDblClick \/ MouseAlone \/ UNCHANGED vars
  <2>1. recent' = recent /\ single' = single /\ sound' = sound
    BY <1>3 DEF HandleMove, HandlePress, HandleDblClick, MouseAlone, vars, mouseVars
  <2> QED BY <2>1 DEF ClickIsSingle
<1> QED BY <1>1, <1>2, <1>3, OtherStepsLeaveMouse

\* The inductive invariant holds throughout.
LEMMA InputInvHolds == Spec => []InputInv
<1>1. Init => InputInv
  <2> SUFFICES ASSUME Init PROVE InputInv
    OBVIOUS
  <2> USE DEF Init
  <2>1. TypeOK
    <3>1. wire \in Seq(Message) /\ acts \in 0..MaxActs
      BY InputAssumption
    <3>2. drag \in [button : Buttons, held : SUBSET Button, doubt : SUBSET Button]
      BY DEF Buttons
    <3>3. /\ pressed \in SUBSET Button /\ clicked \in Buttons /\ double \in Buttons
          /\ held \in SUBSET Button /\ disturbed \in SUBSET Button
      BY DEF Buttons
    <3> QED BY <3>1, <3>2, <3>3 DEF TypeOK
  <2>2. \A b \in Button : TurnsOf(b)
    BY DEF TurnsOf
  <2>3. /\ AdapterKnows /\ OneAtATime /\ DoubleFollowsRelease /\ ButtonOfMoves /\ MovesAreSound
        /\ StaleIsReleased /\ ClickIsSingle /\ sound /\ KeyIsRemembered /\ CharactersArrive
    BY DEF AdapterKnows, OneAtATime, DoubleFollowsRelease, ButtonOfMoves, MovesAreSound,
           StaleIsReleased, ClickIsSingle, KeyIsRemembered, CharactersArrive, Same
  <2> QED BY <2>1, <2>2, <2>3 DEF InputInv, TakeTurns
<1>2. InputInv /\ [Next]_vars => InputInv'
  BY InputTypeStep, TurnsStep, KnowsStep, OneAtATimeStep, DoubleStep, MovesStep, ClicksStep,
     KeysStep
     DEF InputInv
<1> QED BY <1>1, <1>2, PTL DEF Spec

(* When everything sent was handled, the scene takes the buttons for       *)
(* pressed that the user presses, but for those the server was not told of  *)
(* and for one a graphics scene was told the release of, which it sees      *)
(* pressed until the next move; a move has a button the scene holds         *)
(* (handleMouseEvent of the interpreter and of both adapters).              *)
THEOREM SceneFollowsUser == Spec => []SceneHoldsWhatUserHolds
<1>1. InputInv => SceneHoldsWhatUserHolds
  <2> SUFFICES ASSUME InputInv PROVE SceneHoldsWhatUserHolds
    OBVIOUS
  <2>1. ASSUME wire = <<>>, NEW b \in Button \ disturbed PROVE b \in held <=> b \in pressed
    <3>1. Quiet(0, Len(wire) + 1, b)
      BY <2>1 DEF Quiet
    <3> QED BY <3>1 DEF InputInv, TakeTurns, TurnsOf
  <2>2. ASSUME NEW b \in Button \ disturbed, b \in SceneHolds, b \notin held PROVE Lingers(b)
    BY <2>2 DEF InputInv, StaleIsReleased, SceneHolds, Lingers, MoveButton
  <2> QED BY <2>1, <2>2 DEF InputInv, MovesAreSound, SceneHoldsWhatUserHolds
<1> QED BY <1>1, InputInvHolds, PTL

(* Without disturbance a double click comes while a button is pressed, and  *)
(* after a click that was not part of another one (doubleClickTime_ of the  *)
(* Qt Quick adapter).                                                       *)
THEOREM DoubleClicksAreSound == Spec => []DoubleClicksAreTwoClicks
<1>1. InputInv => DoubleClicksAreTwoClicks
  BY DEF InputInv, DoubleClicksAreTwoClicks
<1> QED BY <1>1, InputInvHolds, PTL

(* Every character arrives once, with the key that typed it, unless the     *)
(* message of its key was lost, and as it was typed unless Caps Lock had a  *)
(* part in it (keyDownKeyCode_ and textForKey of the interpreter).          *)
THEOREM TextArrivesWithItsKey == Spec => []TypedTextArrives
<1>1. InputInv => TypedTextArrives
  BY DEF InputInv, CharactersArrive, TypedTextArrives
<1> QED BY <1>1, InputInvHolds, PTL

-----------------------------------------------------------------------------
(* Adapters: the inductive invariant *)

\* The QPointer of an item has the one adapter that exists, which is doomed
\* when the item is gone.
OneAdapter ==
    \A a \in Adapter : /\ Exists(a) <=> known = a
                       /\ life[a] = "alive" => item
                       /\ life[a] = "doomed" => ~item

\* A renderer has the adapter of its display, until it is told of its end.
RenderersFollow ==
    \A t \in Target :
        /\ renderer[t] \in {NULL, display[t]}
        /\ display[t] # NULL => life[display[t]] # "unborn"
        /\ display[t] # NULL /\ Exists(display[t]) => renderer[t] = display[t] /\ ~destroyed[t]

\* Who waits for a picture, or draws it, had an adapter when it began.
CallHasRenderer ==
    /\ call.op \in {"wait", "draw"} => call.target \in Target /\ renderer[call.target] # NULL
    /\ rendering # NULL => call.op = "wait" /\ Exists(renderer[call.target])

\* The picture of an adapter that needs no other is the newest, and so is the
\* one that is rendered, unless the scene changed while it was rendered.
PicturesAreNewest ==
    /\ \A a \in Adapter \ missed : Exists(a) /\ ~updateRequired[a] => buffer[a] = scene
    /\ rendering # NULL /\ renderer[call.target] \notin missed => rendering = scene

\* A picture that grows old before it is drawn is announced to the display.
OldPictureIsNoted ==
    /\ call.op = "draw" /\ Exists(renderer[call.target]) /\ renderer[call.target] \notin missed
    /\ updateRequired[renderer[call.target]]
    => changed[call.target]

ViewsAreNewest ==
    \A t \in Target :
        display[t] # NULL /\ Exists(display[t]) /\ display[t] \notin missed /\ ~updates[t] /\ ~changed[t]
            => view[t] = scene

\* Objects that are used exist.
UsedObjectsExist ==
    /\ item /\ ~removed => \A a \in Adapter : life[a] # "deleted"
    /\ item /\ ~shared => \A t \in Target : display[t] # NULL => Exists(display[t])
    /\ \A h \in handlers : life[h.adapter] # "unborn"
    /\ item /\ call.op = "resize" => call.todo \subseteq handlers

AdaptersInv ==
    /\ AdaptersTypeOK
    /\ OneAdapter /\ RenderersFollow /\ CallHasRenderer
    /\ PicturesAreNewest /\ OldPictureIsNoted /\ ViewsAreNewest
    /\ UsedObjectsExist /\ OnlyOldHandlersMisuse

-----------------------------------------------------------------------------
(* Adapters: types and objects *)

\* A change that is noted, and the end of an adapter.
LEMMA ChangeTypes ==
    ASSUME AdaptersTypeOK, NEW a, HandleSceneChanged(a)
    PROVE  updateRequired' \in [Adapter -> BOOLEAN] /\ changed' \in [Target -> BOOLEAN]
<1>1. updateRequired' \in [Adapter -> BOOLEAN]
  BY DEF HandleSceneChanged, AdaptersTypeOK
<1>2. \A t \in Target : (changed[t] \/ t \in Connected(a)) \in BOOLEAN
  OBVIOUS
<1>3. changed' = [t \in Target |-> changed[t] \/ t \in Connected(a)]
  BY DEF HandleSceneChanged, Notify
<1> QED BY <1>1, <1>2, <1>3

LEMMA DeleteTypes ==
    ASSUME AdaptersTypeOK, NEW a, Delete(a)
    PROVE  /\ life' \in [Adapter -> {"unborn", "alive", "doomed", "deleted"}]
           /\ known' \in Adapter \cup {NULL} /\ destroyed' \in [Target -> BOOLEAN]
<1>1. life' \in [Adapter -> {"unborn", "alive", "doomed", "deleted"}]
  BY DEF Delete, AdaptersTypeOK
<1>2. known' \in Adapter \cup {NULL}
  BY DEF Delete, AdaptersTypeOK
<1>3. \A t \in Target : (destroyed[t] \/ t \in Connected(a)) \in BOOLEAN
  OBVIOUS
<1>4. destroyed' = [t \in Target |-> destroyed[t] \/ t \in Connected(a)]
  BY DEF Delete
<1> QED BY <1>1, <1>2, <1>3, <1>4

\* What a new display takes is the adapter that is known, or a new one.
LEMMA NewDisplayTakes ==
    ASSUME AdaptersTypeOK, NEW t \in Target, NewDisplay(t)
    PROVE  \E a \in Adapter :
               /\ display' = [display EXCEPT ![t] = a] /\ renderer' = [renderer EXCEPT ![t] = a]
               /\ known' = a
               /\ \/ /\ life' = [life EXCEPT ![a] = "alive"]
                     /\ updateRequired' = [updateRequired EXCEPT ![a] = TRUE]
                     /\ handlers' = handlers \cup {[target |-> t, adapter |-> a]}
                  \/ UNCHANGED <<life, updateRequired, handlers>>
<1>1. known \in Adapter \cup {NULL}
  BY DEF AdaptersTypeOK
<1>2. PICK a \in (IF Reusable # {} THEN Reusable ELSE {x \in Adapter : life[x] = "unborn"}) :
          /\ display' = [display EXCEPT ![t] = a] /\ renderer' = [renderer EXCEPT ![t] = a]
          /\ known' = a
          /\ IF life[a] = "unborn"
             THEN /\ life' = [life EXCEPT ![a] = "alive"]
                  /\ updateRequired' = [updateRequired EXCEPT ![a] = TRUE]
                  /\ handlers' = handlers \cup {[target |-> t, adapter |-> a]}
             ELSE UNCHANGED <<life, updateRequired, handlers>>
  BY DEF NewDisplay
<1>3. a \in Adapter
  BY <1>1 DEF Reusable
<1> QED BY <1>2, <1>3

LEMMA AdaptersTypeStep ==
    ASSUME AdaptersTypeOK, CallHasRenderer, [AdaptersNext]_adaptersVars
    PROVE  AdaptersTypeOK'
<1> USE AdaptersAssumption DEF AdaptersTypeOK
<1>1. CASE SceneChanges
  <2>1. updateRequired' \in [Adapter -> BOOLEAN] /\ changed' \in [Target -> BOOLEAN]
    BY <1>1, ChangeTypes DEF SceneChanges
  <2>2. scene' \in 1..MaxVersion /\ missed' \in SUBSET Adapter
    BY <1>1 DEF SceneChanges
  <2> QED BY <1>1, <2>1, <2>2 DEF SceneChanges, objectVars
<1>2. CASE ChangeWhileRendering
  <2>1. updateRequired' \in [Adapter -> BOOLEAN] /\ changed' \in [Target -> BOOLEAN]
    BY <1>2, ChangeTypes DEF ChangeWhileRendering
  <2>2. scene' \in 1..MaxVersion /\ missed' \in SUBSET Adapter
    BY <1>2 DEF ChangeWhileRendering, CallHasRenderer
  <2> QED BY <1>2, <2>1, <2>2 DEF ChangeWhileRendering, objectVars
<1>3. CASE DestroyItem
  BY <1>3 DEF DestroyItem, pictureVars, objectVars
<1>4. CASE FinishUpdate
  <2>1. rendering \in 0..MaxVersion
    BY <1>4 DEF FinishUpdate
  <2>2. buffer' \in [Adapter -> 0..MaxVersion] /\ updateRequired' \in [Adapter -> BOOLEAN]
    BY <1>4, <2>1 DEF FinishUpdate
  <2>3. call' \in [op : {"idle", "wait", "draw", "resize"}, target : Target \cup {NULL},
                   todo : SUBSET [target : Target, adapter : Adapter]]
    BY <1>4 DEF FinishUpdate
  <2> QED BY <1>4, <2>2, <2>3 DEF FinishUpdate, objectVars
<1>5. ASSUME NEW a \in Adapter, DeleteLater(a) PROVE AdaptersTypeOK'
  BY <1>5 DEF DeleteLater, Delete, Connected, pictureVars, objectVars
<1>6. ASSUME NEW a \in Adapter, UpdateBuffer(a) PROVE AdaptersTypeOK'
  BY <1>6 DEF UpdateBuffer, pictureVars, objectVars
<1>7. ASSUME NEW t \in Target, NewDisplay(t) PROVE AdaptersTypeOK'
  <2>1. PICK a \in Adapter :
            /\ display' = [display EXCEPT ![t] = a] /\ renderer' = [renderer EXCEPT ![t] = a]
            /\ known' = a
            /\ \/ /\ life' = [life EXCEPT ![a] = "alive"]
                  /\ updateRequired' = [updateRequired EXCEPT ![a] = TRUE]
                  /\ handlers' = handlers \cup {[target |-> t, adapter |-> a]}
               \/ UNCHANGED <<life, updateRequired, handlers>>
    BY <1>7, NewDisplayTakes
  <2>2. /\ life' \in [Adapter -> {"unborn", "alive", "doomed", "deleted"}]
        /\ updateRequired' \in [Adapter -> BOOLEAN]
        /\ handlers' \in SUBSET [target : Target, adapter : Adapter]
    <3>1. [target |-> t, adapter |-> a] \in [target : Target, adapter : Adapter]
      OBVIOUS
    <3>2. handlers' \in SUBSET [target : Target, adapter : Adapter]
      BY <2>1, <3>1
    <3>3. life' \in [Adapter -> {"unborn", "alive", "doomed", "deleted"}]
      BY <2>1
    <3>4. updateRequired' \in [Adapter -> BOOLEAN]
      BY <2>1
    <3> QED BY <3>2, <3>3, <3>4
  <2>3. /\ display' \in [Target -> Adapter \cup {NULL}]
        /\ renderer' \in [Target -> Adapter \cup {NULL}] /\ known' \in Adapter \cup {NULL}
    BY <2>1
  <2>4. /\ changed' \in [Target -> BOOLEAN] /\ destroyed' \in [Target -> BOOLEAN]
        /\ updates' \in [Target -> BOOLEAN] /\ view' \in [Target -> 0..MaxVersion]
    BY <1>7 DEF NewDisplay
  <2> QED BY <1>7, <2>2, <2>3, <2>4 DEF NewDisplay
<1>8. ASSUME NEW t \in Target, RemoveDisplay(t) PROVE AdaptersTypeOK'
  <2>1. /\ life' \in [Adapter -> {"unborn", "alive", "doomed", "deleted"}]
        /\ known' \in Adapter \cup {NULL} /\ destroyed' \in [Target -> BOOLEAN]
    BY <1>8, DeleteTypes DEF RemoveDisplay
  <2>2. misuse' \in SUBSET {"render", "input", "delete", "resize", "handler"}
    BY <1>8 DEF RemoveDisplay, Misused
  <2>3. /\ display' \in [Target -> Adapter \cup {NULL}]
        /\ renderer' \in [Target -> Adapter \cup {NULL}]
        /\ changed' \in [Target -> BOOLEAN] /\ updates' \in [Target -> BOOLEAN]
    BY <1>8 DEF RemoveDisplay
  <2>4. shared' \in BOOLEAN /\ removed' \in BOOLEAN
    BY <1>8 DEF RemoveDisplay
  <2> QED BY <1>8, <2>1, <2>2, <2>3, <2>4 DEF RemoveDisplay, pictureVars
<1>9. ASSUME NEW t \in Target, DeliverChanged(t) PROVE AdaptersTypeOK'
  BY <1>9 DEF DeliverChanged, pictureVars, objectVars
<1>10. ASSUME NEW t \in Target, DeliverDestroyed(t) PROVE AdaptersTypeOK'
  BY <1>10 DEF DeliverDestroyed, pictureVars, objectVars
<1>11. ASSUME NEW t \in Target, Render(t) PROVE AdaptersTypeOK'
  <2>1. call' \in [op : {"idle", "wait", "draw", "resize"}, target : Target \cup {NULL},
                   todo : SUBSET [target : Target, adapter : Adapter]]
    <3>1. \/ UNCHANGED call
          \/ call' = [Idle EXCEPT !.op = IF updateRequired[renderer[t]] THEN "wait" ELSE "draw",
                                 !.target = t]
      BY <1>11 DEF Render
    <3>2. ASSUME NEW o \in {"wait", "draw"}
          PROVE  [Idle EXCEPT !.op = o, !.target = t]
                     \in [op : {"idle", "wait", "draw", "resize"}, target : Target \cup {NULL},
                          todo : SUBSET [target : Target, adapter : Adapter]]
      BY DEF Idle
    <3> QED BY <3>1, <3>2
  <2>2. /\ updates' \in [Target -> BOOLEAN]
        /\ misuse' \in SUBSET {"render", "input", "delete", "resize", "handler"}
    BY <1>11 DEF Render, Misused
  <2> QED BY <1>11, <2>1, <2>2 DEF Render, pictureVars, objectVars
<1>12. ASSUME NEW t \in Target, HandleInput(t) PROVE AdaptersTypeOK'
  BY <1>12 DEF HandleInput, Misused, pictureVars, objectVars
<1>13. ASSUME NEW t \in Target, HandleResize(t) PROVE AdaptersTypeOK'
  BY <1>13 DEF HandleResize, pictureVars, objectVars
<1>14. CASE Draw
  <2>1. call' \in [op : {"idle", "wait", "draw", "resize"}, target : Target \cup {NULL},
                   todo : SUBSET [target : Target, adapter : Adapter]]
    BY <1>14 DEF Draw, Idle
  <2>2. renderer[call.target] \in Adapter
    BY <1>14 DEF Draw, CallHasRenderer
  <2>3. /\ updates' \in [Target -> BOOLEAN]
        /\ misuse' \in SUBSET {"render", "input", "delete", "resize", "handler"}
    BY <1>14 DEF Draw, Misused
  <2>4. view' \in [Target -> 0..MaxVersion]
    <3>1. buffer[renderer[call.target]] \in 0..MaxVersion
      BY <2>2
    <3> QED BY <1>14, <3>1 DEF Draw
  <2> QED BY <1>14, <2>1, <2>3, <2>4 DEF Draw, objectVars
<1>15. ASSUME NEW h \in call.todo, ResizeAdapter(h) PROVE AdaptersTypeOK'
  <2>1. call' \in [op : {"idle", "wait", "draw", "resize"}, target : Target \cup {NULL},
                   todo : SUBSET [target : Target, adapter : Adapter]]
    BY <1>15 DEF ResizeAdapter, Idle
  <2>2. misuse' \in SUBSET {"render", "input", "delete", "resize", "handler"}
    BY <1>15 DEF ResizeAdapter, Misused
  <2>3. updateRequired' \in [Adapter -> BOOLEAN] /\ changed' \in [Target -> BOOLEAN]
    BY <1>15, ChangeTypes DEF ResizeAdapter
  <2> QED BY <1>15, <2>1, <2>2, <2>3 DEF ResizeAdapter, objectVars
<1>16. CASE UNCHANGED adaptersVars
  BY <1>16 DEF adaptersVars, pictureVars, objectVars
<1> QED
  BY <1>1, <1>2, <1>3, <1>4, <1>5, <1>6, <1>7, <1>8, <1>9, <1>10, <1>11, <1>12, <1>13,
             <1>14, <1>15, <1>16 DEF AdaptersNext, Main

LEMMA OneAdapterStep ==
    ASSUME AdaptersTypeOK, OneAdapter, [AdaptersNext]_adaptersVars
    PROVE  OneAdapter'
<1> USE AdaptersAssumption DEF AdaptersTypeOK, OneAdapter, Exists
<1>1. CASE SceneChanges
  BY <1>1 DEF SceneChanges, HandleSceneChanged, Notify, Connected, pictureVars, objectVars
<1>2. CASE ChangeWhileRendering
  BY <1>2 DEF ChangeWhileRendering, HandleSceneChanged, Notify, Connected, pictureVars,
              objectVars
<1>3. CASE DestroyItem
  BY <1>3 DEF DestroyItem, pictureVars, objectVars
<1>4. CASE FinishUpdate
  BY <1>4 DEF FinishUpdate, pictureVars, objectVars
<1>5. ASSUME NEW a \in Adapter, DeleteLater(a) PROVE OneAdapter'
  BY <1>5 DEF DeleteLater, Delete, Connected, pictureVars, objectVars
<1>6. ASSUME NEW a \in Adapter, UpdateBuffer(a) PROVE OneAdapter'
  BY <1>6 DEF UpdateBuffer, pictureVars, objectVars
<1>7. ASSUME NEW t \in Target, NewDisplay(t) PROVE OneAdapter'
  BY <1>7 DEF NewDisplay, Reusable, pictureVars, objectVars
<1>8. ASSUME NEW t \in Target, RemoveDisplay(t) PROVE OneAdapter'
  BY <1>8 DEF RemoveDisplay, Delete, Connected, Misused, pictureVars, objectVars
<1>9. ASSUME NEW t \in Target, DeliverChanged(t) PROVE OneAdapter'
  BY <1>9 DEF DeliverChanged, pictureVars, objectVars
<1>10. ASSUME NEW t \in Target, DeliverDestroyed(t) PROVE OneAdapter'
  BY <1>10 DEF DeliverDestroyed, pictureVars, objectVars
<1>11. ASSUME NEW t \in Target, Render(t) PROVE OneAdapter'
  BY <1>11 DEF Render, Misused, Idle, pictureVars, objectVars
<1>12. ASSUME NEW t \in Target, HandleInput(t) PROVE OneAdapter'
  BY <1>12 DEF HandleInput, Misused, pictureVars, objectVars
<1>13. ASSUME NEW t \in Target, HandleResize(t) PROVE OneAdapter'
  BY <1>13 DEF HandleResize, pictureVars, objectVars
<1>14. CASE Draw
  BY <1>14 DEF Draw, Misused, Idle, pictureVars, objectVars
<1>15. ASSUME NEW h \in call.todo, ResizeAdapter(h) PROVE OneAdapter'
  BY <1>15 DEF ResizeAdapter, HandleSceneChanged, Notify, Connected, Misused, Idle, pictureVars,
               objectVars
<1>16. CASE UNCHANGED adaptersVars
  BY <1>16 DEF adaptersVars, pictureVars, objectVars
<1> QED
  BY <1>1, <1>2, <1>3, <1>4, <1>5, <1>6, <1>7, <1>8, <1>9, <1>10, <1>11, <1>12, <1>13,
             <1>14, <1>15, <1>16 DEF AdaptersNext, Main

\* Renderers follow their displays.
LEMMA RenderersStep ==
    ASSUME AdaptersTypeOK, OneAdapter, RenderersFollow, CallHasRenderer, [AdaptersNext]_adaptersVars
    PROVE  RenderersFollow'
<1> USE AdaptersAssumption DEF AdaptersTypeOK, OneAdapter, RenderersFollow, Exists
<1>1. CASE SceneChanges
  BY <1>1 DEF SceneChanges, HandleSceneChanged, Notify, Connected, pictureVars, objectVars
<1>2. CASE ChangeWhileRendering
  BY <1>2 DEF ChangeWhileRendering, HandleSceneChanged, Notify, Connected, pictureVars,
              objectVars
<1>3. CASE DestroyItem
  BY <1>3 DEF DestroyItem, pictureVars, objectVars
<1>4. CASE FinishUpdate
  BY <1>4 DEF FinishUpdate, pictureVars, objectVars
<1>5. ASSUME NEW a \in Adapter, DeleteLater(a) PROVE RenderersFollow'
  BY <1>5 DEF DeleteLater, Delete, Connected, pictureVars, objectVars
<1>6. ASSUME NEW a \in Adapter, UpdateBuffer(a) PROVE RenderersFollow'
  BY <1>6 DEF UpdateBuffer, pictureVars, objectVars
<1>7. ASSUME NEW t \in Target, NewDisplay(t) PROVE RenderersFollow'
  BY <1>7 DEF NewDisplay, Reusable, pictureVars, objectVars
<1>8. ASSUME NEW t \in Target, RemoveDisplay(t) PROVE RenderersFollow'
  BY <1>8 DEF RemoveDisplay, Delete, Connected, Misused, pictureVars, objectVars
<1>9. ASSUME NEW t \in Target, DeliverChanged(t) PROVE RenderersFollow'
  BY <1>9 DEF DeliverChanged, pictureVars, objectVars
<1>10. ASSUME NEW t \in Target, DeliverDestroyed(t) PROVE RenderersFollow'
  BY <1>10 DEF DeliverDestroyed, pictureVars, objectVars
<1>11. ASSUME NEW t \in Target, Render(t) PROVE RenderersFollow'
  BY <1>11 DEF Render, Misused, Idle, pictureVars, objectVars
<1>12. ASSUME NEW t \in Target, HandleInput(t) PROVE RenderersFollow'
  BY <1>12 DEF HandleInput, Misused, pictureVars, objectVars
<1>13. ASSUME NEW t \in Target, HandleResize(t) PROVE RenderersFollow'
  BY <1>13 DEF HandleResize, pictureVars, objectVars
<1>14. CASE Draw
  BY <1>14 DEF Draw, Misused, Idle, pictureVars, objectVars
<1>15. ASSUME NEW h \in call.todo, ResizeAdapter(h) PROVE RenderersFollow'
  BY <1>15 DEF ResizeAdapter, HandleSceneChanged, Notify, Connected, Misused, Idle, pictureVars,
               objectVars
<1>16. CASE UNCHANGED adaptersVars
  BY <1>16 DEF adaptersVars, pictureVars, objectVars
<1> QED
  BY <1>1, <1>2, <1>3, <1>4, <1>5, <1>6, <1>7, <1>8, <1>9, <1>10, <1>11, <1>12, <1>13,
             <1>14, <1>15, <1>16 DEF AdaptersNext, Main

\* Nothing takes the renderer away from who waits or draws.
LEMMA CallStep ==
    ASSUME AdaptersTypeOK, OneAdapter, RenderersFollow, CallHasRenderer, [AdaptersNext]_adaptersVars
    PROVE  CallHasRenderer'
<1> USE AdaptersAssumption DEF AdaptersTypeOK, CallHasRenderer, Exists, SessionIsFree, MainIsFree
<1>1. CASE SceneChanges
  BY <1>1 DEF SceneChanges, HandleSceneChanged, Notify, Connected, pictureVars, objectVars
<1>2. CASE ChangeWhileRendering
  BY <1>2 DEF ChangeWhileRendering, HandleSceneChanged, Notify, Connected, pictureVars,
              objectVars
<1>3. CASE DestroyItem
  BY <1>3 DEF DestroyItem, pictureVars, objectVars
<1>4. CASE FinishUpdate
  BY <1>4 DEF FinishUpdate, pictureVars, objectVars
<1>5. ASSUME NEW a \in Adapter, DeleteLater(a) PROVE CallHasRenderer'
  BY <1>5 DEF DeleteLater, Delete, Connected, pictureVars, objectVars
<1>6. ASSUME NEW a \in Adapter, UpdateBuffer(a) PROVE CallHasRenderer'
  BY <1>6 DEF UpdateBuffer, pictureVars, objectVars
<1>7. ASSUME NEW t \in Target, NewDisplay(t) PROVE CallHasRenderer'
  BY <1>7 DEF NewDisplay, Reusable, pictureVars, objectVars
<1>8. ASSUME NEW t \in Target, RemoveDisplay(t) PROVE CallHasRenderer'
  BY <1>8 DEF RemoveDisplay, Delete, Connected, Misused, pictureVars, objectVars
<1>9. ASSUME NEW t \in Target, DeliverChanged(t) PROVE CallHasRenderer'
  BY <1>9 DEF DeliverChanged, pictureVars, objectVars
<1>10. ASSUME NEW t \in Target, DeliverDestroyed(t) PROVE CallHasRenderer'
  BY <1>10 DEF DeliverDestroyed, pictureVars, objectVars
<1>11. ASSUME NEW t \in Target, Render(t) PROVE CallHasRenderer'
  BY <1>11 DEF Render, Misused, Idle, pictureVars, objectVars
<1>12. ASSUME NEW t \in Target, HandleInput(t) PROVE CallHasRenderer'
  BY <1>12 DEF HandleInput, Misused, pictureVars, objectVars
<1>13. ASSUME NEW t \in Target, HandleResize(t) PROVE CallHasRenderer'
  BY <1>13 DEF HandleResize, pictureVars, objectVars
<1>14. CASE Draw
  BY <1>14 DEF Draw, Misused, Idle, pictureVars, objectVars
<1>15. ASSUME NEW h \in call.todo, ResizeAdapter(h) PROVE CallHasRenderer'
  BY <1>15 DEF ResizeAdapter, HandleSceneChanged, Notify, Connected, Misused, Idle, pictureVars,
               objectVars
<1>16. CASE UNCHANGED adaptersVars
  BY <1>16 DEF adaptersVars, pictureVars, objectVars
<1> QED
  BY <1>1, <1>2, <1>3, <1>4, <1>5, <1>6, <1>7, <1>8, <1>9, <1>10, <1>11, <1>12, <1>13,
             <1>14, <1>15, <1>16 DEF AdaptersNext, Main

-----------------------------------------------------------------------------
(* Adapters: pictures *)

\* A change of the scene makes the picture of the one adapter too old.
LEMMA PicturesStep ==
    ASSUME AdaptersTypeOK, OneAdapter, RenderersFollow, CallHasRenderer, PicturesAreNewest,
           [AdaptersNext]_adaptersVars
    PROVE  PicturesAreNewest'
<1> USE AdaptersAssumption DEF AdaptersTypeOK, OneAdapter, CallHasRenderer, PicturesAreNewest, Exists,
            SessionIsFree, MainIsFree
<1>1. CASE SceneChanges
  BY <1>1 DEF SceneChanges, HandleSceneChanged, Notify, Connected, pictureVars, objectVars
<1>2. CASE ChangeWhileRendering
  BY <1>2 DEF ChangeWhileRendering, HandleSceneChanged, Notify, Connected, pictureVars,
              objectVars
<1>3. CASE DestroyItem
  BY <1>3 DEF DestroyItem, pictureVars, objectVars
<1>4. CASE FinishUpdate
  BY <1>4 DEF FinishUpdate, pictureVars, objectVars
<1>5. ASSUME NEW a \in Adapter, DeleteLater(a) PROVE PicturesAreNewest'
  BY <1>5 DEF DeleteLater, Delete, Connected, pictureVars, objectVars
<1>6. ASSUME NEW a \in Adapter, UpdateBuffer(a) PROVE PicturesAreNewest'
  BY <1>6 DEF UpdateBuffer, pictureVars, objectVars
<1>7. ASSUME NEW t \in Target, NewDisplay(t) PROVE PicturesAreNewest'
  BY <1>7 DEF NewDisplay, Reusable, pictureVars, objectVars
<1>8. ASSUME NEW t \in Target, RemoveDisplay(t) PROVE PicturesAreNewest'
  BY <1>8 DEF RemoveDisplay, Delete, Connected, Misused, pictureVars, objectVars
<1>9. ASSUME NEW t \in Target, DeliverChanged(t) PROVE PicturesAreNewest'
  BY <1>9 DEF DeliverChanged, pictureVars, objectVars
<1>10. ASSUME NEW t \in Target, DeliverDestroyed(t) PROVE PicturesAreNewest'
  BY <1>10 DEF DeliverDestroyed, pictureVars, objectVars
<1>11. ASSUME NEW t \in Target, Render(t) PROVE PicturesAreNewest'
  BY <1>11 DEF Render, Misused, Idle, pictureVars, objectVars
<1>12. ASSUME NEW t \in Target, HandleInput(t) PROVE PicturesAreNewest'
  BY <1>12 DEF HandleInput, Misused, pictureVars, objectVars
<1>13. ASSUME NEW t \in Target, HandleResize(t) PROVE PicturesAreNewest'
  BY <1>13 DEF HandleResize, pictureVars, objectVars
<1>14. CASE Draw
  BY <1>14 DEF Draw, Misused, Idle, pictureVars, objectVars
<1>15. ASSUME NEW h \in call.todo, ResizeAdapter(h) PROVE PicturesAreNewest'
  BY <1>15 DEF ResizeAdapter, HandleSceneChanged, Notify, Connected, Misused, Idle, pictureVars,
               objectVars
<1>16. CASE UNCHANGED adaptersVars
  BY <1>16 DEF adaptersVars, pictureVars, objectVars
<1> QED
  BY <1>1, <1>2, <1>3, <1>4, <1>5, <1>6, <1>7, <1>8, <1>9, <1>10, <1>11, <1>12, <1>13,
             <1>14, <1>15, <1>16 DEF AdaptersNext, Main

LEMMA OldPictureStep ==
    ASSUME AdaptersTypeOK, OneAdapter, RenderersFollow, CallHasRenderer, OldPictureIsNoted,
           [AdaptersNext]_adaptersVars
    PROVE  OldPictureIsNoted'
<1> USE AdaptersAssumption DEF AdaptersTypeOK, OneAdapter, CallHasRenderer, OldPictureIsNoted, Exists,
            SessionIsFree, MainIsFree
<1>1. CASE SceneChanges
  <2> SUFFICES ASSUME call.op = "draw", Exists(renderer[call.target]),
                      renderer[call.target] \notin missed', updateRequired'[renderer[call.target]]
               PROVE  changed'[call.target]
    BY <1>1 DEF SceneChanges, objectVars
  <2>1. call.target \in Target /\ renderer[call.target] \in Adapter
    OBVIOUS
  <2>2. known = renderer[call.target] /\ known # NULL
    BY <2>1
  <2>3. call.target \in Connected(known)
    BY <2>1, <2>2 DEF Connected
  <2>4. changed' = Notify(known)
    BY <1>1, <2>2 DEF SceneChanges, HandleSceneChanged
  <2> QED BY <2>1, <2>3, <2>4 DEF Notify
<1>2. CASE ChangeWhileRendering
  BY <1>2 DEF ChangeWhileRendering, HandleSceneChanged, Notify, Connected, pictureVars,
              objectVars
<1>3. CASE DestroyItem
  BY <1>3 DEF DestroyItem, pictureVars, objectVars
<1>4. CASE FinishUpdate
  BY <1>4 DEF FinishUpdate, pictureVars, objectVars
<1>5. ASSUME NEW a \in Adapter, DeleteLater(a) PROVE OldPictureIsNoted'
  BY <1>5 DEF DeleteLater, Delete, Connected, pictureVars, objectVars
<1>6. ASSUME NEW a \in Adapter, UpdateBuffer(a) PROVE OldPictureIsNoted'
  BY <1>6 DEF UpdateBuffer, pictureVars, objectVars
<1>7. ASSUME NEW t \in Target, NewDisplay(t) PROVE OldPictureIsNoted'
  BY <1>7 DEF NewDisplay, Reusable, pictureVars, objectVars
<1>8. ASSUME NEW t \in Target, RemoveDisplay(t) PROVE OldPictureIsNoted'
  BY <1>8 DEF RemoveDisplay, Delete, Connected, Misused, pictureVars, objectVars
<1>9. ASSUME NEW t \in Target, DeliverChanged(t) PROVE OldPictureIsNoted'
  BY <1>9 DEF DeliverChanged, pictureVars, objectVars
<1>10. ASSUME NEW t \in Target, DeliverDestroyed(t) PROVE OldPictureIsNoted'
  BY <1>10 DEF DeliverDestroyed, pictureVars, objectVars
<1>11. ASSUME NEW t \in Target, Render(t) PROVE OldPictureIsNoted'
  <2>1. UNCHANGED <<pictureVars, rendering, objectVars, renderer, changed>> /\ call.op = "idle"
    BY <1>11 DEF Render
  <2>2. CASE call' = [Idle EXCEPT !.op = IF updateRequired[renderer[t]] THEN "wait" ELSE "draw",
                                  !.target = t]
    <3>1. call'.op = "draw" => ~updateRequired[renderer[call'.target]]
      BY <2>2 DEF Idle
    <3> QED BY <2>1, <3>1 DEF pictureVars
  <2>3. CASE UNCHANGED call
    BY <2>1, <2>3
  <2> QED BY <1>11, <2>2, <2>3 DEF Render
<1>12. ASSUME NEW t \in Target, HandleInput(t) PROVE OldPictureIsNoted'
  BY <1>12 DEF HandleInput, Misused, pictureVars, objectVars
<1>13. ASSUME NEW t \in Target, HandleResize(t) PROVE OldPictureIsNoted'
  BY <1>13 DEF HandleResize, pictureVars, objectVars
<1>14. CASE Draw
  BY <1>14 DEF Draw, Misused, Idle, pictureVars, objectVars
<1>15. ASSUME NEW h \in call.todo, ResizeAdapter(h) PROVE OldPictureIsNoted'
  BY <1>15 DEF ResizeAdapter, HandleSceneChanged, Notify, Connected, Misused, Idle, pictureVars,
               objectVars
<1>16. CASE UNCHANGED adaptersVars
  BY <1>16 DEF adaptersVars, pictureVars, objectVars
<1> QED
  BY <1>1, <1>2, <1>3, <1>4, <1>5, <1>6, <1>7, <1>8, <1>9, <1>10, <1>11, <1>12, <1>13,
             <1>14, <1>15, <1>16 DEF AdaptersNext, Main

\* A display draws the newest picture, or is told that it is not.
LEMMA ViewsStep ==
    ASSUME AdaptersTypeOK, OneAdapter, RenderersFollow, CallHasRenderer,
           PicturesAreNewest, OldPictureIsNoted, ViewsAreNewest, [AdaptersNext]_adaptersVars
    PROVE  ViewsAreNewest'
<1> USE AdaptersAssumption DEF AdaptersTypeOK, OneAdapter, RenderersFollow, CallHasRenderer, ViewsAreNewest,
            Exists, SessionIsFree, MainIsFree
<1>1. CASE SceneChanges
  <2> SUFFICES ASSUME NEW t \in Target, display[t] # NULL, Exists(display[t]), ~changed'[t]
               PROVE  FALSE
    BY <1>1 DEF SceneChanges, objectVars
  <2>1. display[t] \in Adapter /\ renderer[t] = display[t]
    OBVIOUS
  <2>2. known = renderer[t] /\ known # NULL
    BY <2>1
  <2>3. t \in Connected(known)
    BY <2>2 DEF Connected
  <2>4. changed' = Notify(known)
    BY <1>1, <2>2 DEF SceneChanges, HandleSceneChanged
  <2>5. Notify(known)[t]
    BY <2>3 DEF Notify
  <2> QED BY <2>4, <2>5
<1>2. CASE ChangeWhileRendering
  BY <1>2 DEF ChangeWhileRendering, HandleSceneChanged, Notify, Connected, pictureVars,
              objectVars
<1>3. CASE DestroyItem
  BY <1>3 DEF DestroyItem, pictureVars, objectVars
<1>4. CASE FinishUpdate
  BY <1>4 DEF FinishUpdate, pictureVars, objectVars
<1>5. ASSUME NEW a \in Adapter, DeleteLater(a) PROVE ViewsAreNewest'
  BY <1>5 DEF DeleteLater, Delete, Connected, pictureVars, objectVars
<1>6. ASSUME NEW a \in Adapter, UpdateBuffer(a) PROVE ViewsAreNewest'
  BY <1>6 DEF UpdateBuffer, pictureVars, objectVars
<1>7. ASSUME NEW t \in Target, NewDisplay(t) PROVE ViewsAreNewest'
  BY <1>7 DEF NewDisplay, Reusable, pictureVars, objectVars
<1>8. ASSUME NEW t \in Target, RemoveDisplay(t) PROVE ViewsAreNewest'
  BY <1>8 DEF RemoveDisplay, Delete, Connected, Misused, pictureVars, objectVars
<1>9. ASSUME NEW t \in Target, DeliverChanged(t) PROVE ViewsAreNewest'
  BY <1>9 DEF DeliverChanged, pictureVars, objectVars
<1>10. ASSUME NEW t \in Target, DeliverDestroyed(t) PROVE ViewsAreNewest'
  BY <1>10 DEF DeliverDestroyed, pictureVars, objectVars
<1>11. ASSUME NEW t \in Target, Render(t) PROVE ViewsAreNewest'
  BY <1>11 DEF Render, Misused, Idle, pictureVars, objectVars
<1>12. ASSUME NEW t \in Target, HandleInput(t) PROVE ViewsAreNewest'
  BY <1>12 DEF HandleInput, Misused, pictureVars, objectVars
<1>13. ASSUME NEW t \in Target, HandleResize(t) PROVE ViewsAreNewest'
  BY <1>13 DEF HandleResize, pictureVars, objectVars
<1>14. CASE Draw
  <2> DEFINE u == call.target
  <2>1. u \in Target /\ renderer[u] \in Adapter /\ display[u] = renderer[u]
    BY <1>14 DEF Draw
  <2>2. /\ UNCHANGED <<scene, missed, life, display, changed>>
        /\ updates' = [updates EXCEPT ![u] = FALSE]
        /\ Exists(renderer[u]) => view' = [view EXCEPT ![u] = buffer[renderer[u]]]
        /\ ~Exists(renderer[u]) => view' = view
    BY <1>14 DEF Draw, objectVars
  <2>3. ASSUME Exists(display[u]), display[u] \notin missed, ~changed[u] PROVE buffer[renderer[u]] = scene
    BY <1>14, <2>1, <2>3 DEF Draw, PicturesAreNewest, OldPictureIsNoted
  <2>4. ASSUME NEW t \in Target, display[t] # NULL, Exists(display[t]), display[t] \notin missed,
               ~updates'[t], ~changed[t]
        PROVE  view'[t] = scene
    <3> HIDE DEF u
    <3>1. CASE t = u
      BY <2>1, <2>2, <2>3, <2>4, <3>1
    <3>2. CASE t # u
      BY <2>1, <2>2, <2>4, <3>2
    <3> QED BY <3>1, <3>2
  <2> QED BY <2>2, <2>4
<1>15. ASSUME NEW h \in call.todo, ResizeAdapter(h) PROVE ViewsAreNewest'
  BY <1>15 DEF ResizeAdapter, HandleSceneChanged, Notify, Connected, Misused, Idle, pictureVars,
               objectVars
<1>16. CASE UNCHANGED adaptersVars
  BY <1>16 DEF adaptersVars, pictureVars, objectVars
<1> QED
  BY <1>1, <1>2, <1>3, <1>4, <1>5, <1>6, <1>7, <1>8, <1>9, <1>10, <1>11, <1>12, <1>13,
             <1>14, <1>15, <1>16 DEF AdaptersNext, Main

\* While the item lives, only the removal of a display deletes an adapter.
LEMMA UsedStep ==
    ASSUME AdaptersTypeOK, OneAdapter, RenderersFollow, CallHasRenderer,
           UsedObjectsExist, [AdaptersNext]_adaptersVars
    PROVE  UsedObjectsExist'
<1> USE AdaptersAssumption DEF AdaptersTypeOK, OneAdapter, RenderersFollow, UsedObjectsExist, Exists,
            SessionIsFree, MainIsFree
<1>1. CASE SceneChanges
  BY <1>1 DEF SceneChanges, HandleSceneChanged, Notify, Connected, pictureVars, objectVars
<1>2. CASE ChangeWhileRendering
  BY <1>2 DEF ChangeWhileRendering, HandleSceneChanged, Notify, Connected, pictureVars,
              objectVars
<1>3. CASE DestroyItem
  BY <1>3 DEF DestroyItem, pictureVars, objectVars
<1>4. CASE FinishUpdate
  BY <1>4 DEF FinishUpdate, pictureVars, objectVars
<1>5. ASSUME NEW a \in Adapter, DeleteLater(a) PROVE UsedObjectsExist'
  BY <1>5 DEF DeleteLater, Delete, Connected, pictureVars, objectVars
<1>6. ASSUME NEW a \in Adapter, UpdateBuffer(a) PROVE UsedObjectsExist'
  BY <1>6 DEF UpdateBuffer, pictureVars, objectVars
<1>7. ASSUME NEW t \in Target, NewDisplay(t) PROVE UsedObjectsExist'
  BY <1>7 DEF NewDisplay, Reusable, pictureVars, objectVars
<1>8. ASSUME NEW t \in Target, RemoveDisplay(t) PROVE UsedObjectsExist'
  BY <1>8 DEF RemoveDisplay, Delete, Connected, Misused, pictureVars, objectVars
<1>9. ASSUME NEW t \in Target, DeliverChanged(t) PROVE UsedObjectsExist'
  BY <1>9 DEF DeliverChanged, pictureVars, objectVars
<1>10. ASSUME NEW t \in Target, DeliverDestroyed(t) PROVE UsedObjectsExist'
  BY <1>10 DEF DeliverDestroyed, pictureVars, objectVars
<1>11. ASSUME NEW t \in Target, Render(t) PROVE UsedObjectsExist'
  <2>1. UNCHANGED <<item, removed, shared, life, display, handlers>>
    BY <1>11 DEF Render, objectVars
  <2>2. UNCHANGED call \/ call'.op # "resize"
    <3>1. \/ UNCHANGED call
          \/ call' = [Idle EXCEPT !.op = IF updateRequired[renderer[t]] THEN "wait" ELSE "draw",
                                 !.target = t]
      BY <1>11 DEF Render
    <3>2. \A o \in {"wait", "draw"} : [Idle EXCEPT !.op = o, !.target = t].op = o
      BY DEF Idle
    <3> QED BY <3>1, <3>2
  <2> QED BY <2>1, <2>2
<1>12. ASSUME NEW t \in Target, HandleInput(t) PROVE UsedObjectsExist'
  BY <1>12 DEF HandleInput, Misused, pictureVars, objectVars
<1>13. ASSUME NEW t \in Target, HandleResize(t) PROVE UsedObjectsExist'
  BY <1>13 DEF HandleResize, pictureVars, objectVars
<1>14. CASE Draw
  BY <1>14 DEF Draw, Misused, Idle, pictureVars, objectVars
<1>15. ASSUME NEW h \in call.todo, ResizeAdapter(h) PROVE UsedObjectsExist'
  BY <1>15 DEF ResizeAdapter, HandleSceneChanged, Notify, Connected, Misused, Idle, pictureVars,
               objectVars
<1>16. CASE UNCHANGED adaptersVars
  BY <1>16 DEF adaptersVars, pictureVars, objectVars
<1> QED
  BY <1>1, <1>2, <1>3, <1>4, <1>5, <1>6, <1>7, <1>8, <1>9, <1>10, <1>11, <1>12, <1>13,
             <1>14, <1>15, <1>16 DEF AdaptersNext, Main

LEMMA MisuseStep ==
    ASSUME AdaptersTypeOK, OneAdapter, RenderersFollow, CallHasRenderer,
           UsedObjectsExist, OnlyOldHandlersMisuse, [AdaptersNext]_adaptersVars
    PROVE  OnlyOldHandlersMisuse'
<1> USE AdaptersAssumption DEF AdaptersTypeOK, RenderersFollow, CallHasRenderer, UsedObjectsExist,
            OnlyOldHandlersMisuse, Exists, SessionIsFree, MainIsFree
<1>1. CASE SceneChanges
  BY <1>1 DEF SceneChanges, HandleSceneChanged, Notify, Connected, pictureVars, objectVars
<1>2. CASE ChangeWhileRendering
  BY <1>2 DEF ChangeWhileRendering, HandleSceneChanged, Notify, Connected, pictureVars,
              objectVars
<1>3. CASE DestroyItem
  BY <1>3 DEF DestroyItem, pictureVars, objectVars
<1>4. CASE FinishUpdate
  BY <1>4 DEF FinishUpdate, pictureVars, objectVars
<1>5. ASSUME NEW a \in Adapter, DeleteLater(a) PROVE OnlyOldHandlersMisuse'
  BY <1>5 DEF DeleteLater, Delete, Connected, pictureVars, objectVars
<1>6. ASSUME NEW a \in Adapter, UpdateBuffer(a) PROVE OnlyOldHandlersMisuse'
  BY <1>6 DEF UpdateBuffer, pictureVars, objectVars
<1>7. ASSUME NEW t \in Target, NewDisplay(t) PROVE OnlyOldHandlersMisuse'
  BY <1>7 DEF NewDisplay, Reusable, pictureVars, objectVars
<1>8. ASSUME NEW t \in Target, RemoveDisplay(t) PROVE OnlyOldHandlersMisuse'
  BY <1>8 DEF RemoveDisplay, Delete, Connected, Misused, pictureVars, objectVars
<1>9. ASSUME NEW t \in Target, DeliverChanged(t) PROVE OnlyOldHandlersMisuse'
  BY <1>9 DEF DeliverChanged, pictureVars, objectVars
<1>10. ASSUME NEW t \in Target, DeliverDestroyed(t) PROVE OnlyOldHandlersMisuse'
  BY <1>10 DEF DeliverDestroyed, pictureVars, objectVars
<1>11. ASSUME NEW t \in Target, Render(t) PROVE OnlyOldHandlersMisuse'
  BY <1>11 DEF Render, Misused, Idle, pictureVars, objectVars
<1>12. ASSUME NEW t \in Target, HandleInput(t) PROVE OnlyOldHandlersMisuse'
  BY <1>12 DEF HandleInput, Misused, pictureVars, objectVars
<1>13. ASSUME NEW t \in Target, HandleResize(t) PROVE OnlyOldHandlersMisuse'
  BY <1>13 DEF HandleResize, pictureVars, objectVars
<1>14. CASE Draw
  BY <1>14 DEF Draw, Misused, Idle, pictureVars, objectVars
<1>15. ASSUME NEW h \in call.todo, ResizeAdapter(h) PROVE OnlyOldHandlersMisuse'
  BY <1>15 DEF ResizeAdapter, HandleSceneChanged, Notify, Connected, Misused, Idle, pictureVars,
               objectVars
<1>16. CASE UNCHANGED adaptersVars
  BY <1>16 DEF adaptersVars, pictureVars, objectVars
<1> QED
  BY <1>1, <1>2, <1>3, <1>4, <1>5, <1>6, <1>7, <1>8, <1>9, <1>10, <1>11, <1>12, <1>13,
             <1>14, <1>15, <1>16 DEF AdaptersNext, Main

\* The inductive invariant holds throughout.
LEMMA AdaptersInvHolds == AdaptersSpec => []AdaptersInv
<1>1. AdaptersInit => AdaptersInv
  <2> SUFFICES ASSUME AdaptersInit PROVE AdaptersInv
    OBVIOUS
  <2> USE AdaptersAssumption DEF AdaptersInit, Idle
  <2>1. AdaptersTypeOK
    <3>1. /\ scene \in 1..MaxVersion /\ resizes \in 0..MaxResizes
          /\ buffer \in [Adapter -> 0..MaxVersion] /\ view \in [Target -> 0..MaxVersion]
      OBVIOUS
    <3>2. call \in [op : {"idle", "wait", "draw", "resize"}, target : Target \cup {NULL},
                   todo : SUBSET [target : Target, adapter : Adapter]]
      OBVIOUS
    <3>3. /\ life \in [Adapter -> {"unborn", "alive", "doomed", "deleted"}]
          /\ updateRequired \in [Adapter -> BOOLEAN]
          /\ display \in [Target -> Adapter \cup {NULL}]
          /\ renderer \in [Target -> Adapter \cup {NULL}]
      OBVIOUS
    <3>4. /\ changed \in [Target -> BOOLEAN] /\ destroyed \in [Target -> BOOLEAN]
          /\ updates \in [Target -> BOOLEAN]
      OBVIOUS
    <3> QED BY <3>1, <3>2, <3>3, <3>4 DEF AdaptersTypeOK
  <2>2. OneAdapter /\ RenderersFollow /\ CallHasRenderer
    BY DEF OneAdapter, RenderersFollow, CallHasRenderer, Exists
  <2>3. PicturesAreNewest /\ OldPictureIsNoted /\ ViewsAreNewest
    BY DEF PicturesAreNewest, OldPictureIsNoted, ViewsAreNewest, Exists
  <2>4. UsedObjectsExist /\ OnlyOldHandlersMisuse
    BY DEF UsedObjectsExist, OnlyOldHandlersMisuse, Exists
  <2> QED BY <2>1, <2>2, <2>3, <2>4 DEF AdaptersInv
<1>2. AdaptersInv /\ [AdaptersNext]_adaptersVars => AdaptersInv'
  BY AdaptersTypeStep, OneAdapterStep, RenderersStep, CallStep, PicturesStep, OldPictureStep,
     ViewsStep, UsedStep, MisuseStep DEF AdaptersInv
<1> QED BY <1>1, <1>2, PTL DEF AdaptersSpec

(* A display that has nothing to do shows the scene as it is, unless the    *)
(* scene last changed while it was rendered (handleSceneChanged against the *)
(* reset of updateRequired_ in updateBuffer).                               *)
THEOREM PicturesCatchUp == AdaptersSpec => []PictureCatchesUp
<1>1. AdaptersInv => PictureCatchesUp
  BY DEF AdaptersInv, ViewsAreNewest, PictureCatchesUp
<1> QED BY <1>1, AdaptersInvHolds, PTL

(* While the item lives, and no display lost its adapter to another one,    *)
(* nothing deleted is used but by handlers of resize() that were left       *)
(* behind (tearDownAdapter and the handlers made by getAdapterForItem).     *)
THEOREM OnlyOldHandlersMisuseAdapters == AdaptersSpec => []OnlyOldHandlersMisuse
<1>1. AdaptersInv => OnlyOldHandlersMisuse
  BY DEF AdaptersInv
<1> QED BY <1>1, AdaptersInvHolds, PTL
=============================================================================
