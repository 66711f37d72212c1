-------------------------------- MODULE Input --------------------------------
(***************************************************************************)
(* Mouse and keyboard: from the browser to the events of a scene.           *)
(*                                                                          *)
(* The page (src/src/js/DisplayRenderer.js) sends a message for every event *)
(* of the canvas; it knows nothing of what happens outside of it.  The      *)
(* interpreter of a display                                                 *)
(* (src/src/display/graphicsscenedisplaycommandinterpreter.cpp) turns the   *)
(* messages into calls of an adapter, which posts events to a Qt Quick      *)
(* window (src/src/display/adapters/qtquick2adapter.cpp) or to a            *)
(* QGraphicsScene (src/src/display/adapters/qgraphicssceneadapter.cpp).     *)
(*                                                                          *)
(* Messages are handled in order, later than they were sent; any of them    *)
(* may be lost with a connection.  Double clicks are timed by the server.   *)
(* Posted events are handled in order, so the scene's view of the mouse is  *)
(* changed when they are posted.  A graphics scene looks at buttons() of an *)
(* event, too, which has the button of the event even when it is released.  *)
(***************************************************************************)
EXTENDS Naturals, Sequences, FiniteSets

CONSTANTS
    Button,      \* mouse buttons
    Letter,      \* keys that type a character
    Special,     \* keys with a name of their own: arrows, Backspace, ...
    NoButton,    \* Qt::NoButton
    MaxActs,     \* bound: what the user does
    MaxWire      \* bound: messages on their way

ASSUME InputAssumption ==
    /\ NoButton \notin Button /\ Letter \cap Special = {}
    /\ MaxActs \in Nat /\ MaxWire \in Nat

VARIABLES
    \* the user and the page
    pressed,     \* buttons the user holds down
    inside,      \* the pointer is over the canvas
    clicked,     \* the button of the last click in the canvas
    wire,        \* messages on their way
    acts,        \* number of actions of the user
    \* the interpreter
    keyDownKeyCode, keyDownKeyCodeHandled,
    \* the adapter
    adapter,     \* "quick" or "graphics"
    buttonDown, lastButton,
    recent,      \* doubleClickTime_ is valid and within the interval
    \* the scene
    active,      \* the scene is active and has the focus
    held,        \* buttons whose press was posted, and not their release
    stale,       \* the button buttons() of the last event has, though it was
                 \* released, or NoButton
    drag,        \* the last move: its button, what the scene held then, and
                 \* what was disturbed
    double,      \* the last double click, or NoButton
    inPress,     \* the last event of a button was a press
    single,      \* the last release ended a click, not a double click
    arrived,     \* the last characters typed, with their keys
    \* history
    disturbed,   \* buttons of which the server cannot know: see Disturb
    sound,       \* the double click came from two undisturbed clicks
    lastDown,    \* the key of the last keyDown that was handled
    due,         \* what should have arrived
    caps         \* the last character does not have the case its Shift gives

pageVars == <<pressed, inside, clicked, acts>>
keyVars == <<keyDownKeyCode, keyDownKeyCodeHandled, arrived, lastDown, due, caps>>
mouseVars == <<buttonDown, lastButton, recent, held, stale, drag, double, inPress, single, sound>>
vars == <<pageVars, wire, keyVars, adapter, mouseVars, active, disturbed>>

Key == Letter \cup Special
Buttons == Button \cup {NoButton}
Char == [letter : Letter, upper : BOOLEAN]
\* A character with the modifiers of its key event.
Stroke == [letter : Letter, upper : BOOLEAN, shift : BOOLEAN]
Message ==
    [type : {"mouseDown", "mouseUp", "mouseDblClick"}, arg : Button]
    \cup [type : {"mouseMove", "mouseEnter", "mouseExit", "mouseWheel", "contextMenu"},
          arg : {NoButton}]
    \cup [type : {"keyDown", "keyUp"}, arg : Key]
    \cup [type : {"keyPress"}, arg : Stroke] \cup [type : {"text"}, arg : Char]

TypeOK ==
    /\ pressed \in SUBSET Button /\ inside \in BOOLEAN /\ clicked \in Buttons
    /\ wire \in Seq(Message) /\ acts \in 0..MaxActs
    /\ keyDownKeyCode \in Key /\ keyDownKeyCodeHandled \in BOOLEAN
    /\ adapter \in {"quick", "graphics"} /\ buttonDown \in BOOLEAN /\ lastButton \in Buttons
    /\ recent \in BOOLEAN /\ active \in BOOLEAN /\ held \in SUBSET Button /\ stale \in Buttons
    /\ drag \in [button : Buttons, held : SUBSET Button, doubt : SUBSET Button] /\ double \in Buttons
    /\ inPress \in BOOLEAN /\ single \in BOOLEAN
    /\ disturbed \in SUBSET Button /\ sound \in BOOLEAN /\ caps \in BOOLEAN

\* The constructors leave lastButton_ and keyDownKeyCode_ as they find them.
Init ==
    /\ pressed = {} /\ inside = TRUE /\ clicked = NoButton /\ wire = <<>> /\ acts = 0
    /\ keyDownKeyCode \in Key /\ keyDownKeyCodeHandled = FALSE
    /\ adapter \in {"quick", "graphics"} /\ buttonDown = FALSE /\ lastButton \in Buttons
    /\ recent = FALSE /\ active = FALSE /\ held = {} /\ stale = NoButton
    /\ drag = [button |-> NoButton, held |-> {}, doubt |-> {}]
    /\ double = NoButton /\ inPress = FALSE /\ single = FALSE /\ arrived = <<>>
    /\ disturbed = {} /\ sound = TRUE /\ lastDown = {} /\ due = <<>> /\ caps = FALSE

-----------------------------------------------------------------------------
(* The user and the page *)

Msg(t, a) == [type |-> t, arg |-> a]

Act(msgs) ==
    /\ acts < MaxActs /\ acts' = acts + 1
    /\ Len(wire) + Len(msgs) <= MaxWire
    /\ wire' = wire \o msgs

\* What the server is not told of leaves it in doubt about the button.  An
\* adapter knows one button at a time: two confuse it.
Disturb(b) == pressed \cup {b}

\* A press in the canvas.  With nothing else pressed or on its way it is a new
\* start for the button.
PressInside(b) ==
    /\ inside /\ b \notin pressed
    /\ Act(<<Msg("mouseDown", b)>>)
    /\ pressed' = pressed \cup {b}
    /\ disturbed' = IF pressed # {} THEN disturbed \cup Disturb(b)
                    ELSE IF wire = <<>> THEN disturbed \ {b} ELSE disturbed
    /\ UNCHANGED <<inside, clicked, keyVars, adapter, mouseVars, active>>

\* A release in the canvas.  The browser makes two clicks a double click.
ReleaseInside(b) ==
    /\ inside /\ b \in pressed
    /\ \/ Act(<<Msg("mouseUp", b)>>)
       \/ clicked = b /\ Act(<<Msg("mouseUp", b), Msg("mouseDblClick", b)>>)
    /\ pressed' = pressed \ {b} /\ clicked' = b
    /\ UNCHANGED <<inside, keyVars, adapter, mouseVars, active, disturbed>>

ChangeOutside(b) ==
    /\ ~inside /\ Act(<<>>)
    /\ pressed' = IF b \in pressed THEN pressed \ {b} ELSE pressed \cup {b}
    /\ disturbed' = disturbed \cup Disturb(b)
    /\ UNCHANGED <<inside, clicked, keyVars, adapter, mouseVars, active>>

\* The pointer moves in the canvas, enters it or leaves it.
MoveInside ==
    /\ inside /\ Act(<<Msg("mouseMove", NoButton)>>)
    /\ UNCHANGED <<pressed, inside, clicked, keyVars, adapter, mouseVars, active, disturbed>>

Cross ==
    /\ inside' = ~inside
    /\ Act(<<Msg(IF inside THEN "mouseExit" ELSE "mouseEnter", NoButton)>>)
    /\ UNCHANGED <<pressed, clicked, keyVars, adapter, mouseVars, active, disturbed>>

TurnWheelOrAsk ==
    /\ inside /\ \E t \in {"mouseWheel", "contextMenu"} : Act(<<Msg(t, NoButton)>>)
    /\ UNCHANGED <<pressed, inside, clicked, keyVars, adapter, mouseVars, active, disturbed>>

\* A key goes down, repeats, or goes up; a keyboard on the screen sends text.
Type ==
    /\ \/ \E s \in Stroke : Act(<<Msg("keyDown", s.letter), Msg("keyPress", s)>>)
       \/ \E k \in Special : Act(<<Msg("keyDown", k)>>)
       \/ \E k \in Key : Act(<<Msg("keyUp", k)>>)
       \/ \E c \in Char : Act(<<Msg("text", c)>>)
    /\ UNCHANGED <<pressed, inside, clicked, keyVars, adapter, mouseVars, active, disturbed>>

-----------------------------------------------------------------------------
(* The connection *)

Receive(t) == wire # <<>> /\ Head(wire).type = t /\ wire' = Tail(wire)
Arg == Head(wire).arg

Lose ==
    /\ wire # <<>> /\ wire' = Tail(wire)
    /\ disturbed' = IF Arg \in Button THEN disturbed \cup {Arg} ELSE disturbed
    /\ UNCHANGED <<pageVars, keyVars, adapter, mouseVars, active>>

-----------------------------------------------------------------------------
(* handleMouseEvent of the interpreter and of the adapters *)

\* Mutant: moves have no buttons.
MoveWithoutButton == NoButton

\* A move has the button of the last press, or none.  The Qt Quick adapter
\* remembers that too.
MoveButton == IF buttonDown THEN lastButton ELSE NoButton

Move == [button |-> MoveButton, held |-> held, doubt |-> disturbed]

\* A graphics scene takes a move without a button for the end of its grab.
HeldAfterMove == IF adapter = "graphics" /\ ~buttonDown THEN {} ELSE held
StaleAfterMove == IF buttonDown THEN stale ELSE NoButton

HandleMove ==
    /\ Receive("mouseMove")
    /\ drag' = Move
    /\ held' = HeldAfterMove /\ stale' = StaleAfterMove
    /\ lastButton' = IF adapter = "quick" THEN MoveButton ELSE lastButton
    /\ UNCHANGED <<pageVars, keyVars, adapter, buttonDown, recent, double, inPress, single, sound,
                   active, disturbed>>

\* The adapter of graphics scenes posts a move before the press.
HandlePress ==
    /\ Receive("mouseDown")
    /\ drag' = IF adapter = "graphics" THEN Move ELSE drag
    /\ buttonDown' = TRUE /\ lastButton' = Arg
    /\ held' = (IF adapter = "graphics" THEN HeldAfterMove ELSE held) \cup {Arg}
    /\ stale' = IF adapter = "graphics" THEN StaleAfterMove ELSE stale
    /\ inPress' = TRUE
    /\ UNCHANGED <<pageVars, keyVars, adapter, recent, double, single, sound, active, disturbed>>

\* Mutant: the time is not forgotten after a double click.
TimeAfterDoubleClickKept(wasRecent) == TRUE

\* doubleClickTime_ after a release: a click that made a double click does not
\* make another one.
TimeAfterRelease(wasRecent) == ~wasRecent

\* The Qt Quick adapter releases the button it knows, after a double click if
\* the last release was within the interval.  In what a graphics scene is told,
\* the button that was released is still one of the buttons() that are pressed.
ReleaseButton == IF adapter = "quick" THEN lastButton ELSE Arg

HandleRelease ==
    /\ Receive("mouseUp")
    /\ buttonDown' = FALSE
    /\ IF adapter = "quick"
       THEN /\ recent' = TimeAfterRelease(recent)
            /\ double' = IF recent THEN lastButton ELSE double
            /\ sound' = IF recent /\ disturbed = {} THEN inPress /\ single ELSE sound
            /\ single' = ~recent
       ELSE UNCHANGED <<recent, double, single, sound>>
    /\ held' = held \ {ReleaseButton} /\ inPress' = FALSE
    /\ stale' = IF adapter = "graphics" THEN Arg ELSE stale
    /\ UNCHANGED <<pageVars, keyVars, adapter, lastButton, drag, active, disturbed>>

\* The Qt Quick adapter takes no double click from the browser.  A graphics
\* scene takes one for another press of its button, behind the release.
HandleDblClick ==
    /\ Receive("mouseDblClick")
    /\ buttonDown' = FALSE
    /\ double' = IF adapter = "graphics" THEN Arg ELSE double
    /\ stale' = IF adapter = "graphics" THEN Arg ELSE stale
    /\ UNCHANGED <<pageVars, keyVars, adapter, lastButton, recent, held, drag, inPress, single,
                   sound, active, disturbed>>

IntervalPasses ==
    /\ recent /\ recent' = FALSE
    /\ UNCHANGED <<pageVars, wire, keyVars, adapter, buttonDown, lastButton, held, stale, drag, double,
                   inPress, single, sound, active, disturbed>>

\* Graphics scenes become active when the mouse enters.  The rest is passed on.
HandleOther ==
    /\ \E t \in {"mouseEnter", "mouseExit", "mouseWheel", "contextMenu"} :
          /\ Receive(t)
          /\ active' = (active \/ (adapter = "graphics" /\ t = "mouseEnter"))
    /\ UNCHANGED <<pageVars, keyVars, adapter, mouseVars, disturbed>>

-----------------------------------------------------------------------------
(* handleKeyEvent, handleTextEvent *)

\* textForKey: Shift alone decides about the case, Caps Lock does not.
TextForKey(s) == [letter |-> s.letter, upper |-> s.shift]
CharOf(s) == [letter |-> s.letter, upper |-> s.upper]

Typed(k, t) == <<[key |-> k, text |-> t]>>

\* Mutant: the flag is set and never taken back.
HandledCarelessly(k) == keyDownKeyCodeHandled \/ k \in Special

\* Keys that have a name are posted at once, the others with their character.
Handled(k) == k \in Special

HandleKeyDown ==
    /\ Receive("keyDown")
    /\ keyDownKeyCode' = Arg /\ keyDownKeyCodeHandled' = Handled(Arg)
    /\ lastDown' = {Arg}
    /\ UNCHANGED <<pageVars, adapter, arrived, due, caps, mouseVars, active, disturbed>>

\* The key of a character is the one of the last keyDown.
HandleKeyPress ==
    /\ Receive("keyPress")
    /\ arrived' = IF keyDownKeyCodeHandled THEN arrived ELSE Typed(keyDownKeyCode, TextForKey(Arg))
    /\ IF Arg.letter \in lastDown
       THEN due' = Typed(Arg.letter, CharOf(Arg)) /\ caps' = (Arg.upper # Arg.shift)
       ELSE due' = arrived' /\ caps' = FALSE
    /\ UNCHANGED <<pageVars, adapter, keyDownKeyCode, keyDownKeyCodeHandled, lastDown, mouseVars,
                   active, disturbed>>

HandleKeyUp ==
    /\ Receive("keyUp")
    /\ UNCHANGED <<pageVars, keyVars, adapter, mouseVars, active, disturbed>>

\* The key of text is made of its character.
HandleText ==
    /\ Receive("text")
    /\ arrived' = Typed(Arg.letter, Arg) /\ due' = arrived' /\ caps' = FALSE
    /\ UNCHANGED <<pageVars, adapter, keyDownKeyCode, keyDownKeyCodeHandled, lastDown, mouseVars,
                   active, disturbed>>

Next ==
    \/ \E b \in Button : PressInside(b) \/ ReleaseInside(b) \/ ChangeOutside(b)
    \/ MoveInside \/ Cross \/ TurnWheelOrAsk \/ Type \/ Lose
    \/ HandleMove \/ HandlePress \/ HandleRelease \/ HandleDblClick \/ IntervalPasses \/ HandleOther
    \/ HandleKeyDown \/ HandleKeyPress \/ HandleKeyUp \/ HandleText

Spec == Init /\ [][Next]_vars

-----------------------------------------------------------------------------
(* Properties *)

\* What the scene is told is pressed.
SceneHolds == held \cup ({stale} \ {NoButton})

\* A graphics scene is told of a button that was released until the next move,
\* which tells that none is pressed.
Lingers(b) == adapter = "graphics" /\ stale = b /\ MoveButton = NoButton

\* When everything sent was handled, the scene takes the buttons for pressed
\* that the user presses, but for those the server was not told of, and but for
\* one that was released and lingers; a click in the canvas, with nothing else
\* pressed, puts a button right again.  A move has no button the scene does not
\* take for pressed, whatever was lost, and it has one while the scene takes an
\* undisturbed button for pressed.
SceneHoldsWhatUserHolds ==
    /\ TypeOK
    /\ wire = <<>> => \A b \in Button \ disturbed :
                         /\ b \in pressed => b \in held
                         /\ b \in SceneHolds => b \in pressed \/ Lingers(b)
    /\ drag.button # NoButton => drag.button \in drag.held
    /\ adapter = "quick" /\ drag.button = NoButton => drag.held \subseteq drag.doubt

\* Without disturbance a double click comes while a button is pressed, after a
\* click that was not part of another double click.
DoubleClicksAreTwoClicks == sound

Same(s, t) ==
    Len(s) = Len(t) /\ \A i \in DOMAIN s : s[i].key = t[i].key /\ s[i].text.letter = t[i].text.letter

\* A character arrives once it was handled, with the key that typed it, unless
\* the message of its key was lost; and in the case it was typed in, unless
\* that was Caps Lock's.
TypedTextArrives == Same(arrived, due) /\ (~caps => arrived = due)
=============================================================================
