------------------------------ MODULE SimWindow ------------------------------
(***************************************************************************)
(* The live device window (peripherals/display/sim_window.cpp): mouse and  *)
(* keyboard events on one side, the input bus the firmware reads on the    *)
(* other.  A tick handles the events that wait, one by one, and then looks *)
(* whether the power key has been held for long.  The mouse and every key  *)
(* may be held at the same time, and an overlay (the help card, the        *)
(* hardware panel) may open while they are.                                *)
(*                                                                         *)
(* Time is one bit, whether 1.5 s have gone since the power key went down. *)
(* Drawing is left out, except for which nubs are drawn as active.         *)
(***************************************************************************)
EXTENDS WindowLayout

CONSTANTS Boards,    \* the boards a window is opened for
          Scales,    \* the scales
          MaxEdges   \* nobody presses the power key after so many edges

\* core/target.h, as far as the window reads it
SimButton == [action : {"primary", "secondary", "pwr", "gpio"}, gpio : Int, key : STRING,
              edge : {"left", "right", "top", "bottom"}, pos : Int, activeLow : BOOLEAN]
BoardDesc == [width : Nat \ {0}, height : Nat \ {0}, rotation : BOOLEAN, battery : BOOLEAN,
              buttons : Seq(SimButton)]

ASSUME WindowConstants ==
  /\ Boards \subseteq BoardDesc
  /\ Scales \subseteq Nat \ {0}
  /\ MaxEdges \in Nat
  /\ \A b \in Boards :
       Cardinality({i \in Shown(b) : b.buttons[i].action = "pwr"}) <= 1

VARIABLES
  board, scale, layout,           \* fixed when the window opens
  mouseDown, keysDown,            \* what the user holds down
  open,                           \* the window has not been closed
  touching, mouseHeld, keyHeld,   \* holds: mouseHeld is 0 for none, keyHeld a set
  longDue, pwrLongSent,           \* 1.5 s since pwr_down_at; pwr_long_sent
  batDragging, helpOpen, panelOpen,
  touch,                          \* sim_input(): touch_pressed, touch_x, touch_y
  button, pins,                   \* its buttons that are pressed; the GPIO levels
  pwrEvents,
  battery, charging, vbus, quadrant

fixed == <<board, scale, layout>>
hands == <<mouseDown, keysDown>>
holds == <<touching, mouseHeld, keyHeld>>
power == <<longDue, pwrLongSent>>
overlays == <<helpOpen, panelOpen>>
lines == <<button, pins, pwrEvents>>
hardware == <<battery, charging, vbus, quadrant>>
vars == <<fixed, hands, open, holds, power, batDragging, overlays, touch, lines, hardware>>

Nubs == Shown(board)
KeyOf(k) == {i \in Nubs : board.buttons[i].key = k}
PinsOf(b) == {b.buttons[i].gpio : i \in {j \in DOMAIN b.buttons : b.buttons[j].action = "gpio"}}

\* sim_button_gpio_level
GpioLevel(b, pressed) == IF b.activeLow = pressed THEN 0 ELSE 1

HeldBy(i) == mouseHeld = i \/ i \in keyHeld
PwrIsHeld == \E i \in Nubs : board.buttons[i].action = "pwr" /\ HeldBy(i)

\* is_active, for a button that is a line of the bus
IsActive(i) ==
  LET b == board.buttons[i]
  IN IF b.action = "gpio" THEN pins[b.gpio] = GpioLevel(b, TRUE) ELSE b.action \in button

TypeOK ==
  /\ board \in Boards /\ scale \in Scales
  /\ mouseHeld \in Nubs \cup {0} /\ keyHeld \subseteq Nubs
  /\ touch \in [pressed : BOOLEAN, x : 0 .. board.width - 1, y : 0 .. board.height - 1]
  /\ button \subseteq {"primary", "secondary"} /\ pins \in [PinsOf(board) -> {0, 1}]
  /\ pwrEvents \in Seq(1 .. 3) /\ battery \in 0 .. 100 /\ quadrant \in 0 .. 3

\* A window on a board just booted, its pins idle, before any event.
Fresh ==
  /\ board \in Boards /\ scale \in Scales /\ layout = Layout(board, scale)
  /\ mouseDown = FALSE /\ keysDown = {}
  /\ touching = FALSE /\ mouseHeld = 0 /\ keyHeld = {}
  /\ longDue = FALSE /\ pwrLongSent = FALSE
  /\ batDragging = FALSE /\ helpOpen = FALSE /\ panelOpen = FALSE
  /\ touch = [pressed |-> FALSE, x |-> 0, y |-> 0]
  /\ button = {} /\ pwrEvents = <<>>
  /\ pins = [p \in PinsOf(board) |->
               GpioLevel(CHOOSE b \in {board.buttons[i] : i \in DOMAIN board.buttons} :
                           b.action = "gpio" /\ b.gpio = p, FALSE)]
  /\ battery = 75 /\ charging = FALSE /\ vbus = TRUE /\ quadrant = 0

Init == Fresh /\ open = TRUE
-----------------------------------------------------------------------------
Having(B, action) == {i \in B : board.buttons[i].action = action}

\* The levels of the pins once the buttons B are pressed or released.
Driven(B, pressed) ==
  [p \in DOMAIN pins |->
     LET on == {i \in Having(B, "gpio") : board.buttons[i].gpio = p}
     IN IF on = {} THEN pins[p] ELSE GpioLevel(board.buttons[CHOOSE i \in on : TRUE], pressed)]

\* press_action of each button of B
Press(B) ==
  /\ button' = button \cup ({board.buttons[i].action : i \in B} \cap {"primary", "secondary"})
  /\ pins' = Driven(B, TRUE)
  /\ IF Having(B, "pwr") = {} THEN UNCHANGED power
     ELSE Len(pwrEvents) < MaxEdges /\ longDue' = FALSE /\ pwrLongSent' = FALSE
  /\ UNCHANGED pwrEvents

\* release_action of each button of B
Release(B) ==
  /\ button' = button \ {board.buttons[i].action : i \in B}
  /\ pins' = Driven(B, FALSE)
  /\ pwrEvents' = pwrEvents \o [i \in 1 .. Cardinality(Having(B, "pwr")) |->
                                  IF pwrLongSent THEN 3 ELSE 1]
  /\ UNCHANGED power

\* A faulty ReleaseAllHolds: a touch stays down under the overlay.
ReleaseButtonsOnly ==
  /\ mouseHeld' = 0 /\ keyHeld' = {}
  /\ Release({i \in Nubs : HeldBy(i)})
  /\ batDragging' = FALSE /\ UNCHANGED <<touching, touch>>

\* release_all_holds
ReleaseAllHolds ==
  /\ mouseHeld' = 0 /\ keyHeld' = {}
  /\ Release({i \in Nubs : HeldBy(i)})
  /\ touching' = FALSE
  /\ touch' = [touch EXCEPT !.pressed = @ /\ ~touching]
  /\ batDragging' = FALSE

OpenHelp == helpOpen' = TRUE /\ panelOpen' = FALSE /\ ReleaseAllHolds
OpenPanel == panelOpen' = TRUE /\ helpOpen' = FALSE /\ ReleaseAllHolds

ClosePanel ==
  /\ panelOpen' = FALSE /\ batDragging' = FALSE
  /\ UNCHANGED <<helpOpen, holds, power, touch, lines>>

CloseHelp ==
  helpOpen' = FALSE /\ UNCHANGED <<panelOpen, batDragging, holds, power, touch, lines>>

\* A faulty SetTouch: the mouse leaves the screen, and the touch follows it.
SetTouchUnclamped(p) ==
  touch' = [pressed |-> TRUE, x |-> (p.x - layout.screen.x) \div scale,
            y |-> (p.y - layout.screen.y) \div scale]

\* set_touch: the pixel under the mouse, or the nearest one
SetTouch(p) ==
  touch' = [pressed |-> TRUE,
            x |-> Clamp((p.x - layout.screen.x) \div scale, 0, board.width - 1),
            y |-> Clamp((p.y - layout.screen.y) \div scale, 0, board.height - 1)]

TheCard == PanelCard(layout)
ThePanel == Panel(layout, board.battery, board.rotation)

\* set_battery_from_x
SetBattery(p) ==
  LET span == ThePanel.bar.w - 4
  IN battery' = IF span > 0 THEN Clamp(((p.x - (ThePanel.bar.x + 2)) * 100) \div span, 0, 100)
                ELSE 0
-----------------------------------------------------------------------------
(***************************************************************************)
(* The mouse button goes down at p.                                        *)
(***************************************************************************)
HasPanel == board.battery \/ board.rotation
OnMore(p) == HasPanel /\ Contains(layout.more, p)

MouseGoesDown ==
  open /\ ~mouseDown /\ mouseDown' = TRUE /\ UNCHANGED <<fixed, keysDown, open>>

ClickMore(p) ==
  /\ MouseGoesDown /\ OnMore(p)
  /\ IF panelOpen THEN ClosePanel ELSE OpenPanel
  /\ UNCHANGED hardware

DismissHelp(p) ==
  MouseGoesDown /\ ~OnMore(p) /\ helpOpen /\ CloseHelp /\ UNCHANGED hardware

ClickPanel(p) ==
  /\ MouseGoesDown /\ ~OnMore(p) /\ ~helpOpen /\ panelOpen /\ Contains(TheCard, p)
  /\ \/ /\ Contains(ThePanel.bar, p)
        /\ batDragging' = TRUE /\ SetBattery(p) /\ UNCHANGED <<charging, vbus, quadrant>>
     \/ /\ Contains(ThePanel.chg, p)
        /\ charging' = ~charging /\ UNCHANGED <<batDragging, battery, vbus, quadrant>>
     \/ /\ Contains(ThePanel.usb, p)
        /\ vbus' = ~vbus /\ UNCHANGED <<batDragging, battery, charging, quadrant>>
     \/ /\ Contains(ThePanel.rot, p)
        /\ quadrant' = (quadrant + 1) % 4 /\ UNCHANGED <<batDragging, battery, charging, vbus>>
     \/ /\ \A c \in {"bar", "chg", "usb", "rot"} : ~Contains(ThePanel[c], p)
        /\ UNCHANGED <<batDragging, hardware>>
  /\ UNCHANGED <<overlays, holds, power, touch, lines>>

ClickOutside(p) ==
  /\ MouseGoesDown /\ ~OnMore(p) /\ ~helpOpen /\ panelOpen /\ ~Contains(TheCard, p)
  /\ ClosePanel /\ UNCHANGED hardware

OnDevice(p) == MouseGoesDown /\ ~OnMore(p) /\ ~helpOpen /\ ~panelOpen

TouchScreen(p) ==
  /\ OnDevice(p) /\ Contains(layout.screen, p)
  /\ touching' = TRUE /\ SetTouch(p)
  /\ UNCHANGED <<mouseHeld, keyHeld, power, batDragging, overlays, lines, hardware>>

\* The first nub under the mouse takes the click.
HitNubs(p) == IF Contains(layout.screen, p) THEN {}
              ELSE {i \in Nubs : Contains(layout.hits[i], p)}

PressNub(p) ==
  /\ OnDevice(p)
  /\ \E i \in HitNubs(p) :
       /\ \A j \in HitNubs(p) : i <= j
       /\ Press({i}) /\ mouseHeld' = i
  /\ UNCHANGED <<touching, keyHeld, batDragging, overlays, touch, hardware>>

ClickBezel(p) ==
  /\ OnDevice(p) /\ ~Contains(layout.screen, p) /\ HitNubs(p) = {}
  /\ UNCHANGED <<holds, power, batDragging, overlays, touch, lines, hardware>>

MouseUp ==
  /\ open /\ mouseDown /\ mouseDown' = FALSE
  /\ touching' = FALSE /\ touch' = [touch EXCEPT !.pressed = @ /\ ~touching]
  /\ batDragging' = FALSE
  /\ mouseHeld' = 0 /\ Release({mouseHeld} \ (keyHeld \cup {0}))
  /\ UNCHANGED <<fixed, keysDown, open, keyHeld, overlays, hardware>>

MouseMove(p) ==
  /\ open
  /\ \/ touching /\ SetTouch(p) /\ UNCHANGED hardware
     \/ /\ ~touching /\ batDragging /\ SetBattery(p)
        /\ UNCHANGED <<touch, charging, vbus, quadrant>>
  /\ UNCHANGED <<fixed, hands, open, holds, power, batDragging, overlays, lines>>
-----------------------------------------------------------------------------
(***************************************************************************)
(* The keyboard.  A key of an overlay shadows a button with the same key;  *)
(* how long it is held matters to nothing, so keysDown leaves it out.      *)
(***************************************************************************)
OverlayKeys == {"escape", "backtick", "slash", "h"}

OverlayKey == open /\ UNCHANGED <<fixed, hands, hardware>>

\* Escape, or its repeat while it is held
Escape ==
  /\ OverlayKey
  /\ \/ helpOpen /\ CloseHelp /\ UNCHANGED open
     \/ ~helpOpen /\ panelOpen /\ ClosePanel /\ UNCHANGED open
     \/ /\ ~helpOpen /\ ~panelOpen /\ open' = FALSE
        /\ UNCHANGED <<batDragging, overlays, holds, power, touch, lines>>

Backtick ==
  /\ OverlayKey /\ HasPanel /\ UNCHANGED open
  /\ IF panelOpen THEN ClosePanel ELSE OpenPanel

HelpKey ==
  /\ OverlayKey /\ UNCHANGED open
  /\ IF helpOpen THEN CloseHelp ELSE OpenHelp

ButtonKey(k) ==
  /\ open /\ k \notin OverlayKeys \cup keysDown /\ keysDown' = keysDown \cup {k}
  /\ IF helpOpen \/ panelOpen THEN UNCHANGED <<keyHeld, power, lines>>
     ELSE keyHeld' = keyHeld \cup KeyOf(k) /\ Press(KeyOf(k))
  /\ UNCHANGED <<fixed, mouseDown, open, touching, mouseHeld, batDragging, overlays, touch,
                 hardware>>

\* A faulty KeyUp: a key releases its button though an overlay has done so already.
KeyUpAlways(k) ==
  /\ open /\ k \in keysDown /\ keysDown' = keysDown \ {k}
  /\ keyHeld' = keyHeld \ KeyOf(k) /\ Release(KeyOf(k) \ {mouseHeld})
  /\ UNCHANGED <<fixed, mouseDown, open, touching, mouseHeld, batDragging, overlays, touch,
                 hardware>>

KeyUp(k) ==
  /\ open /\ k \in keysDown /\ keysDown' = keysDown \ {k}
  /\ keyHeld' = keyHeld \ KeyOf(k)
  /\ Release((keyHeld \cap KeyOf(k)) \ {mouseHeld})
  /\ UNCHANGED <<fixed, mouseDown, open, touching, mouseHeld, batDragging, overlays, touch,
                 hardware>>

CloseWindow ==
  /\ open /\ open' = FALSE
  /\ UNCHANGED <<fixed, hands, holds, power, batDragging, overlays, touch, lines, hardware>>
-----------------------------------------------------------------------------
(***************************************************************************)
(* The end of a tick, and the time between two of them.                    *)
(***************************************************************************)
HoldOn ==
  /\ open /\ PwrIsHeld /\ ~longDue /\ longDue' = TRUE
  /\ UNCHANGED <<fixed, hands, open, holds, pwrLongSent, batDragging, overlays, touch, lines,
                 hardware>>

LongPress ==
  /\ open /\ PwrIsHeld /\ ~pwrLongSent /\ longDue
  /\ pwrEvents' = Append(pwrEvents, 2) /\ pwrLongSent' = TRUE
  /\ UNCHANGED <<fixed, hands, open, holds, longDue, batDragging, overlays, touch, button, pins,
                 hardware>>

\* Where the mouse may be: the middle of everything, two corners of the
\* screen, and a corner of the window.
Center(r) == [x |-> r.x + r.w \div 2, y |-> r.y + r.h \div 2]
Points ==
  LET rects == {layout.screen, layout.more, TheCard}
                 \cup {layout.hits[i] : i \in Nubs} \cup {ThePanel[c] : c \in DOMAIN ThePanel}
      s == layout.screen
  IN {Center(r) : r \in rects \ {NoRect}}
       \cup {[x |-> s.x, y |-> s.y], [x |-> s.x + s.w - 1, y |-> s.y + s.h - 1],
             [x |-> 0, y |-> 0]}

ButtonKeys == {board.buttons[i].key : i \in Nubs} \ {"none"}

MouseClick(p) ==
  \/ ClickMore(p) \/ DismissHelp(p) \/ ClickPanel(p) \/ ClickOutside(p)
  \/ TouchScreen(p) \/ PressNub(p) \/ ClickBezel(p)

Next ==
  \/ \E p \in Points : MouseClick(p) \/ MouseMove(p)
  \/ \E k \in ButtonKeys : ButtonKey(k)
  \/ \E k \in keysDown : KeyUp(k)
  \/ MouseUp \/ Escape \/ Backtick \/ HelpKey \/ CloseWindow \/ HoldOn \/ LongPress

Spec == Init /\ [][Next]_vars
-----------------------------------------------------------------------------
\* Two buttons of the board, shown or not, never drive the same line.
OwnLines ==
  \A i, j \in DOMAIN board.buttons : i # j =>
    LET a == board.buttons[i]
        b == board.buttons[j]
    IN a.action # b.action \/ (a.action = "gpio" /\ a.gpio # b.gpio)

\* A button is pressed on the bus, and drawn as active, exactly as long as the
\* mouse or a key holds it, and what holds it is really held down by the user;
\* the screen is touched only under the mouse button.  Under an overlay, of
\* which there is one at most, nothing is held, however it came to open
\* (release_all_holds and the releases that come after it).
HoldsAreReal ==
  /\ OwnLines => \A i \in Nubs : board.buttons[i].action # "pwr" => (IsActive(i) <=> HeldBy(i))
  /\ (mouseHeld # 0 \/ touching \/ batDragging) => mouseDown
  /\ \A i \in keyHeld : board.buttons[i].key \in keysDown
  /\ touch.pressed <=> touching
  /\ helpOpen \/ panelOpen => mouseHeld = 0 /\ keyHeld = {} /\ ~touching
  /\ ~(helpOpen /\ panelOpen)
  /\ batDragging => panelOpen

\* Whatever the board, its stacked nubs can be told apart where the edge has the
\* room, they stay clear of the "..." nub and of the screen, the mouse reaches
\* all of each nub, and the panel and the help card fit the window and the
\* controls the panel (window_layout.h).
LayoutSound == Sound(board, layout)

\* Inductive: a click lands in the layout of this board at this scale, and what
\* holds a line is read off the two holds.
IInv == TypeOK /\ layout = Layout(board, scale) /\ HoldsAreReal

\* The power key reports what a PMU would: the refinement mapping.
Power == INSTANCE PowerKey WITH
           key <- IF ~PwrIsHeld THEN "up" ELSE IF pwrLongSent THEN "long" ELSE "down",
           edges <- pwrEvents
PowerSpec == Power!Spec
=============================================================================
