------------------------------- MODULE GuestInput -------------------------------
(***************************************************************************)
(* Input on its way through the guest: the agent task                      *)
(* (tools/qemu/esprite_qemu_agent) writes injected state, the firmware     *)
(* reads it word by word, and a frame it draws blocks it until the host    *)
(* captures the display.  The host is one thread: it captures between its  *)
(* requests.  The firmware is one of the two fixtures: the loop of         *)
(* rgb_demo, which looks at counters and has an HTTP server, or the UI     *)
(* task of lvgl_demo, whose touch driver (esp_lcd_touch_esprite) looks at  *)
(* the finger itself.                                                      *)
(*                                                                         *)
(* The fixtures are built for the single-core esp32c3.  The agent task and *)
(* the HTTP server task have a higher priority than the reader, so each    *)
(* may run between any two of its reads, and what one of them does up to   *)
(* its next delay is one step for the reader.  The transport is left to    *)
(* AgentLink: here every request is delivered.                             *)
(***************************************************************************)
EXTENDS Naturals

CONSTANTS MaxRequests,  \* most requests the host makes
          Points,       \* touch coordinates, the same number for x and for y
          Colors        \* marker colors a snapshot sets

ASSUME InputConstants ==
  /\ MaxRequests \in Nat
  /\ Points \subseteq Nat \ {0}
  /\ Colors \subseteq Nat \ {0}

Requests ==
  [op : {"press", "unpress", "pulse", "release"}, arg : {0}]
    \cup [op : {"touch", "tap"}, arg : Points]
    \cup [op : {"snapshot"}, arg : Colors]
NoRequest == [op |-> "none", arg |-> 0]

VARIABLES
  firmware,                   \* the fixture that runs: "rgb" or "lvgl"
  request,                    \* the host's request in progress
  made,                       \* requests made
  presses,                    \* button presses reported to the host as done
  posted,                     \* the color of the last snapshot reported as done
  shown,                      \* the frame the host captured last
  handler,                    \* how far the task that serves the request is
  held, touchX, touchY,       \* s_touch_held, s_touch_x, s_touch_y
  touchEvents,                \* s_touch_events
  level, gpioEvents,          \* s_gpio_level and s_gpio_events of BTN_PIN
  markerColor, markerEvents,  \* g_marker_color, g_marker_events
  loop,                       \* the step the reader is at
  dirty, drawnOnce, inv, eventsSeen, tx, ty, touchSeen, square,
  markerSeen, marker,         \* its locals, sq_x and sq_y being square
  pressed                     \* the state of the input device of LVGL; its point
                              \* is square, and inv the screen that is shown

host == <<firmware, request, made, presses, posted, shown>>
touch == <<held, touchX, touchY, touchEvents>>
injected == <<touch, level, gpioEvents, markerColor, markerEvents>>
locals == <<dirty, drawnOnce, inv, eventsSeen, tx, ty, touchSeen, square,
            markerSeen, marker, pressed>>
vars == <<host, handler, injected, loop, locals>>

Frame == [inv : {0, 1}, square : (Points \cup {0}) \X (Points \cup {0}),
          marker : Colors \cup {0}, pressed : {0, 1}]

TypeOK ==
  /\ request \in Requests \cup {NoRequest}
  /\ {made, presses, touchEvents, gpioEvents, markerEvents} \subseteq 0 .. MaxRequests
  /\ eventsSeen \in 0 .. gpioEvents
  /\ touchSeen \in 0 .. touchEvents
  /\ markerSeen \in 0 .. markerEvents
  /\ {posted, markerColor, marker} \subseteq Colors \cup {0}
  /\ shown \in Frame
  /\ handler \in {"idle", "pulsing", "tapping"}
  /\ firmware \in {"rgb", "lvgl"}
  /\ {held, level, dirty, drawnOnce, inv, pressed} \subseteq {0, 1}
  /\ {touchX, touchY, tx, ty} \subseteq Points \cup {0}
  /\ square \in (Points \cup {0}) \X (Points \cup {0})
  /\ loop \in {"gpio", "touch x", "touch y", "touch count", "marker", "marker seen",
               "marker color", "held", "held x", "held y", "button", "draw", "blocked"}

\* Where the reader begins to look at what was injected.
Begin == IF firmware = "rgb" THEN "gpio" ELSE "held"

\* What the reader would draw.
Drawn == [inv |-> inv, square |-> square, marker |-> marker, pressed |-> pressed]

\* The level is 1 for "never injected" too: a first write of 0 counts.
Init ==
  /\ firmware \in {"rgb", "lvgl"}
  /\ request = NoRequest
  /\ made = 0 /\ presses = 0 /\ posted = 0
  /\ shown = [inv |-> 0, square |-> <<0, 0>>, marker |-> 0, pressed |-> 0]
  /\ handler = "idle"
  /\ held = 0 /\ touchX = 0 /\ touchY = 0 /\ touchEvents = 0
  /\ level = 1 /\ gpioEvents = 0
  /\ markerColor = 0 /\ markerEvents = 0
  /\ loop = Begin
  /\ dirty = 0 /\ drawnOnce = 0 /\ inv = 0 /\ eventsSeen = 0
  /\ tx = 0 /\ ty = 0 /\ touchSeen = 0 /\ square = <<0, 0>>
  /\ markerSeen = 0 /\ marker = 0 /\ pressed = 0

--------------------------------------------------------------------------------
(* The host.                                                               *)

Request(r) ==
  /\ request = NoRequest
  /\ made < MaxRequests
  /\ r.op = "snapshot" => firmware = "rgb"
  /\ request' = r
  /\ made' = made + 1
  /\ UNCHANGED <<firmware, presses, posted, shown, handler, injected, loop, locals>>

\* A capture takes the frame of a blocked draw, which then returns.
Capture ==
  /\ request = NoRequest
  /\ loop = "blocked"
  /\ shown' = Drawn
  /\ loop' = Begin
  /\ UNCHANGED <<firmware, request, made, presses, posted, handler, injected, locals>>

--------------------------------------------------------------------------------
(* handle_line in the agent task.                                          *)

\* The reply, by which the host learns that the button was pressed or not.
Reply(press) ==
  /\ handler' = "idle"
  /\ request' = NoRequest
  /\ presses' = presses + press
  /\ UNCHANGED <<firmware, made, posted, shown, loop, locals>>

\* gpio <pin> 0 is a press unless the level is 0 already; gpio <pin> 1 is none.
WriteGpio ==
  LET new == IF request.op = "press" THEN 0 ELSE 1
      press == IF new = 0 /\ level # 0 THEN 1 ELSE 0
  IN /\ request.op \in {"press", "unpress"}
     /\ gpioEvents' = gpioEvents + press
     /\ level' = new
     /\ Reply(press)
     /\ UNCHANGED <<touch, markerColor, markerEvents>>

\* pulse <pin> 0 <ms>: the press is counted when it is over.
PulseBegins ==
  /\ request.op = "pulse"
  /\ handler = "idle"
  /\ level' = 0
  /\ handler' = "pulsing"
  /\ UNCHANGED <<host, touch, gpioEvents, markerColor, markerEvents, loop, locals>>

\* A faulty PulseEnds: the level goes up again, nothing is counted.
PulseEndsUncounted ==
  /\ handler = "pulsing"
  /\ level' = 1
  /\ Reply(1)
  /\ UNCHANGED <<touch, gpioEvents, markerColor, markerEvents>>

PulseEnds ==
  /\ handler = "pulsing"
  /\ level' = 1
  /\ gpioEvents' = gpioEvents + 1
  /\ Reply(1)
  /\ UNCHANGED <<touch, markerColor, markerEvents>>

\* touch and tap store x, y, the press and its count.
StoreTouch ==
  /\ touchX' = request.arg
  /\ touchY' = request.arg
  /\ held' = 1
  /\ touchEvents' = touchEvents + 1
  /\ UNCHANGED <<level, gpioEvents, markerColor, markerEvents>>

Touch ==
  /\ request.op = "touch"
  /\ StoreTouch
  /\ Reply(0)

TapBegins ==
  /\ request.op = "tap"
  /\ handler = "idle"
  /\ StoreTouch
  /\ handler' = "tapping"
  /\ UNCHANGED <<host, loop, locals>>

TapEnds ==
  /\ handler = "tapping"
  /\ held' = 0
  /\ Reply(0)
  /\ UNCHANGED <<touchX, touchY, touchEvents, level, gpioEvents, markerColor,
                 markerEvents>>

Release ==
  /\ request.op = "release"
  /\ held' = 0
  /\ Reply(0)
  /\ UNCHANGED <<touchX, touchY, touchEvents, level, gpioEvents, markerColor,
                 markerEvents>>

\* snapshot_post in the HTTP server task.
PostSnapshot ==
  /\ request.op = "snapshot"
  /\ markerColor' = request.arg
  /\ markerEvents' = markerEvents + 1
  /\ request' = NoRequest
  /\ posted' = request.arg
  /\ UNCHANGED <<firmware, made, presses, shown, handler, touch, level, gpioEvents, loop,
                 locals>>

--------------------------------------------------------------------------------
(* The polling loop of rgb_demo, one read of injected state per step.      *)

\* Faulty variants of PollGpio: the parity is not taken; any number of new
\* presses inverts once.
PollGpioUnmasked ==
  /\ loop = "gpio"
  /\ inv' = inv + gpioEvents - eventsSeen
  /\ eventsSeen' = gpioEvents
  /\ dirty' = IF gpioEvents # eventsSeen THEN 1 ELSE 0
  /\ loop' = "touch x"
  /\ UNCHANGED <<host, handler, injected, drawnOnce, tx, ty, touchSeen, square,
                 markerSeen, marker, pressed>>

PollGpioOnce ==
  /\ loop = "gpio"
  /\ inv' = IF gpioEvents # eventsSeen THEN 1 - inv ELSE inv
  /\ eventsSeen' = gpioEvents
  /\ dirty' = IF gpioEvents # eventsSeen THEN 1 ELSE 0
  /\ loop' = "touch x"
  /\ UNCHANGED <<host, handler, injected, drawnOnce, tx, ty, touchSeen, square,
                 markerSeen, marker, pressed>>

PollGpio ==
  /\ loop = "gpio"
  /\ inv' = (inv + gpioEvents - eventsSeen) % 2
  /\ eventsSeen' = gpioEvents
  /\ dirty' = IF gpioEvents # eventsSeen THEN 1 ELSE 0
  /\ loop' = "touch x"
  /\ UNCHANGED <<host, handler, injected, drawnOnce, tx, ty, touchSeen, square,
                 markerSeen, marker, pressed>>

\* esprite_agent_touch_events: x, then y, then the count.
ReadX ==
  /\ loop = "touch x"
  /\ tx' = touchX
  /\ loop' = "touch y"
  /\ UNCHANGED <<host, handler, injected, dirty, drawnOnce, inv, eventsSeen, ty,
                 touchSeen, square, markerSeen, marker, pressed>>

ReadY ==
  /\ loop = "touch y"
  /\ ty' = touchY
  /\ loop' = "touch count"
  /\ UNCHANGED <<host, handler, injected, dirty, drawnOnce, inv, eventsSeen, tx,
                 touchSeen, square, markerSeen, marker, pressed>>

ReadCount ==
  /\ loop = "touch count"
  /\ touchSeen' = touchEvents
  /\ IF touchEvents # touchSeen
     THEN square' = <<tx, ty>> /\ dirty' = 1
     ELSE UNCHANGED <<square, dirty>>
  /\ loop' = "marker"
  /\ UNCHANGED <<host, handler, injected, drawnOnce, inv, eventsSeen, tx, ty,
                 markerSeen, marker, pressed>>

\* g_marker_events is read twice, to compare and to remember, and only then
\* g_marker_color.
TestMarker ==
  /\ loop = "marker"
  /\ loop' = IF markerEvents # markerSeen THEN "marker seen" ELSE "draw"
  /\ UNCHANGED <<host, handler, injected, locals>>

\* A faulty ReadMarkerCount: the change does not count as one to be drawn.
ReadMarkerCountClean ==
  /\ loop = "marker seen"
  /\ markerSeen' = markerEvents
  /\ loop' = "marker color"
  /\ UNCHANGED <<host, handler, injected, dirty, drawnOnce, inv, eventsSeen, tx, ty,
                 touchSeen, square, marker, pressed>>

ReadMarkerCount ==
  /\ loop = "marker seen"
  /\ markerSeen' = markerEvents
  /\ dirty' = 1
  /\ loop' = "marker color"
  /\ UNCHANGED <<host, handler, injected, drawnOnce, inv, eventsSeen, tx, ty,
                 touchSeen, square, marker, pressed>>

ReadMarkerColor ==
  /\ loop = "marker color"
  /\ marker' = markerColor
  /\ loop' = "draw"
  /\ UNCHANGED <<host, handler, injected, dirty, drawnOnce, inv, eventsSeen, tx, ty,
                 touchSeen, square, markerSeen, pressed>>

\* A frame is drawn when something changed, and once in any case; the flush of
\* lvgl_demo blocks as the draw of rgb_demo does.
Draw ==
  /\ loop = "draw"
  /\ loop' = IF dirty = 1 \/ drawnOnce = 0 THEN "blocked" ELSE Begin
  /\ drawnOnce' = 1
  /\ UNCHANGED <<host, handler, injected, dirty, inv, eventsSeen, tx, ty, touchSeen,
                 square, markerSeen, marker, pressed>>

--------------------------------------------------------------------------------
(* The UI task of lvgl_demo: touch_read_cb through the driver, the timer   *)
(* of the button, and what they changed is drawn.                          *)

\* esprite_agent_touch, which reads x and y only while the finger is down; a
\* finger that is up releases the input device where it was.
ReadHeld ==
  /\ loop = "held"
  /\ \/ held = 1 /\ loop' = "held x" /\ dirty' = 0 /\ UNCHANGED pressed
     \/ held = 0 /\ loop' = "button" /\ dirty' = pressed /\ pressed' = 0
  /\ UNCHANGED <<host, handler, injected, drawnOnce, inv, eventsSeen, tx, ty, touchSeen,
                 square, markerSeen, marker>>

ReadHeldX ==
  /\ loop = "held x"
  /\ tx' = touchX
  /\ loop' = "held y"
  /\ UNCHANGED <<host, handler, injected, dirty, drawnOnce, inv, eventsSeen, ty,
                 touchSeen, square, markerSeen, marker, pressed>>

ReadHeldY ==
  /\ loop = "held y"
  /\ ty' = touchY
  /\ square' = <<tx, touchY>>
  /\ pressed' = 1
  /\ dirty' = IF pressed = 0 \/ square' # square THEN 1 ELSE 0
  /\ loop' = "button"
  /\ UNCHANGED <<host, handler, injected, drawnOnce, inv, eventsSeen, tx, touchSeen,
                 markerSeen, marker>>

\* boot_button_timer_cb: the next screen, once for all the presses since.
PollButton ==
  /\ loop = "button"
  /\ inv' = IF gpioEvents # eventsSeen THEN 1 - inv ELSE inv
  /\ eventsSeen' = gpioEvents
  /\ dirty' = IF gpioEvents # eventsSeen THEN 1 ELSE dirty
  /\ loop' = "draw"
  /\ UNCHANGED <<host, handler, injected, drawnOnce, tx, ty, touchSeen, square,
                 markerSeen, marker, pressed>>

--------------------------------------------------------------------------------
Serve ==
  \/ WriteGpio \/ PulseBegins \/ PulseEnds \/ Touch \/ TapBegins \/ TapEnds
  \/ Release \/ PostSnapshot

Loop ==
  \/ PollGpio \/ ReadX \/ ReadY \/ ReadCount \/ TestMarker \/ ReadMarkerCount
  \/ ReadMarkerColor \/ ReadHeld \/ ReadHeldX \/ ReadHeldY \/ PollButton \/ Draw

Next == (\E r \in Requests : Request(r)) \/ Capture \/ Serve \/ Loop

Spec == Init /\ [][Next]_vars

\* The guest's tasks run, and the host goes on capturing, as the frame loop of
\* serve does; whether it makes another request is up to the user.
FairSpec == Spec /\ WF_vars(Serve) /\ WF_vars(Loop) /\ WF_vars(Capture)

--------------------------------------------------------------------------------
(* Properties.                                                             *)

\* A press the host was told is done is in the counter, pulse and falling
\* write alike, and nothing else is.
PressesCounted ==
  handler = "idle" => gpioEvents = presses

\* What the reader has seen is on the captured frame when it looks again: by
\* the loop of rgb_demo presses by their parity, however many came while a draw
\* blocked it, by lvgl_demo the finger and the screen.
FrameShowsSeen ==
  loop = Begin =>
    /\ shown = Drawn
    /\ firmware = "rgb" => inv = eventsSeen % 2

\* Once the host stops injecting, the captured frame shows where that ended: a
\* draw that blocks delays what is seen.  rgb_demo loses nothing, every press
\* counts and so does the last color posted.  lvgl_demo may miss a tap, and
\* takes several presses for one, but a lone press changes the screen, and the
\* finger is seen as it is, up or down and at its place.
FrameCatchesUp ==
  <>[](IF firmware = "rgb"
       THEN shown.inv = presses % 2 /\ shown.marker = posted
       ELSE /\ presses <= 1 => shown.inv = presses
            /\ shown.pressed = held
            /\ held = 1 => shown.square = <<touchX, touchY>>)

\* "The counter catches every press with its latest coordinates" (rgb_demo.c,
\* and esprite_qemu_agent.h of esprite_agent_touch_events): a loop that has seen
\* every press has its square where the last press was.
SquareFollowsPress ==
  firmware = "rgb" /\ loop = "gpio" /\ handler = "idle" /\ touchSeen = touchEvents =>
    square = <<touchX, touchY>>

--------------------------------------------------------------------------------
(* The inductive invariant.                                                *)

\* A request that has not yet been counted as an event.
Uncounted == IF request = NoRequest \/ handler = "tapping" THEN 0 ELSE 1

\* The host has one request at a time, which one handler serves, and nothing is
\* counted that the host did not ask for.
Accounts ==
  /\ handler = "pulsing" => request.op = "pulse"
  /\ handler = "tapping" => request.op = "tap"
  /\ gpioEvents = presses
  /\ gpioEvents + touchEvents + markerEvents + Uncounted <= made

RgbSteps == {"gpio", "touch x", "touch y", "touch count", "marker", "marker seen",
             "marker color", "draw", "blocked"}
LvglSteps == {"held", "held x", "held y", "button", "draw", "blocked"}

\* What the reader has seen is on the frame, unless it is about to be drawn.
Reader ==
  /\ loop \in (IF firmware = "rgb" THEN RgbSteps ELSE LvglSteps)
  /\ firmware = "rgb" => inv = eventsSeen % 2
  /\ loop = "marker color" => dirty = 1
  /\ loop \in {Begin, "held x", "held y"} => shown = Drawn
  /\ loop # "blocked" => shown = Drawn \/ dirty = 1

IInv == TypeOK /\ Accounts /\ Reader

================================================================================
