--------------------------- MODULE GuestInput_proofs ---------------------------
(***************************************************************************)
(* Proofs about GuestInput, for every number of requests and every set of  *)
(* points and colors.  That the frame shows what the reader has seen rests *)
(* on what each read leaves to be drawn; that the counters keep to their   *)
(* type, on the host having one request at a time.                         *)
(***************************************************************************)
EXTENDS GuestInput, Integers, TLAPS

USE DEF host, touch, injected, locals

--------------------------------------------------------------------------------
(* The numbers of the state, out of its type.                              *)

LEMMA Numbers ==
  ASSUME TypeOK
  PROVE  /\ made \in 0 .. MaxRequests /\ presses \in 0 .. MaxRequests
         /\ touchEvents \in Nat /\ gpioEvents \in Nat /\ markerEvents \in Nat
         /\ eventsSeen \in Nat /\ touchSeen \in Nat /\ markerSeen \in Nat
<1>1. {made, presses, touchEvents, gpioEvents, markerEvents} \subseteq 0 .. MaxRequests
  BY Zenon DEF TypeOK
<1>2. /\ eventsSeen \in 0 .. gpioEvents
      /\ touchSeen \in 0 .. touchEvents
      /\ markerSeen \in 0 .. markerEvents
  BY Zenon DEF TypeOK
<1>3. QED
  BY <1>1, <1>2, InputConstants

--------------------------------------------------------------------------------
(* The initial state.                                                      *)

LEMMA InitHolds == Init => IInv
<1> SUFFICES ASSUME Init PROVE IInv
  OBVIOUS
<1>1. TypeOK
  <2>1. /\ {made, presses, touchEvents, gpioEvents, markerEvents} \subseteq 0 .. MaxRequests
        /\ eventsSeen \in 0 .. gpioEvents
        /\ touchSeen \in 0 .. touchEvents
        /\ markerSeen \in 0 .. markerEvents
    BY InputConstants DEF Init
  <2>2. /\ request \in Requests \cup {NoRequest}
        /\ shown \in Frame
        /\ square \in (Points \cup {0}) \X (Points \cup {0})
    BY DEF Init, Frame
  <2>3. QED
    BY <2>1, <2>2 DEF Init, TypeOK, Begin
<1>2. Accounts
  BY InputConstants DEF Init, Accounts, Uncounted
<1>3. Reader
  <2>1. shown = Drawn
    BY DEF Init, Drawn
  <2>2. 0 = 0 % 2
    OBVIOUS
  <2>3. QED
    BY <2>1, <2>2 DEF Init, Reader, Begin, RgbSteps, LvglSteps
<1>4. QED
  BY <1>1, <1>2, <1>3 DEF IInv

--------------------------------------------------------------------------------
(* The host and the agent: what a request may be is all they depend on.    *)

LEMMA RequestForms ==
  ASSUME NEW r \in Requests
  PROVE  /\ r # NoRequest
         /\ r.op # "none"
         /\ r.op \in {"touch", "tap"} => r.arg \in Points
         /\ r.op = "snapshot" => r.arg \in Colors
<1>1. NoRequest.op = "none"
  BY DEF NoRequest
<1>2. r.op # "none"
  BY DEF Requests
<1>3. r.op \in {"touch", "tap"} => r.arg \in Points
  BY DEF Requests
<1>4. r.op = "snapshot" => r.arg \in Colors
  BY DEF Requests
<1>5. QED
  BY <1>1, <1>2, <1>3, <1>4

LEMMA HostStep ==
  ASSUME IInv, Capture \/ \E r \in Requests : Request(r)
  PROVE  IInv'
<1>1. CASE Capture
  <2>1. TypeOK'
    BY <1>1 DEF IInv, TypeOK, Capture, Drawn, Frame, Begin
  <2>2. Accounts'
    BY <1>1 DEF IInv, Accounts, Uncounted, Capture, NoRequest
  <2>3. Reader'
    BY <1>1 DEF IInv, Reader, Capture, Drawn, Begin, RgbSteps, LvglSteps
  <2>4. QED
    BY <2>1, <2>2, <2>3 DEF IInv
<1>2. ASSUME NEW r \in Requests, Request(r)
      PROVE  IInv'
  <2>1. TypeOK'
    <3>1. made' \in 0 .. MaxRequests
      BY <1>2, Numbers, InputConstants DEF IInv, Request
    <3>2. request' \in Requests \cup {NoRequest}
      BY <1>2 DEF Request
    <3>3. QED
      BY <1>2, <3>1, <3>2 DEF IInv, TypeOK, Request
  <2>2. Accounts'
    <3>1. request = NoRequest /\ NoRequest.op = "none"
      BY <1>2 DEF Request, NoRequest
    <3>2. handler = "idle"
      BY <3>1 DEF IInv, TypeOK, Accounts
    <3>3. Uncounted' = 1 /\ Uncounted = 0
      BY <1>2, <3>1, <3>2, RequestForms DEF Uncounted, Request
    <3>4. QED
      BY <1>2, <3>2, <3>3, Numbers, InputConstants DEF IInv, Accounts, Request
  <2>3. Reader'
    BY <1>2 DEF IInv, Reader, Request, Drawn, Begin, RgbSteps, LvglSteps
  <2>4. QED
    BY <2>1, <2>2, <2>3 DEF IInv
<1>3. QED
  BY <1>1, <1>2

LEMMA ReaderKept == Reader /\ UNCHANGED <<firmware, shown, loop, locals>> => Reader'
  BY DEF Reader, Drawn, Begin, RgbSteps, LvglSteps

\* None of what is counted together is more than the sum.
LEMMA Summands ==
  ASSUME NEW a \in Nat, NEW b \in Nat, NEW c \in Nat, NEW d \in Nat, NEW most \in Nat,
         a + b + c + d <= most
  PROVE  a <= most /\ b <= most /\ c <= most
  OBVIOUS

LEMMA ServeStep ==
  ASSUME IInv, Serve
  PROVE  IInv'
<1>1. Reader'
  BY ReaderKept
     DEF IInv, Serve, WriteGpio, PulseBegins, PulseEnds, Touch, TapBegins, TapEnds, Release,
         PostSnapshot, Reply
<1>2. request # NoRequest /\ request \in Requests
  <2>1. NoRequest.op = "none"
    BY DEF NoRequest
  <2>2. request.op # "none"
    BY DEF IInv, Accounts, Serve, WriteGpio, PulseBegins, PulseEnds, Touch, TapBegins,
           TapEnds, Release, PostSnapshot
  <2>3. QED
    BY <2>1, <2>2 DEF IInv, TypeOK
<1>3. Accounts'
  <2>1. /\ made \in Nat /\ presses \in Nat /\ touchEvents \in Nat /\ gpioEvents \in Nat
        /\ markerEvents \in Nat
    BY Numbers, InputConstants DEF IInv
  <2>2. /\ handler = "pulsing" => request.op = "pulse"
        /\ handler = "tapping" => request.op = "tap"
        /\ gpioEvents = presses
        /\ gpioEvents + touchEvents + markerEvents
             + (IF handler = "tapping" THEN 0 ELSE 1) <= made
    BY <1>2 DEF IInv, Accounts, Uncounted
  <2>3. CASE WriteGpio
    BY <2>1, <2>2, <2>3 DEF Accounts, Uncounted, WriteGpio, Reply
  <2>4. CASE PulseBegins
    BY <1>2, <2>1, <2>2, <2>4 DEF Accounts, Uncounted, PulseBegins
  <2>5. CASE PulseEnds
    BY <2>1, <2>2, <2>5 DEF Accounts, Uncounted, PulseEnds, Reply
  <2>6. CASE Touch
    BY <2>1, <2>2, <2>6 DEF Accounts, Uncounted, Touch, StoreTouch, Reply
  <2>7. CASE TapBegins
    BY <2>1, <2>2, <2>7 DEF Accounts, Uncounted, TapBegins, StoreTouch
  <2>8. CASE TapEnds
    BY <2>1, <2>2, <2>8 DEF Accounts, Uncounted, TapEnds, Reply
  <2>9. CASE Release
    BY <2>1, <2>2, <2>9 DEF Accounts, Uncounted, Release, Reply
  <2>10. CASE PostSnapshot
    BY <2>1, <2>2, <2>10 DEF Accounts, Uncounted, PostSnapshot
  <2>11. QED
    BY <2>3, <2>4, <2>5, <2>6, <2>7, <2>8, <2>9, <2>10 DEF Serve
<1>4. TypeOK'
  <2>1. /\ made' = made /\ presses' \in Nat
        /\ touchEvents' \in {touchEvents, touchEvents + 1}
        /\ gpioEvents' \in {gpioEvents, gpioEvents + 1}
        /\ markerEvents' \in {markerEvents, markerEvents + 1}
        /\ Uncounted' \in {0, 1}
    <3>1. presses' \in Nat /\ Uncounted' \in {0, 1}
      BY Numbers, InputConstants
         DEF IInv, Serve, WriteGpio, PulseBegins, PulseEnds, Touch, TapBegins, TapEnds,
             Release, PostSnapshot, Reply, Uncounted
    <3>2. gpioEvents' \in {gpioEvents, gpioEvents + 1}
      BY Numbers
         DEF IInv, Serve, WriteGpio, PulseBegins, PulseEnds, Touch, StoreTouch, TapBegins,
             TapEnds, Release, PostSnapshot
    <3>3. QED
      BY <3>1, <3>2
         DEF Serve, WriteGpio, PulseBegins, PulseEnds, Touch, StoreTouch, TapBegins,
             TapEnds, Release, PostSnapshot, Reply
  <2>2. {made', presses', touchEvents', gpioEvents', markerEvents'} \subseteq 0 .. MaxRequests
    <3>1. /\ made' \in 0 .. MaxRequests /\ presses' \in Nat /\ touchEvents' \in Nat
          /\ gpioEvents' \in Nat /\ markerEvents' \in Nat
      BY <2>1, Numbers DEF IInv
    <3>2. /\ gpioEvents' = presses'
          /\ gpioEvents' + touchEvents' + markerEvents' + Uncounted' <= made'
      BY <1>3 DEF Accounts
    <3>3. made' \in Nat /\ Uncounted' \in Nat /\ made' <= MaxRequests
      BY <2>1, <3>1, InputConstants
    <3>4. gpioEvents' <= made' /\ touchEvents' <= made' /\ markerEvents' <= made'
      BY <3>1, <3>2, <3>3, Summands
    <3>5. /\ gpioEvents' \in 0 .. MaxRequests
          /\ touchEvents' \in 0 .. MaxRequests
          /\ markerEvents' \in 0 .. MaxRequests
      BY <3>1, <3>3, <3>4, InputConstants
    <3>6. QED
      BY <3>1, <3>2, <3>5
  <2>3. /\ eventsSeen' \in 0 .. gpioEvents'
        /\ touchSeen' \in 0 .. touchEvents'
        /\ markerSeen' \in 0 .. markerEvents'
    <3>1. UNCHANGED <<eventsSeen, touchSeen, markerSeen>>
      BY DEF Serve, WriteGpio, PulseBegins, PulseEnds, Touch, TapBegins, TapEnds, Release,
             PostSnapshot, Reply
    <3>2. /\ eventsSeen \in 0 .. gpioEvents
          /\ touchSeen \in 0 .. touchEvents
          /\ markerSeen \in 0 .. markerEvents
      BY DEF IInv, TypeOK
    <3>3. QED
      BY <2>1, <3>1, <3>2, Numbers DEF IInv
  <2>4. /\ request' \in Requests \cup {NoRequest}
        /\ handler' \in {"idle", "pulsing", "tapping"}
        /\ {held', level'} \subseteq {0, 1}
        /\ {posted', markerColor', marker'} \subseteq Colors \cup {0}
        /\ {touchX', touchY', tx', ty'} \subseteq Points \cup {0}
    BY <1>2, RequestForms
       DEF IInv, TypeOK, Serve, WriteGpio, PulseBegins, PulseEnds, Touch, StoreTouch,
           TapBegins, TapEnds, Release, PostSnapshot, Reply
  <2>5. UNCHANGED <<firmware, shown, loop, locals>>
    BY DEF Serve, WriteGpio, PulseBegins, PulseEnds, Touch, TapBegins, TapEnds, Release,
           PostSnapshot, Reply
  <2>6. QED
    BY <2>2, <2>3, <2>4, <2>5 DEF IInv, TypeOK
<1>5. QED
  BY <1>1, <1>3, <1>4 DEF IInv

--------------------------------------------------------------------------------
(* The reader: it injects nothing, and what a read changes is drawn.       *)

LEMMA LoopInjectsNothing == Loop => UNCHANGED <<host, handler, injected>>
  BY DEF Loop, PollGpio, ReadX, ReadY, ReadCount, TestMarker, ReadMarkerCount,
         ReadMarkerColor, ReadHeld, ReadHeldX, ReadHeldY, PollButton, Draw

\* The parity of the presses seen is kept when the new ones are added to it.
LEMMA Parity ==
  ASSUME NEW seen \in Nat, NEW events \in Nat, seen <= events
  PROVE  /\ ((seen % 2) + events - seen) % 2 = events % 2
         /\ events % 2 \in {0, 1}
  OBVIOUS

LEMMA NothingNew ==
  ASSUME NEW bit \in {0, 1}, NEW events \in Nat
  PROVE  (bit + events - events) % 2 = bit
  OBVIOUS

LEMMA LoopStep ==
  ASSUME IInv, Loop
  PROVE  IInv'
<1> USE Numbers, InputConstants
<1>1. Accounts'
  BY LoopInjectsNothing DEF IInv, Accounts, Uncounted
<1>2. TypeOK'
  <2>1. /\ {made', presses', touchEvents', gpioEvents', markerEvents'}
             \subseteq 0 .. MaxRequests
        /\ request' \in Requests \cup {NoRequest}
        /\ handler' \in {"idle", "pulsing", "tapping"}
        /\ firmware' \in {"rgb", "lvgl"}
        /\ shown' \in Frame
    BY LoopInjectsNothing DEF IInv, TypeOK
  <2>2. /\ eventsSeen' \in {eventsSeen, gpioEvents} /\ gpioEvents' = gpioEvents
        /\ touchSeen' \in {touchSeen, touchEvents} /\ touchEvents' = touchEvents
        /\ markerSeen' \in {markerSeen, markerEvents} /\ markerEvents' = markerEvents
    BY DEF Loop, PollGpio, ReadX, ReadY, ReadCount, TestMarker, ReadMarkerCount,
           ReadMarkerColor, ReadHeld, ReadHeldX, ReadHeldY, PollButton, Draw
  <2>3. /\ eventsSeen' \in 0 .. gpioEvents'
        /\ touchSeen' \in 0 .. touchEvents'
        /\ markerSeen' \in 0 .. markerEvents'
    <3>1. /\ eventsSeen \in 0 .. gpioEvents
          /\ touchSeen \in 0 .. touchEvents
          /\ markerSeen \in 0 .. markerEvents
      BY DEF IInv, TypeOK
    <3>2. QED
      BY <2>2, <3>1, Numbers DEF IInv
  <2>4. /\ {posted', markerColor', marker'} \subseteq Colors \cup {0}
        /\ {held', level'} \subseteq {0, 1}
        /\ {touchX', touchY', tx', ty'} \subseteq Points \cup {0}
    BY DEF IInv, TypeOK, Loop, PollGpio, ReadX, ReadY, ReadCount, TestMarker,
           ReadMarkerCount, ReadMarkerColor, ReadHeld, ReadHeldX, ReadHeldY, PollButton, Draw
  <2>5. square' \in (Points \cup {0}) \X (Points \cup {0})
    <3>1. \/ square' = square
          \/ square' = <<tx, ty>>
          \/ square' = <<tx, touchY>>
      BY DEF Loop, PollGpio, ReadX, ReadY, ReadCount, TestMarker, ReadMarkerCount,
             ReadMarkerColor, ReadHeld, ReadHeldX, ReadHeldY, PollButton, Draw
    <3>2. /\ square \in (Points \cup {0}) \X (Points \cup {0})
          /\ {tx, ty, touchY} \subseteq Points \cup {0}
      BY DEF IInv, TypeOK
    <3>3. QED
      BY <3>1, <3>2
  <2>6. inv' \in {0, 1}
    <3>1. CASE PollGpio
      <4>1. inv + gpioEvents - eventsSeen \in Int
        <5>1. inv \in {0, 1}
          BY DEF IInv, TypeOK
        <5>2. QED
          BY <5>1, Numbers DEF IInv
      <4>2. inv' = (inv + gpioEvents - eventsSeen) % 2
        BY <3>1 DEF PollGpio
      <4>3. QED
        BY <4>1, <4>2
    <3>2. CASE ~PollGpio
      <4>1. inv \in {0, 1}
        BY DEF IInv, TypeOK
      <4>2. inv' = inv \/ inv' = 1 - inv
        BY <3>2
           DEF Loop, ReadX, ReadY, ReadCount, TestMarker, ReadMarkerCount, ReadMarkerColor,
               ReadHeld, ReadHeldX, ReadHeldY, PollButton, Draw
      <4>3. QED
        BY <4>1, <4>2
    <3>3. QED
      BY <3>1, <3>2
  <2>7. {dirty', drawnOnce', pressed'} \subseteq {0, 1}
    BY DEF IInv, TypeOK, Loop, PollGpio, ReadX, ReadY, ReadCount, TestMarker,
           ReadMarkerCount, ReadMarkerColor, ReadHeld, ReadHeldX, ReadHeldY, PollButton, Draw
  <2>8. loop' \in {"gpio", "touch x", "touch y", "touch count", "marker", "marker seen",
                   "marker color", "held", "held x", "held y", "button", "draw", "blocked"}
    BY DEF Loop, PollGpio, ReadX, ReadY, ReadCount, TestMarker, ReadMarkerCount,
           ReadMarkerColor, ReadHeld, ReadHeldX, ReadHeldY, PollButton, Draw, Begin
  <2>9. QED
    BY <2>1, <2>3, <2>4, <2>5, <2>6, <2>7, <2>8 DEF TypeOK
<1>3. Reader'
  <2>1. firmware' = firmware /\ shown' = shown
    BY LoopInjectsNothing
  <2>2. loop' \in (IF firmware' = "rgb" THEN RgbSteps ELSE LvglSteps)
    BY <2>1
       DEF IInv, TypeOK, Reader, Loop, PollGpio, ReadX, ReadY, ReadCount, TestMarker,
           ReadMarkerCount, ReadMarkerColor, ReadHeld, ReadHeldX, ReadHeldY, PollButton, Draw,
           Begin, RgbSteps, LvglSteps
  <2>3. firmware' = "rgb" => inv' = eventsSeen' % 2
    <3>1. CASE PollGpio
      <4>1. firmware = "rgb" /\ inv = eventsSeen % 2
        BY <3>1 DEF IInv, Reader, PollGpio, RgbSteps, LvglSteps
      <4>2. eventsSeen \in 0 .. gpioEvents
        BY DEF IInv, TypeOK
      <4>3. eventsSeen' = gpioEvents /\ inv' = ((eventsSeen % 2) + gpioEvents - eventsSeen) % 2
        BY <3>1, <4>1 DEF PollGpio
      <4>4. QED
        BY <4>2, <4>3, Parity, Numbers DEF IInv
    <3>2. CASE ~PollGpio
      BY <2>1, <3>2
         DEF IInv, TypeOK, Reader, Loop, ReadX, ReadY, ReadCount, TestMarker,
             ReadMarkerCount, ReadMarkerColor, ReadHeld, ReadHeldX, ReadHeldY, PollButton,
             Draw, RgbSteps, LvglSteps
    <3>3. QED
      BY <3>1, <3>2
  <2>4. loop' = "marker color" => dirty' = 1
    BY DEF Loop, PollGpio, ReadX, ReadY, ReadCount, TestMarker, ReadMarkerCount,
           ReadMarkerColor, ReadHeld, ReadHeldX, ReadHeldY, PollButton, Draw, Begin
  <2>5. /\ loop' \in {Begin, "held x", "held y"}' => shown' = Drawn'
        /\ loop' # "blocked" => shown' = Drawn' \/ dirty' = 1
    <3> USE <2>1 DEF IInv, TypeOK, Reader, Drawn, Begin, RgbSteps, LvglSteps
    <3>1. CASE PollGpio
      <4>1. shown = Drawn /\ firmware = "rgb" /\ inv = eventsSeen % 2
        BY <3>1 DEF PollGpio
      <4>2. gpioEvents = eventsSeen => inv' = inv
        <5>1. inv \in {0, 1}
          OBVIOUS
        <5>2. gpioEvents = eventsSeen => (inv + gpioEvents - eventsSeen) % 2 = inv
          BY <5>1, Numbers, NothingNew
        <5>3. QED
          BY <3>1, <5>2 DEF PollGpio
      <4>3. QED
        BY <3>1, <4>1, <4>2 DEF PollGpio
    <3>2. CASE ReadX \/ ReadY \/ ReadCount
      BY <3>2 DEF ReadX, ReadY, ReadCount
    <3>3. CASE TestMarker \/ ReadMarkerCount \/ ReadMarkerColor
      BY <3>3 DEF TestMarker, ReadMarkerCount, ReadMarkerColor
    <3>4. CASE ReadHeld
      BY <3>4 DEF ReadHeld
    <3>5. CASE ReadHeldX \/ ReadHeldY
      BY <3>5 DEF ReadHeldX, ReadHeldY
    <3>6. CASE PollButton
      BY <3>6 DEF PollButton
    <3>7. CASE Draw
      BY <3>7 DEF Draw
    <3>8. QED
      BY <3>1, <3>2, <3>3, <3>4, <3>5, <3>6, <3>7 DEF Loop
  <2>6. QED
    BY <2>2, <2>3, <2>4, <2>5 DEF Reader
<1>4. QED
  BY <1>1, <1>2, <1>3 DEF IInv

LEMMA Stutter == IInv /\ UNCHANGED vars => IInv'
  BY DEF IInv, TypeOK, Accounts, Uncounted, Reader, Drawn, Begin, RgbSteps, LvglSteps, vars

--------------------------------------------------------------------------------
(* The theorems.                                                           *)

\* Every state the guest and its host can reach satisfies the inductive invariant.
THEOREM Invariant == Spec => []IInv
<1>1. IInv /\ [Next]_vars => IInv'
  BY HostStep, ServeStep, LoopStep, Stutter DEF Next
<1>2. QED
  BY InitHolds, <1>1, PTL DEF Spec

\* The counters, the finger and the frame have the types of the C variables, and
\* no counter the reader has copied runs ahead of the one it copied.
THEOREM TypeCorrect == Spec => []TypeOK
<1>1. IInv => TypeOK
  BY DEF IInv
<1>2. QED
  BY Invariant, <1>1, PTL

\* A press the agent reported as done is in the counter the firmware polls, and no
\* other: nothing is counted twice and nothing is lost, whatever the requests are.
THEOREM CountsPresses == Spec => []PressesCounted
<1>1. IInv => PressesCounted
  BY DEF IInv, Accounts, PressesCounted
<1>2. QED
  BY Invariant, <1>1, PTL

\* When the reader looks again, what it has seen is on the captured frame, and its
\* inversion is the parity of the presses it has seen.
THEOREM ShowsSeen == Spec => []FrameShowsSeen
<1>1. IInv => FrameShowsSeen
  BY DEF IInv, Reader, FrameShowsSeen
<1>2. QED
  BY Invariant, <1>1, PTL

================================================================================
