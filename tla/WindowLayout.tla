----------------------------- MODULE WindowLayout -----------------------------
(***************************************************************************)
(* The layout of the device window (peripherals/display/window_layout):    *)
(* where the screen, the button nubs, the "..." nub, the help card and the *)
(* controls of the panel lie, in window points.  Everything is a function  *)
(* of the board and of the scale; there is no state.                       *)
(*                                                                         *)
(* A board is a record [width, height, rotation, battery, buttons], its    *)
(* buttons a sequence of records [action, gpio, key, edge, pos, activeLow].*)
(* The position of a button is in hundredths of its edge, and negative for *)
(* one that stacks by itself.  The floating point of the code is exact     *)
(* here, and a conversion to int drops the fraction.                       *)
(***************************************************************************)
EXTENDS Integers, Sequences, FiniteSets

BezelMargin == 26
NubProtrude == 14
NubThick == 12
NubLong == 36
HitInflate == 6
MaxLayoutButtons == 8
Pitch == NubLong + 2 * HitInflate

PanelMargin == 12
PanelPad == 12
PanelGap == 8
BatBarW == 150
BatBarH == 22
PanelBtnW == 56
PanelBtnH == 34
PctW == 48
PctH == 14
PctLead == 8
PctGap == PctW + PctLead
CardW == PanelPad + BatBarW + PctGap + 3 * PanelBtnW + 2 * PanelGap + PanelPad
CardH == PanelPad + PanelBtnH + PanelPad
HelpCardPad == 16

Rect(x, y, w, h) == [x |-> x, y |-> y, w |-> w, h |-> h]
NoRect == Rect(0, 0, 0, 0)

Contains(r, p) == p.x \in r.x .. r.x + r.w - 1 /\ p.y \in r.y .. r.y + r.h - 1

Inflate(r, by) == Rect(r.x - by, r.y - by, r.w + 2 * by, r.h + 2 * by)

Least(a, b) == IF a <= b THEN a ELSE b
Most(a, b) == IF a <= b THEN b ELSE a

\* clampi; an empty range gives its low end
Clamp(v, lo, hi) == IF lo > hi THEN lo ELSE Most(lo, Least(v, hi))

Vertical(edge) == edge \in {"left", "right"}

Shown(board) == 1 .. Least(Len(board.buttons), MaxLayoutButtons)

OnEdge(board, edge) == {i \in Shown(board) : board.buttons[i].edge = edge}

Autos(board, edge) == {i \in OnEdge(board, edge) : board.buttons[i].pos < 0}

EdgeMargin(board, edge) ==
  BezelMargin + (IF OnEdge(board, edge) = {} THEN 0 ELSE NubProtrude)

\* A faulty AutoStart: the stack is pitched by the body of a nub, not by what a click meets.
AutoStartByBody(idx, n, origin, length) ==
  LET span == n * NubLong
  IN Clamp(origin + (length - span) \div 2 + idx * NubLong, origin, origin + length - NubLong)

\* Where the idx-th (from 0) of n stacked nubs starts along an edge.
AutoStart(idx, n, origin, length) ==
  LET span == (n - 1) * Pitch + NubLong
      Middle(num, den) == num \div den - NubLong \div 2
  IN CASE 6 * length >= 10 * Pitch * n ->
            Clamp(Middle(10 * n * origin + 2 * n * length + 3 * length * (2 * idx + 1),
                         10 * n),
                  (10 * origin + 2 * length) \div 10,
                  (10 * origin + 8 * length) \div 10 - NubLong)
       [] 6 * length < 10 * Pitch * n /\ span <= length ->
            origin + (length - span) \div 2 + idx * Pitch
       [] OTHER ->
            Clamp(Middle(2 * n * origin + length * (2 * idx + 1), 2 * n),
                  origin, origin + length - NubLong)

FixedStart(pos, origin, length) ==
  Clamp(origin + (Least(pos, 100) * length) \div 100 - NubLong \div 2,
        origin, origin + length - NubLong)

\* The "..." nub in the bottom right corner, if the panel has anything to show.
MoreNub(board, window) ==
  IF board.battery \/ board.rotation
  THEN Rect(window.w - NubLong, window.h - NubThick, NubLong, NubThick)
  ELSE NoRect

NubStart(board, i, screen, more) ==
  LET b == board.buttons[i]
      origin == IF Vertical(b.edge) THEN screen.y ELSE screen.x
      length == IF Vertical(b.edge) THEN screen.h ELSE screen.w
      autos == Autos(board, b.edge)
      Start(idx) == AutoStart(idx, Cardinality(autos), origin, length)
      start == Start(Cardinality({j \in autos : j < i}))
      overrun == Start(Cardinality(autos) - 1) + NubLong + HitInflate - more.x
  IN CASE b.pos >= 0 -> FixedStart(b.pos, origin, length)
       [] b.pos < 0 /\ b.edge = "bottom" /\ more.w > 0 /\ overrun > 0 ->
            Clamp(start - overrun, HitInflate, start)
       [] OTHER -> start

NubBody(edge, start, window) ==
  CASE edge = "right" ->
         Rect(window.w - NubThick - HitInflate, start, NubThick, NubLong)
    [] edge = "left" -> Rect(HitInflate, start, NubThick, NubLong)
    [] edge = "top" -> Rect(start, HitInflate, NubLong, NubThick)
    [] edge = "bottom" ->
         Rect(start, window.h - NubThick - HitInflate, NubLong, NubThick)

\* window_layout: the window, the screen in it, the "..." nub, and of every
\* nub the rectangle that a click has to meet.
Layout(board, scale) ==
  LET left == EdgeMargin(board, "left")
      top == EdgeMargin(board, "top")
      screen == Rect(left, top, board.width * scale, board.height * scale)
      window == Rect(0, 0, screen.w + left + EdgeMargin(board, "right"),
                     screen.h + top + EdgeMargin(board, "bottom"))
      more == MoreNub(board, window)
      Hit(i) == Inflate(NubBody(board.buttons[i].edge,
                                NubStart(board, i, screen, more), window),
                        HitInflate)
  IN [window |-> window, screen |-> screen, more |-> more,
      hits |-> [i \in Shown(board) |-> Hit(i)]]

\* layout_help_card: centered, and never larger than the window.
HelpCard(l, w, h) ==
  LET cw == Least(w + 2 * HelpCardPad, l.window.w)
      ch == Least(h + 2 * HelpCardPad, l.window.h)
  IN Rect((l.window.w - cw) \div 2, (l.window.h - ch) \div 2, cw, ch)

\* layout_panel_card: bottom right, shrunk to the window.
PanelCard(l) ==
  LET w == Most(0, Least(CardW, l.window.w - 2 * PanelMargin))
      h == Most(0, Least(CardH, l.window.h - 2 * PanelMargin))
  IN Rect(Most(0, l.window.w - PanelMargin - w), Most(0, l.window.h - PanelMargin - h),
          w, h)

\* A control at x, narrowed to the inside of the card, or none at all.
PlaceControl(card, x, w, h) ==
  LET cw == Least(w, card.x + card.w - PanelPad - x)
      ch == Least(h, card.h - 2 * PanelPad)
  IN IF cw <= 0 \/ ch <= 0 THEN NoRect
     ELSE Rect(x, card.y + (card.h - ch) \div 2, cw, ch)

\* layout_panel: each control where its declared width puts it.
Panel(l, battery, rotation) ==
  LET card == PanelCard(l)
      first == card.x + PanelPad
      Button(x) == PlaceControl(card, x, PanelBtnW, PanelBtnH)
      bar == PlaceControl(card, first, BatBarW, BatBarH)
      pct == PlaceControl(card, bar.x + bar.w + PctLead, PctW, PctH)
      chg == first + BatBarW + PctGap
      step == PanelBtnW + PanelGap
      rot == IF battery THEN chg + 2 * step ELSE first
  IN [bar |-> IF battery THEN bar ELSE NoRect,
      pct |-> IF battery /\ bar.w > 0 /\ pct.w = PctW
              THEN [pct EXCEPT !.y = bar.y + 4] ELSE NoRect,
      chg |-> IF battery THEN Button(chg) ELSE NoRect,
      usb |-> IF battery THEN Button(chg + step) ELSE NoRect,
      rot |-> IF rotation THEN Button(rot) ELSE NoRect]
-----------------------------------------------------------------------------
(***************************************************************************)
(* What the layout promises (window_layout.h).                             *)
(***************************************************************************)
Within(r, outer) ==
  /\ outer.x <= r.x /\ r.x + r.w <= outer.x + outer.w
  /\ outer.y <= r.y /\ r.y + r.h <= outer.y + outer.h

Overlap(a, b) ==
  /\ a.x < b.x + b.w /\ b.x < a.x + a.w /\ a.y < b.y + b.h /\ b.y < a.y + a.h
  /\ a.w > 0 /\ b.w > 0 /\ a.h > 0 /\ b.h > 0

EdgeLength(l, edge) == IF Vertical(edge) THEN l.screen.h ELSE l.screen.w

\* Can the stack of an edge be told apart at all?
Roomy(board, l, edge) ==
  (Cardinality(Autos(board, edge)) - 1) * Pitch + NubLong <= EdgeLength(l, edge)

\* The "..." nub is clear of a stack, which has room to slide away from it.
NubsApart(board, l) ==
  \A edge \in {"left", "right", "top", "bottom"} : Roomy(board, l, edge) =>
    \A i \in Autos(board, edge) :
      /\ \A j \in Autos(board, edge) \ {i} : ~Overlap(l.hits[i], l.hits[j])
      /\ ~Overlap(l.hits[i], l.more)

\* A mouse can reach all of a nub, and none of it is on the screen.
NubsReachable(board, l) ==
  \A i \in Shown(board) :
    /\ NubLong <= EdgeLength(l, board.buttons[i].edge)
         => Within(l.hits[i], l.window)
    /\ ~Overlap(l.hits[i], l.screen)

PanelSound(board, l) ==
  LET p == Panel(l, board.battery, board.rotation)
  IN /\ Within(PanelCard(l), l.window)
     /\ \A c \in DOMAIN p : p[c] # NoRect =>
          /\ Within(p[c], PanelCard(l))
          /\ \A d \in DOMAIN p \ {c} : ~Overlap(p[c], p[d])

\* The help card fits, whatever the lines it has to hold.
HelpSound(l) == \A w, h \in {0, 150, 1000} : Within(HelpCard(l, w, h), l.window)

Sound(board, l) ==
  NubsApart(board, l) /\ NubsReachable(board, l) /\ PanelSound(board, l) /\ HelpSound(l)
=============================================================================
