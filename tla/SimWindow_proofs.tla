--------------------------- MODULE SimWindow_proofs ---------------------------
(***************************************************************************)
(* What is proved of the device window, for every set of boards, every     *)
(* scale and any number of presses of the power key.                       *)
(*                                                                         *)
(* The layout comes first, as far as the handlers need it: rectangles of   *)
(* integers.  Then what Press and Release do to the lines of the bus, and  *)
(* from them the inductive invariant; the refinement of the power key      *)
(* follows from it and from the one power key a board has.  Last, that     *)
(* every layout is sound: the arithmetic of the stacks, the nubs on their  *)
(* edges, and the controls of the panel.                                   *)
(***************************************************************************)
EXTENDS SimWindow, FiniteSetTheorems, SequenceTheorems, TLAPS

Rects == [x : Int, y : Int, w : Int, h : Int]

LEMMA RectInRects ==
  /\ \A x, y, w, h \in Int : Rect(x, y, w, h) \in Rects
  /\ NoRect \in Rects
BY DEF Rect, NoRect, Rects

LEMMA InflateInRects ==
  ASSUME NEW r \in Rects, NEW by \in Int PROVE Inflate(r, by) \in Rects
BY DEF Inflate, Rect, Rects

LEMMA ClampInRange ==
  ASSUME NEW v \in Int, NEW lo \in Int, NEW hi \in Int
  PROVE  Clamp(v, lo, hi) \in Int /\ (lo <= hi => Clamp(v, lo, hi) \in lo .. hi)
BY DEF Clamp, Most, Least

LEMMA ClampFromZero ==
  ASSUME NEW v \in Int, NEW hi \in Int, 0 <= hi PROVE Clamp(v, 0, hi) \in 0 .. hi
BY DEF Clamp, Most, Least

LEMMA LeastMostInt ==
  ASSUME NEW a \in Int, NEW b \in Int PROVE Least(a, b) \in Int /\ Most(a, b) \in Int
BY DEF Least, Most

\* The nubs of a board are the first of its buttons.
LEMMA ShownButtons ==
  ASSUME NEW b \in BoardDesc
  PROVE  /\ Shown(b) \subseteq DOMAIN b.buttons
         /\ 0 \notin Shown(b)
         /\ \A i \in DOMAIN b.buttons : b.buttons[i] \in SimButton
         /\ \A S \in SUBSET Shown(b) : IsFiniteSet(S) /\ Cardinality(S) \in Nat
<1>1. b.buttons \in Seq(SimButton)
  BY DEF BoardDesc
<1>2. Len(b.buttons) \in Nat /\ DOMAIN b.buttons = 1 .. Len(b.buttons)
  BY <1>1
<1>3. \A i \in DOMAIN b.buttons : b.buttons[i] \in SimButton
  BY <1>1
<1>4. Shown(b) \subseteq DOMAIN b.buttons /\ 0 \notin Shown(b)
  BY <1>2 DEF Shown, Least, MaxLayoutButtons
<1>5. IsFiniteSet(DOMAIN b.buttons)
  BY <1>2, FS_Interval
<1>6. \A S \in SUBSET Shown(b) : IsFiniteSet(S) /\ Cardinality(S) \in Nat
  BY <1>4, <1>5, FS_Subset, FS_CardinalityType
<1>7. QED
  BY <1>3, <1>4, <1>6

LEMMA EdgeMarginInt ==
  ASSUME NEW b, NEW edge PROVE EdgeMargin(b, edge) \in Nat
BY DEF EdgeMargin, BezelMargin, NubProtrude

LEMMA AutoStartInt ==
  ASSUME NEW idx \in Int, NEW n \in Nat \ {0}, NEW origin \in Int, NEW length \in Int
  PROVE  AutoStart(idx, n, origin, length) \in Int
<1> DEFINE span == (n - 1) * Pitch + NubLong
<1> DEFINE far == 10 * n * origin + 2 * n * length + 3 * length * (2 * idx + 1)
<1> DEFINE near == 2 * n * origin + length * (2 * idx + 1)
<1>1. Pitch = 48 /\ NubLong = 36
  BY DEF Pitch, NubLong, HitInflate
<1>2. span \in Int
  BY <1>1
<1>3. far \in Int /\ 10 * n \in Nat \ {0}
  OBVIOUS
<1>4. near \in Int /\ 2 * n \in Nat \ {0}
  OBVIOUS
<1>5. far \div (10 * n) - NubLong \div 2 \in Int
  <2> HIDE DEF far
  <2>1. far \div (10 * n) \in Int
    BY <1>3
  <2>2. QED
    BY <2>1, <1>1
<1>6. near \div (2 * n) - NubLong \div 2 \in Int
  <2> HIDE DEF near
  <2>1. near \div (2 * n) \in Int
    BY <1>4
  <2>2. QED
    BY <2>1, <1>1
<1>7. Clamp(far \div (10 * n) - NubLong \div 2, (10 * origin + 2 * length) \div 10,
            (10 * origin + 8 * length) \div 10 - NubLong) \in Int
  <2> HIDE DEF far
  <2>1. (10 * origin + 2 * length) \div 10 \in Int
    OBVIOUS
  <2>2. (10 * origin + 8 * length) \div 10 - NubLong \in Int
    BY <1>1
  <2>3. QED
    BY <1>5, <2>1, <2>2, ClampInRange
<1>8. origin + (length - span) \div 2 + idx * Pitch \in Int
  BY <1>1, <1>2
<1>9. Clamp(near \div (2 * n) - NubLong \div 2, origin, origin + length - NubLong) \in Int
  <2> HIDE DEF near
  <2>1. origin + length - NubLong \in Int
    BY <1>1
  <2>2. QED
    BY <1>6, <2>1, ClampInRange
<1>10. 6 * length \in Int /\ 10 * Pitch * n \in Int
  BY <1>1
<1>11. (6 * length < 10 * Pitch * n) <=> ~(6 * length >= 10 * Pitch * n)
  BY <1>10
<1>12. CASE 6 * length >= 10 * Pitch * n
  BY <1>7, <1>11, <1>12 DEF AutoStart
<1>13. CASE ~(6 * length >= 10 * Pitch * n)
  BY <1>8, <1>9, <1>11, <1>13 DEF AutoStart
<1>14. QED
  BY <1>12, <1>13

LEMMA FixedStartInt ==
  ASSUME NEW pos \in Int, NEW origin \in Int, NEW length \in Int
  PROVE  FixedStart(pos, origin, length) \in Int
<1>1. NubLong = 36
  BY DEF NubLong
<1>2. Least(pos, 100) \in Int
  BY LeastMostInt
<1>3. (Least(pos, 100) * length) \div 100 \in Int
  BY <1>2
<1>4. origin + (Least(pos, 100) * length) \div 100 - NubLong \div 2 \in Int
  BY <1>1, <1>3
<1>5. origin + length - NubLong \in Int
  BY <1>1
<1>6. QED
  BY <1>4, <1>5, ClampInRange DEF FixedStart

LEMMA NubStartInt ==
  ASSUME NEW b \in BoardDesc, NEW i \in Shown(b), NEW screen \in Rects, NEW more \in Rects
  PROVE  NubStart(b, i, screen, more) \in Int
<1> DEFINE nub == b.buttons[i]
           origin == IF Vertical(nub.edge) THEN screen.y ELSE screen.x
           length == IF Vertical(nub.edge) THEN screen.h ELSE screen.w
           autos == Autos(b, nub.edge)
           n == Cardinality(autos)
           before == Cardinality({j \in autos : j < i})
           start == AutoStart(before, n, origin, length)
           overrun == AutoStart(n - 1, n, origin, length) + NubLong + HitInflate - more.x
<1>1. nub \in SimButton
  BY ShownButtons
<1>2. origin \in Int /\ length \in Int /\ more.x \in Int /\ more.w \in Int
  BY DEF Rects
<1>3. nub.pos \in Int
  BY <1>1 DEF SimButton
<1>4. autos \in SUBSET Shown(b) /\ {j \in autos : j < i} \in SUBSET Shown(b)
  BY DEF Autos, OnEdge
<1>5. IsFiniteSet(autos) /\ n \in Nat /\ before \in Nat
  BY <1>4, ShownButtons
<1>6. CASE nub.pos >= 0
  <2>1. FixedStart(nub.pos, origin, length) \in Int
    BY <1>2, <1>3, FixedStartInt
  <2>2. NubStart(b, i, screen, more) = FixedStart(nub.pos, origin, length)
    BY <1>3, <1>6 DEF NubStart
  <2>3. QED
    BY <2>1, <2>2
<1>7. CASE ~(nub.pos >= 0)
  <2>1. i \in autos
    BY <1>3, <1>7 DEF Autos, OnEdge
  <2>2. n \in Nat \ {0}
    BY <1>5, <2>1, FS_EmptySet
  <2>3. start \in Int /\ AutoStart(n - 1, n, origin, length) \in Int
    <3> HIDE DEF origin, length, n, before
    <3>1. n - 1 \in Int
      BY <2>2
    <3>2. AutoStart(before, n, origin, length) \in Int
      BY <1>2, <1>5, <2>2, AutoStartInt
    <3>3. AutoStart(n - 1, n, origin, length) \in Int
      BY <1>2, <2>2, <3>1, AutoStartInt
    <3>4. QED
      BY <3>2, <3>3
  <2>4. HitInflate = 6 /\ NubLong = 36
    BY DEF HitInflate, NubLong
  <2>5. overrun \in Int
    <3> HIDE DEF origin, length, n
    <3>1. QED
      BY <1>2, <2>3, <2>4
  <2>6. Clamp(start - overrun, HitInflate, start) \in Int
    <3> HIDE DEF start, overrun
    <3>1. start - overrun \in Int
      BY <2>3, <2>5
    <3>2. QED
      BY <2>3, <2>4, <3>1, ClampInRange
  <2>7. NubStart(b, i, screen, more) \in {start, Clamp(start - overrun, HitInflate, start)}
    BY <1>3, <1>7 DEF NubStart
  <2>8. QED
    BY <2>3, <2>6, <2>7
<1>8. QED
  BY <1>6, <1>7

LEMMA NubBodyInRects ==
  ASSUME NEW edge \in {"left", "right", "top", "bottom"}, NEW start \in Int,
         NEW window \in Rects
  PROVE  NubBody(edge, start, window) \in Rects
<1>1. HitInflate = 6 /\ NubThick = 12 /\ NubLong = 36
  BY DEF HitInflate, NubThick, NubLong
<1>2. window.w - NubThick - HitInflate \in Int /\ window.h - NubThick - HitInflate \in Int
  BY <1>1 DEF Rects
<1>3. /\ Rect(window.w - NubThick - HitInflate, start, NubThick, NubLong) \in Rects
      /\ Rect(HitInflate, start, NubThick, NubLong) \in Rects
      /\ Rect(start, HitInflate, NubLong, NubThick) \in Rects
      /\ Rect(start, window.h - NubThick - HitInflate, NubLong, NubThick) \in Rects
  BY <1>1, <1>2 DEF Rect, Rects
<1>4. QED
  BY <1>3 DEF NubBody

Layouts(b) == [window : Rects, screen : Rects, more : Rects, hits : [Shown(b) -> Rects]]

LEMMA LayoutType ==
  ASSUME NEW b \in BoardDesc, NEW s \in Nat \ {0}
  PROVE  Layout(b, s) \in Layouts(b)
<1> DEFINE left == EdgeMargin(b, "left")
           top == EdgeMargin(b, "top")
           screen == Rect(left, top, b.width * s, b.height * s)
           window == Rect(0, 0, screen.w + left + EdgeMargin(b, "right"),
                          screen.h + top + EdgeMargin(b, "bottom"))
           more == MoreNub(b, window)
           hit(i) == Inflate(NubBody(b.buttons[i].edge, NubStart(b, i, screen, more), window),
                             HitInflate)
<1>1. b.width * s \in Int /\ b.height * s \in Int
  BY DEF BoardDesc
<1>2. screen \in Rects
  BY <1>1, EdgeMarginInt, RectInRects
<1>3. screen.w + left + EdgeMargin(b, "right") \in Int
      /\ screen.h + top + EdgeMargin(b, "bottom") \in Int
  <2> HIDE DEF screen
  <2>1. screen.w \in Int /\ screen.h \in Int
    BY <1>2 DEF Rects
  <2>2. QED
    BY <2>1, EdgeMarginInt
<1>4. window \in Rects
  BY <1>3, RectInRects
<1>5. more \in Rects
  <2> HIDE DEF window
  <2>1. window.w - NubLong \in Int /\ window.h - NubThick \in Int /\ NubLong \in Int
        /\ NubThick \in Int
    BY <1>4 DEF Rects, NubLong, NubThick
  <2>2. QED
    BY <2>1, RectInRects DEF MoreNub
<1>6. ASSUME NEW i \in Shown(b) PROVE hit(i) \in Rects
  <2> HIDE DEF screen, window, more
  <2>1. b.buttons[i].edge \in {"left", "right", "top", "bottom"}
    BY ShownButtons DEF SimButton
  <2>2. NubStart(b, i, screen, more) \in Int
    BY <1>2, <1>5, NubStartInt
  <2>3. NubBody(b.buttons[i].edge, NubStart(b, i, screen, more), window) \in Rects
    BY <1>4, <2>1, <2>2, NubBodyInRects
  <2>4. QED
    BY <2>3, InflateInRects DEF HitInflate
<1>7. Layout(b, s) = [window |-> window, screen |-> screen, more |-> more,
                      hits |-> [i \in Shown(b) |-> hit(i)]]
  BY DEF Layout
<1>8. QED
  <2> HIDE DEF screen, window, more, hit
  <2>1. [i \in Shown(b) |-> hit(i)] \in [Shown(b) -> Rects]
    BY <1>6
  <2>2. QED
    BY <1>2, <1>4, <1>5, <1>7, <2>1 DEF Layouts

LEMMA PanelCardInRects ==
  ASSUME NEW l, l.window \in Rects PROVE PanelCard(l) \in Rects
<1> DEFINE w == Most(0, Least(CardW, l.window.w - 2 * PanelMargin))
           h == Most(0, Least(CardH, l.window.h - 2 * PanelMargin))
<1>1. CardW \in Int /\ CardH \in Int /\ PanelMargin \in Int
  BY DEF CardW, CardH, PanelPad, BatBarW, PctGap, PanelBtnW, PanelGap, PanelBtnH, PctW,
         PctLead, PanelMargin
<1>2. l.window.w \in Int /\ l.window.h \in Int
  BY DEF Rects
<1>3. l.window.w - 2 * PanelMargin \in Int /\ l.window.h - 2 * PanelMargin \in Int
  BY <1>1, <1>2
<1>4. w \in Int /\ h \in Int
  <2>1. Least(CardW, l.window.w - 2 * PanelMargin) \in Int
        /\ Least(CardH, l.window.h - 2 * PanelMargin) \in Int
    BY <1>1, <1>3, LeastMostInt
  <2>2. QED
    BY <2>1 DEF Most
<1>5. Most(0, l.window.w - PanelMargin - w) \in Int
      /\ Most(0, l.window.h - PanelMargin - h) \in Int
  <2> HIDE DEF w, h
  <2>1. l.window.w - PanelMargin - w \in Int /\ l.window.h - PanelMargin - h \in Int
    BY <1>1, <1>2, <1>4
  <2>2. QED
    BY <2>1 DEF Most
<1>6. QED
  BY <1>4, <1>5, RectInRects DEF PanelCard

LEMMA PlaceControlInRects ==
  ASSUME NEW card \in Rects, NEW x \in Int, NEW w \in Int, NEW h \in Int
  PROVE  PlaceControl(card, x, w, h) \in Rects
<1> DEFINE cw == Least(w, card.x + card.w - PanelPad - x)
           ch == Least(h, card.h - 2 * PanelPad)
<1>1. PanelPad = 12
  BY DEF PanelPad
<1>2. card.x \in Int /\ card.y \in Int /\ card.w \in Int /\ card.h \in Int
  BY DEF Rects
<1>3. card.x + card.w - PanelPad - x \in Int /\ card.h - 2 * PanelPad \in Int
  BY <1>1, <1>2
<1>4. cw \in Int /\ ch \in Int
  BY <1>3, LeastMostInt
<1>5. card.y + (card.h - ch) \div 2 \in Int
  <2> HIDE DEF ch
  <2>1. QED
    BY <1>2, <1>4
<1>6. QED
  BY <1>4, <1>5, RectInRects DEF PlaceControl

Panels == [bar : Rects, pct : Rects, chg : Rects, usb : Rects, rot : Rects]

LEMMA PanelType ==
  ASSUME NEW l, l.window \in Rects, NEW battery1 \in BOOLEAN, NEW rotation1 \in BOOLEAN
  PROVE  Panel(l, battery1, rotation1) \in Panels
<1> DEFINE card == PanelCard(l)
           first == card.x + PanelPad
           control(x) == PlaceControl(card, x, PanelBtnW, PanelBtnH)
           bar == PlaceControl(card, first, BatBarW, BatBarH)
           pct == PlaceControl(card, bar.x + bar.w + PctLead, PctW, PctH)
           chg == first + BatBarW + PctGap
           step == PanelBtnW + PanelGap
           rot == IF battery1 THEN chg + 2 * step ELSE first
<1>1. /\ PanelPad = 12 /\ PanelBtnW = 56 /\ PanelBtnH = 34 /\ BatBarW = 150 /\ BatBarH = 22
      /\ PctLead = 8 /\ PctW = 48 /\ PctH = 14 /\ PctGap = 56 /\ PanelGap = 8
  BY DEF PanelPad, PanelBtnW, PanelBtnH, BatBarW, BatBarH, PctLead, PctW, PctH, PctGap, PanelGap
<1>2. card \in Rects
  BY PanelCardInRects
<1>3. first \in Int
  <2> HIDE DEF card
  <2>1. QED
    BY <1>1, <1>2 DEF Rects
<1>4. bar \in Rects
  <2> HIDE DEF card, first
  <2>1. QED
    BY <1>1, <1>2, <1>3, PlaceControlInRects
<1>5. bar.x + bar.w + PctLead \in Int /\ bar.y + 4 \in Int
  <2> HIDE DEF bar
  <2>1. QED
    BY <1>1, <1>4 DEF Rects
<1>6. pct \in Rects
  <2> HIDE DEF card, bar
  <2>1. QED
    BY <1>1, <1>2, <1>5, PlaceControlInRects
<1>7. [pct EXCEPT !.y = bar.y + 4] \in Rects
  <2> HIDE DEF bar, pct
  <2>1. QED
    BY <1>5, <1>6 DEF Rects
<1>8. chg \in Int /\ chg + step \in Int /\ rot \in Int
  <2> HIDE DEF first
  <2>1. QED
    BY <1>1, <1>3
<1>9. control(chg) \in Rects /\ control(chg + step) \in Rects /\ control(rot) \in Rects
  <2> HIDE DEF card, chg, step, rot
  <2>1. QED
    BY <1>1, <1>2, <1>8, PlaceControlInRects
<1>10. Panel(l, battery1, rotation1) =
         [bar |-> IF battery1 THEN bar ELSE NoRect,
          pct |-> IF battery1 /\ bar.w > 0 /\ pct.w = PctW
                  THEN [pct EXCEPT !.y = bar.y + 4] ELSE NoRect,
          chg |-> IF battery1 THEN control(chg) ELSE NoRect,
          usb |-> IF battery1 THEN control(chg + step) ELSE NoRect,
          rot |-> IF rotation1 THEN control(rot) ELSE NoRect]
  BY DEF Panel
<1>11. QED
  <2> HIDE DEF card, first, control, bar, pct, chg, step, rot
  <2>1. QED
    BY <1>4, <1>7, <1>9, <1>10, RectInRects DEF Panels

-----------------------------------------------------------------------------
(***************************************************************************)
(* The window, once open, and where the mouse may be in it.                *)
(***************************************************************************)
LEMMA Opened ==
  ASSUME IInv
  PROVE  /\ board \in BoardDesc /\ board.width \in Nat \ {0} /\ board.height \in Nat \ {0}
         /\ board.battery \in BOOLEAN /\ board.rotation \in BOOLEAN
         /\ scale \in Nat \ {0} /\ layout \in Layouts(board)
         /\ Nubs = Shown(board) /\ Nubs \subseteq DOMAIN board.buttons /\ 0 \notin Nubs
         /\ \A i \in DOMAIN board.buttons : board.buttons[i] \in SimButton
<1>1. board \in BoardDesc /\ scale \in Nat \ {0}
  BY WindowConstants DEF IInv, TypeOK
<1>2. layout \in Layouts(board)
  BY <1>1, LayoutType DEF IInv
<1>3. /\ board.width \in Nat \ {0} /\ board.height \in Nat \ {0}
      /\ board.battery \in BOOLEAN /\ board.rotation \in BOOLEAN
  BY <1>1 DEF BoardDesc
<1>4. QED
  BY <1>1, <1>2, <1>3, ShownButtons DEF Nubs

LEMMA PointsAreInts ==
  ASSUME IInv, NEW p \in Points PROVE p.x \in Int /\ p.y \in Int
<1> DEFINE rects == {layout.screen, layout.more, TheCard}
                      \cup {layout.hits[i] : i \in Nubs}
                      \cup {ThePanel[c] : c \in DOMAIN ThePanel}
           s == layout.screen
<1>1. layout.window \in Rects /\ s \in Rects /\ layout.more \in Rects
      /\ \A i \in Nubs : layout.hits[i] \in Rects
  BY Opened DEF Layouts
<1>2. TheCard \in Rects
  BY <1>1, PanelCardInRects DEF TheCard
<1>3. ThePanel \in Panels
  BY <1>1, Opened, PanelType DEF ThePanel
<1>4. \A c \in DOMAIN ThePanel : ThePanel[c] \in Rects
  BY <1>3 DEF Panels
<1>5. rects \subseteq Rects
  BY <1>1, <1>2, <1>4
<1>6. ASSUME NEW r \in Rects PROVE Center(r).x \in Int /\ Center(r).y \in Int
  BY DEF Center, Rects
<1>7. s.x \in Int /\ s.y \in Int /\ s.x + s.w - 1 \in Int /\ s.y + s.h - 1 \in Int
  BY <1>1 DEF Rects
<1>8. p \in {Center(r) : r \in rects \ {NoRect}}
      \/ p \in {[x |-> s.x, y |-> s.y], [x |-> s.x + s.w - 1, y |-> s.y + s.h - 1],
                [x |-> 0, y |-> 0]}
  BY DEF Points
<1>9. CASE p \in {Center(r) : r \in rects \ {NoRect}}
  <2>1. PICK r \in rects : p = Center(r)
    BY <1>9
  <2>2. r \in Rects
    BY <1>5, <2>1
  <2>3. QED
    BY <1>6, <2>1, <2>2
<1>10. CASE p \in {[x |-> s.x, y |-> s.y], [x |-> s.x + s.w - 1, y |-> s.y + s.h - 1],
                  [x |-> 0, y |-> 0]}
  <2> HIDE DEF s
  <2>1. QED
    BY <1>7, <1>10
<1>11. QED
  BY <1>8, <1>9, <1>10

\* A touch is a pixel of the screen, wherever the mouse is.
LEMMA TouchOnScreen ==
  ASSUME IInv, NEW p, p.x \in Int, p.y \in Int, SetTouch(p)
  PROVE  /\ touch' \in [pressed : BOOLEAN, x : 0 .. board.width - 1, y : 0 .. board.height - 1]
         /\ touch'.pressed = TRUE
<1> DEFINE px == (p.x - layout.screen.x) \div scale
           py == (p.y - layout.screen.y) \div scale
<1>1. layout.screen.x \in Int /\ layout.screen.y \in Int
  BY Opened DEF Layouts, Rects
<1>2. p.x - layout.screen.x \in Int /\ p.y - layout.screen.y \in Int
  BY <1>1
<1>3. px \in Int /\ py \in Int
  BY <1>2, Opened
<1>4. /\ board.width - 1 \in Int /\ 0 <= board.width - 1
      /\ board.height - 1 \in Int /\ 0 <= board.height - 1
  BY Opened
<1>5. Clamp(px, 0, board.width - 1) \in 0 .. board.width - 1
      /\ Clamp(py, 0, board.height - 1) \in 0 .. board.height - 1
  <2> HIDE DEF px, py
  <2>1. QED
    BY <1>3, <1>4, ClampFromZero
<1>6. QED
  <2> HIDE DEF px, py
  <2>1. touch' = [pressed |-> TRUE, x |-> Clamp(px, 0, board.width - 1),
                  y |-> Clamp(py, 0, board.height - 1)]
    BY DEF SetTouch, px, py
  <2>2. QED
    BY <1>5, <2>1

LEMMA BatteryInRange ==
  ASSUME IInv, NEW p, p.x \in Int, SetBattery(p) PROVE battery' \in 0 .. 100
<1> DEFINE bar == ThePanel.bar
           span == bar.w - 4
<1>1. layout.window \in Rects
  BY Opened DEF Layouts
<1>2. bar \in Rects
  BY <1>1, Opened, PanelType DEF ThePanel, Panels
<1>3. span \in Int /\ (p.x - (bar.x + 2)) * 100 \in Int
  <2> HIDE DEF bar
  <2>1. QED
    BY <1>2 DEF Rects
<1>4. CASE span > 0
  <2> HIDE DEF bar, span
  <2> DEFINE v == ((p.x - (bar.x + 2)) * 100) \div span
  <2>1. v \in Int
    BY <1>3, <1>4
  <2>2. battery' = Clamp(v, 0, 100)
    BY <1>4 DEF SetBattery, bar, span
  <2>3. Clamp(v, 0, 100) \in 0 .. 100
    <3> HIDE DEF v
    <3>1. 100 \in Int /\ 0 <= 100
      OBVIOUS
    <3>2. QED
      BY <2>1, <3>1, ClampFromZero
  <2>4. QED
    BY <2>2, <2>3
<1>5. CASE ~(span > 0)
  BY <1>5 DEF SetBattery
<1>6. QED
  BY <1>4, <1>5
-----------------------------------------------------------------------------
(***************************************************************************)
(* What Press and Release do to the lines of the bus.                      *)
(***************************************************************************)
LEMMA DrivenType ==
  ASSUME IInv, NEW B \in SUBSET Nubs, NEW pressed
  PROVE  Driven(B, pressed) \in [PinsOf(board) -> {0, 1}]
BY DEF Driven, GpioLevel, IInv, TypeOK

\* A board has one power key at most: its release is one edge.
LEMMA ReleaseEdges ==
  ASSUME IInv, NEW B \in SUBSET Nubs, Release(B)
  PROVE  pwrEvents' = IF Having(B, "pwr") = {} THEN pwrEvents
                      ELSE Append(pwrEvents, IF pwrLongSent THEN 3 ELSE 1)
<1> DEFINE P == Having(B, "pwr")
           all == {i \in Shown(board) : board.buttons[i].action = "pwr"}
           e == IF pwrLongSent THEN 3 ELSE 1
           n == Cardinality(P)
<1>1. P \subseteq all /\ all \in SUBSET Shown(board)
  BY DEF Having, Nubs
<1>2. IsFiniteSet(all) /\ Cardinality(all) \in Nat
  BY <1>1, Opened, ShownButtons
<1>3. Cardinality(all) <= 1
  BY WindowConstants DEF IInv, TypeOK
<1>4. IsFiniteSet(P) /\ n \in Nat /\ n <= Cardinality(all)
  BY <1>1, <1>2, FS_Subset, FS_CardinalityType
<1>5. n \in {0, 1} /\ (n = 0 <=> P = {})
  <2> HIDE DEF P, all
  <2>1. n = 0 <=> P = {}
    BY <1>4, FS_EmptySet
  <2>2. QED
    BY <1>2, <1>3, <1>4, <2>1
<1>6. pwrEvents' = pwrEvents \o [i \in 1 .. n |-> e]
  BY DEF Release
<1>7. pwrEvents \in Seq(1 .. 3)
  BY DEF IInv, TypeOK
<1>8. CASE n = 0
  <2> HIDE DEF P, n, e
  <2>1. [i \in 1 .. n |-> e] = << >>
    BY <1>8
  <2>2. QED
    BY <1>5, <1>6, <1>7, <1>8, <2>1, ConcatEmptySeq DEF P
<1>9. CASE n = 1
  <2> HIDE DEF P, n, e
  <2>1. [i \in 1 .. n |-> e] = <<e>>
    BY <1>9
  <2>2. pwrEvents' = Append(pwrEvents, e)
    <3>1. e \in 1 .. 3
      BY DEF e
    <3>2. QED
      BY <1>6, <1>7, <2>1, <3>1, AppendIsConcat
  <2>3. P # {}
    BY <1>5, <1>9
  <2>4. QED
    BY <2>2, <2>3 DEF P, e
<1>10. QED
  BY <1>5, <1>8, <1>9

LEMMA PressType ==
  ASSUME IInv, NEW B \in SUBSET Nubs, Press(B)
  PROVE  /\ button' \subseteq {"primary", "secondary"} /\ pins' \in [PinsOf(board) -> {0, 1}]
         /\ pwrEvents' = pwrEvents
<1>1. button \subseteq {"primary", "secondary"}
  BY DEF IInv, TypeOK
<1>2. QED
  BY <1>1, DrivenType DEF Press

LEMMA ReleaseType ==
  ASSUME IInv, NEW B \in SUBSET Nubs, Release(B)
  PROVE  /\ button' \subseteq {"primary", "secondary"} /\ pins' \in [PinsOf(board) -> {0, 1}]
         /\ pwrEvents' \in Seq(1 .. 3)
<1>1. button \subseteq {"primary", "secondary"} /\ pwrEvents \in Seq(1 .. 3)
  BY DEF IInv, TypeOK
<1>2. button' \subseteq {"primary", "secondary"} /\ pins' \in [PinsOf(board) -> {0, 1}]
  BY <1>1, DrivenType DEF Release
<1>3. pwrEvents' \in Seq(1 .. 3)
  BY <1>1, ReleaseEdges
<1>4. QED
  BY <1>2, <1>3

\* Buttons on lines of their own change no line but theirs.
LEMMA PressActive ==
  ASSUME IInv, OwnLines, NEW B \in SUBSET Nubs, Press(B), board' = board,
         NEW i \in Nubs, board.buttons[i].action # "pwr"
  PROVE  IsActive(i)' <=> i \in B \/ IsActive(i)
<1> DEFINE b == board.buttons[i]
           on == {j \in Having(B, "gpio") : board.buttons[j].gpio = b.gpio}
<1>1. Nubs \subseteq DOMAIN board.buttons /\ b \in SimButton
  BY Opened
<1>2. CASE b.action = "gpio"
  <2>1. b.gpio \in PinsOf(board)
    BY <1>1, <1>2 DEF PinsOf
  <2>2. pins'[b.gpio] = IF on = {} THEN pins[b.gpio]
                        ELSE GpioLevel(board.buttons[CHOOSE j \in on : TRUE], TRUE)
    BY <2>1 DEF Press, Driven, IInv, TypeOK
  <2>3. on \subseteq {i} /\ (on # {} <=> i \in B)
    BY <1>1, <1>2 DEF OwnLines, Having
  <2>4. on # {} => (CHOOSE j \in on : TRUE) = i
    <3> HIDE DEF on
    <3>1. QED
      BY <2>3
  <2>5. QED
    BY <1>2, <2>2, <2>3, <2>4 DEF IsActive
<1>3. CASE b.action # "gpio"
  <2>1. b.action \in {"primary", "secondary"}
    BY <1>1, <1>3 DEF SimButton
  <2>2. b.action \in {board.buttons[j].action : j \in B} <=> i \in B
    BY <1>1, <2>1 DEF OwnLines
  <2>3. IsActive(i)' <=> b.action \in button'
    BY <1>3 DEF IsActive
  <2>4. QED
    BY <1>3, <2>1, <2>2, <2>3 DEF IsActive, Press
<1>4. QED
  BY <1>2, <1>3

LEMMA ReleaseActive ==
  ASSUME IInv, OwnLines, NEW B \in SUBSET Nubs, Release(B), board' = board,
         NEW i \in Nubs, board.buttons[i].action # "pwr"
  PROVE  IsActive(i)' <=> i \notin B /\ IsActive(i)
<1> DEFINE b == board.buttons[i]
           on == {j \in Having(B, "gpio") : board.buttons[j].gpio = b.gpio}
<1>1. Nubs \subseteq DOMAIN board.buttons /\ b \in SimButton
  BY Opened
<1>2. CASE b.action = "gpio"
  <2>1. b.gpio \in PinsOf(board)
    BY <1>1, <1>2 DEF PinsOf
  <2>2. pins'[b.gpio] = IF on = {} THEN pins[b.gpio]
                        ELSE GpioLevel(board.buttons[CHOOSE j \in on : TRUE], FALSE)
    BY <2>1 DEF Release, Driven, IInv, TypeOK
  <2>3. on \subseteq {i} /\ (on # {} <=> i \in B)
    BY <1>1, <1>2 DEF OwnLines, Having
  <2>4. on # {} => (CHOOSE j \in on : TRUE) = i
    <3> HIDE DEF on
    <3>1. QED
      BY <2>3
  <2>5. b.activeLow \in BOOLEAN
    BY <1>1 DEF SimButton
  <2>6. GpioLevel(b, FALSE) # GpioLevel(b, TRUE)
    BY <2>5 DEF GpioLevel
  <2>7. QED
    BY <1>2, <2>2, <2>3, <2>4, <2>6 DEF IsActive
<1>3. CASE b.action # "gpio"
  <2>1. b.action \in {"primary", "secondary"}
    BY <1>1, <1>3 DEF SimButton
  <2>2. b.action \in {board.buttons[j].action : j \in B} <=> i \in B
    BY <1>1, <2>1 DEF OwnLines
  <2>3. IsActive(i)' <=> b.action \in button'
    BY <1>3 DEF IsActive
  <2>4. QED
    BY <1>3, <2>2, <2>3 DEF IsActive, Release
<1>4. QED
  BY <1>2, <1>3

-----------------------------------------------------------------------------
(***************************************************************************)
(* The inductive invariant: its type first, then what the user's hands     *)
(* hold, then the lines.                                                   *)
(***************************************************************************)

HandsReal ==
  /\ (mouseHeld # 0 \/ touching \/ batDragging) => mouseDown
  /\ \A i \in keyHeld : board.buttons[i].key \in keysDown
  /\ touch.pressed <=> touching
  /\ helpOpen \/ panelOpen => mouseHeld = 0 /\ keyHeld = {} /\ ~touching
  /\ ~(helpOpen /\ panelOpen)
  /\ batDragging => panelOpen

LinesReal ==
  OwnLines => \A i \in Nubs : board.buttons[i].action # "pwr" => (IsActive(i) <=> HeldBy(i))

LEMMA RealParts == HoldsAreReal <=> LinesReal /\ HandsReal
BY DEF HoldsAreReal, LinesReal, HandsReal

LEMMA InitHolds == Init => IInv
<1> SUFFICES ASSUME Init PROVE IInv
  OBVIOUS
<1> USE DEF Init, Fresh
<1>1. board \in BoardDesc
  BY WindowConstants
<1>2. board.width \in Nat \ {0} /\ board.height \in Nat \ {0}
  BY <1>1 DEF BoardDesc
<1>3. touch \in [pressed : BOOLEAN, x : 0 .. board.width - 1, y : 0 .. board.height - 1]
  BY <1>2
<1>4. pins \in [PinsOf(board) -> {0, 1}]
  BY DEF GpioLevel
<1>5. TypeOK
  <2>1. battery \in 0 .. 100 /\ quadrant \in 0 .. 3
    OBVIOUS
  <2>2. mouseHeld \in Nubs \cup {0} /\ keyHeld \subseteq Nubs
    OBVIOUS
  <2>3. button \subseteq {"primary", "secondary"} /\ pwrEvents \in Seq(1 .. 3)
    OBVIOUS
  <2>4. QED
    BY <1>3, <1>4, <2>1, <2>2, <2>3 DEF TypeOK
<1>6. ASSUME OwnLines, NEW i \in Nubs PROVE ~IsActive(i)
  <2> DEFINE b == board.buttons[i]
             on == {c \in {board.buttons[j] : j \in DOMAIN board.buttons} :
                      c.action = "gpio" /\ c.gpio = b.gpio}
  <2>1. i \in DOMAIN board.buttons /\ b \in SimButton
    BY <1>1, ShownButtons DEF Nubs
  <2>2. CASE b.action = "gpio"
    <3>1. b.gpio \in PinsOf(board) /\ b \in on
      BY <2>1, <2>2 DEF PinsOf
    <3>2. \A c \in on : c = b
      BY <1>6, <2>1, <2>2 DEF OwnLines
    <3>3. (CHOOSE c \in on : TRUE) = b
      <4> HIDE DEF on
      <4>1. QED
        BY <3>1, <3>2
    <3>4. pins[b.gpio] =
            GpioLevel(CHOOSE c \in {board.buttons[j] : j \in DOMAIN board.buttons} :
                        c.action = "gpio" /\ c.gpio = b.gpio, FALSE)
      BY <3>1
    <3>5. (CHOOSE c \in {board.buttons[j] : j \in DOMAIN board.buttons} :
             c.action = "gpio" /\ c.gpio = b.gpio) = b
      BY <3>1, <3>2
    <3>6. b.activeLow \in BOOLEAN
      BY <2>1 DEF SimButton
    <3>7. GpioLevel(b, FALSE) # GpioLevel(b, TRUE)
      BY <3>6 DEF GpioLevel
    <3>8. QED
      BY <2>2, <3>4, <3>5, <3>7 DEF IsActive
  <2>3. CASE b.action # "gpio"
    BY <2>3 DEF IsActive
  <2>4. QED
    BY <2>2, <2>3
<1>7. LinesReal
  <2>1. 0 \notin Nubs
    BY <1>1, ShownButtons DEF Nubs
  <2>2. \A i \in Nubs : ~HeldBy(i)
    BY <2>1 DEF HeldBy
  <2>3. QED
    BY <1>6, <2>2 DEF LinesReal
<1>8. HandsReal
  BY DEF HandsReal
<1>9. QED
  BY <1>5, <1>7, <1>8, RealParts DEF IInv

\* What a click leaves of the touch and of the lines.
LEMMA ReleaseAllType ==
  ASSUME IInv, ReleaseAllHolds
  PROVE  /\ mouseHeld' = 0 /\ keyHeld' = {}
         /\ touch' \in [pressed : BOOLEAN, x : 0 .. board.width - 1, y : 0 .. board.height - 1]
         /\ button' \subseteq {"primary", "secondary"} /\ pins' \in [PinsOf(board) -> {0, 1}]
         /\ pwrEvents' \in Seq(1 .. 3)
<1>1. touch \in [pressed : BOOLEAN, x : 0 .. board.width - 1, y : 0 .. board.height - 1]
  BY DEF IInv, TypeOK
<1>2. touch' \in [pressed : BOOLEAN, x : 0 .. board.width - 1, y : 0 .. board.height - 1]
  BY <1>1 DEF ReleaseAllHolds
<1>3. {i \in Nubs : HeldBy(i)} \in SUBSET Nubs
  OBVIOUS
<1>4. QED
  BY <1>2, <1>3, ReleaseType DEF ReleaseAllHolds

LEMMA TypeKept ==
  ASSUME IInv, [Next]_vars PROVE TypeOK'
<1> USE DEF fixed, hands, holds, power, overlays, lines, hardware
<1> DEFINE Touch == [pressed : BOOLEAN, x : 0 .. board.width - 1, y : 0 .. board.height - 1]
           HoldsOK == /\ mouseHeld' \in Nubs \cup {0} /\ keyHeld' \subseteq Nubs
                      /\ touch' \in Touch
           LinesOK == /\ button' \subseteq {"primary", "secondary"}
                      /\ pins' \in [PinsOf(board) -> {0, 1}] /\ pwrEvents' \in Seq(1 .. 3)
           HardwareOK == battery' \in 0 .. 100 /\ quadrant' \in 0 .. 3
<1>1. UNCHANGED fixed
  BY DEF Next, MouseClick, ClickMore, DismissHelp, ClickPanel, ClickOutside, TouchScreen,
         PressNub, ClickBezel, OnDevice, MouseGoesDown, MouseUp, MouseMove, OverlayKey, Escape,
         Backtick, HelpKey, ButtonKey, KeyUp, CloseWindow, HoldOn, LongPress, vars
<1>2. SUFFICES HoldsOK /\ LinesOK /\ HardwareOK
  BY <1>1 DEF IInv, TypeOK, Nubs
<1>3. /\ board \in Boards /\ scale \in Scales
      /\ mouseHeld \in Nubs \cup {0} /\ keyHeld \subseteq Nubs /\ touch \in Touch
      /\ button \subseteq {"primary", "secondary"} /\ pins \in [PinsOf(board) -> {0, 1}]
      /\ pwrEvents \in Seq(1 .. 3) /\ battery \in 0 .. 100 /\ quadrant \in 0 .. 3
  BY DEF IInv, TypeOK
<1>4. UNCHANGED <<holds, touch, lines>> => HoldsOK /\ LinesOK
  BY <1>3
<1>5. UNCHANGED <<battery, quadrant>> => HardwareOK
  BY <1>3
<1>6. ReleaseAllHolds => HoldsOK /\ LinesOK
  BY ReleaseAllType
<1>7. OpenPanel \/ OpenHelp \/ ClosePanel \/ CloseHelp => HoldsOK /\ LinesOK
  <2> HIDE DEF HoldsOK, LinesOK
  <2>1. QED
    BY <1>4, <1>6 DEF OpenPanel, OpenHelp, ClosePanel, CloseHelp
<1>8. ASSUME NEW p \in Points, ClickMore(p) \/ DismissHelp(p) \/ ClickOutside(p)
      PROVE  HoldsOK /\ LinesOK /\ HardwareOK
  <2> HIDE DEF HoldsOK, LinesOK, HardwareOK
  <2>1. QED
    BY <1>5, <1>7, <1>8 DEF ClickMore, DismissHelp, ClickOutside
<1>9. ASSUME NEW p \in Points, ClickPanel(p) PROVE HoldsOK /\ LinesOK /\ HardwareOK
  <2>1. HoldsOK /\ LinesOK
    <3> HIDE DEF HoldsOK, LinesOK
    <3>1. QED
      BY <1>4, <1>9 DEF ClickPanel
  <2>2. battery' \in 0 .. 100
    <3>1. battery' = battery \/ SetBattery(p)
      BY <1>9 DEF ClickPanel
    <3>2. QED
      BY <1>3, <3>1, BatteryInRange, PointsAreInts
  <2>3. quadrant' = quadrant \/ quadrant' = (quadrant + 1) % 4
    BY <1>9 DEF ClickPanel
  <2>4. quadrant' \in 0 .. 3
    BY <1>3, <2>3
  <2>5. QED
    BY <2>1, <2>2, <2>4
<1>10. ASSUME NEW p \in Points, TouchScreen(p) \/ MouseMove(p)
       PROVE  HoldsOK /\ LinesOK /\ HardwareOK
  <2>1. UNCHANGED <<mouseHeld, keyHeld, lines, quadrant>>
    BY <1>10 DEF TouchScreen, MouseMove
  <2>2. touch' = touch \/ SetTouch(p)
    BY <1>10 DEF TouchScreen, MouseMove
  <2>3. touch' \in Touch
    <3> HIDE DEF Touch
    <3>1. SetTouch(p) => touch' \in Touch
      BY PointsAreInts, TouchOnScreen DEF Touch
    <3>2. QED
      BY <1>3, <2>2, <3>1
  <2>4. battery' = battery \/ SetBattery(p)
    BY <1>10 DEF TouchScreen, MouseMove
  <2>5. battery' \in 0 .. 100
    BY <1>3, <2>4, BatteryInRange, PointsAreInts
  <2>6. QED
    BY <1>3, <2>1, <2>3, <2>5
<1>11. ASSUME NEW p \in Points, PressNub(p) PROVE HoldsOK /\ LinesOK /\ HardwareOK
  <2>1. PICK i \in HitNubs(p) : Press({i}) /\ mouseHeld' = i
    BY <1>11 DEF PressNub
  <2>2. i \in Nubs /\ {i} \in SUBSET Nubs
    BY <2>1 DEF HitNubs
  <2>3. LinesOK
    BY <1>3, <2>1, <2>2, PressType
  <2>4. HoldsOK /\ HardwareOK
    BY <1>3, <1>11, <2>1, <2>2 DEF PressNub
  <2>5. QED
    BY <2>3, <2>4
<1>12. ASSUME NEW p \in Points, ClickBezel(p) PROVE HoldsOK /\ LinesOK /\ HardwareOK
  <2> HIDE DEF HoldsOK, LinesOK, HardwareOK
  <2>1. QED
    BY <1>4, <1>5, <1>12 DEF ClickBezel
<1>13. CASE MouseUp
  <2> DEFINE B == {mouseHeld} \ (keyHeld \cup {0})
  <2>1. B \in SUBSET Nubs /\ Release(B)
    BY <1>3, <1>13 DEF MouseUp
  <2>2. LinesOK
    <3> HIDE DEF B
    <3>1. QED
      BY <2>1, ReleaseType
  <2>3. HoldsOK /\ HardwareOK
    BY <1>3, <1>13 DEF MouseUp
  <2>4. QED
    BY <2>2, <2>3
<1>14. CASE Escape \/ Backtick \/ HelpKey
  <2> HIDE DEF HoldsOK, LinesOK, HardwareOK
  <2>1. QED
    BY <1>4, <1>5, <1>7, <1>14 DEF Escape, Backtick, HelpKey, OverlayKey
<1>15. ASSUME NEW k \in ButtonKeys, ButtonKey(k) PROVE HoldsOK /\ LinesOK /\ HardwareOK
  <2>1. CASE helpOpen \/ panelOpen
    BY <1>3, <1>15, <2>1 DEF ButtonKey
  <2>2. CASE ~(helpOpen \/ panelOpen)
    <3>1. KeyOf(k) \in SUBSET Nubs
      BY DEF KeyOf
    <3>2. Press(KeyOf(k)) /\ keyHeld' = keyHeld \cup KeyOf(k)
      BY <1>15, <2>2 DEF ButtonKey
    <3>3. LinesOK
      BY <1>3, <3>1, <3>2, PressType
    <3>4. HoldsOK /\ HardwareOK
      BY <1>3, <1>15, <3>1, <3>2 DEF ButtonKey
    <3>5. QED
      BY <3>3, <3>4
  <2>3. QED
    BY <2>1, <2>2
<1>16. ASSUME NEW k \in keysDown, KeyUp(k) PROVE HoldsOK /\ LinesOK /\ HardwareOK
  <2> DEFINE B == (keyHeld \cap KeyOf(k)) \ {mouseHeld}
  <2>1. B \in SUBSET Nubs /\ Release(B)
    BY <1>3, <1>16 DEF KeyUp
  <2>2. LinesOK
    <3> HIDE DEF B
    <3>1. QED
      BY <2>1, ReleaseType
  <2>3. HoldsOK /\ HardwareOK
    BY <1>3, <1>16 DEF KeyUp
  <2>4. QED
    BY <2>2, <2>3
<1>17. CASE CloseWindow \/ HoldOn \/ UNCHANGED vars
  <2> HIDE DEF HoldsOK, LinesOK, HardwareOK
  <2>1. QED
    BY <1>4, <1>5, <1>17 DEF CloseWindow, HoldOn, vars
<1>18. CASE LongPress
  <2>1. pwrEvents' \in Seq(1 .. 3)
    BY <1>3, <1>18 DEF LongPress
  <2>2. QED
    BY <1>3, <1>18, <2>1 DEF LongPress
<1>19. QED
  <2> HIDE DEF HoldsOK, LinesOK, HardwareOK
  <2>1. QED
    BY <1>8, <1>9, <1>10, <1>11, <1>12, <1>13, <1>14, <1>15, <1>16, <1>17, <1>18
    DEF Next, MouseClick

\* Nothing is held under an overlay, and nothing but what the hands hold down.
LEMMA HandsKept ==
  ASSUME IInv, [Next]_vars PROVE HandsReal'
<1> USE DEF fixed, hands, holds, power, overlays, lines, hardware
<1>1. HandsReal /\ touch \in [pressed : BOOLEAN, x : 0 .. board.width - 1,
                              y : 0 .. board.height - 1]
  BY RealParts DEF IInv, TypeOK
<1>2. \A f \in BOOLEAN : [touch EXCEPT !.pressed = f].pressed = f
  BY <1>1
<1>3. ReleaseAllHolds =>
        /\ mouseHeld' = 0 /\ keyHeld' = {} /\ touching' = FALSE /\ batDragging' = FALSE
        /\ ~touch'.pressed
  BY <1>1 DEF ReleaseAllHolds, HandsReal
<1>4. ASSUME OpenHelp \/ OpenPanel PROVE HandsReal'
  BY <1>3, <1>4 DEF OpenHelp, OpenPanel, HandsReal
<1>5. ASSUME ClosePanel \/ CloseHelp, mouseDown' = mouseDown \/ mouseDown' = TRUE,
             keysDown' = keysDown, board' = board
      PROVE  HandsReal'
  BY <1>1, <1>5 DEF ClosePanel, CloseHelp, HandsReal
<1>6. ASSUME UNCHANGED <<board, keysDown, holds, batDragging, overlays, touch>>,
             mouseDown' = mouseDown \/ mouseDown' = TRUE
      PROVE  HandsReal'
  BY <1>1, <1>6 DEF HandsReal
<1>7. ASSUME NEW p \in Points, ClickMore(p) \/ DismissHelp(p) \/ ClickOutside(p)
      PROVE  HandsReal'
  BY <1>4, <1>5, <1>7 DEF ClickMore, DismissHelp, ClickOutside, OnDevice, MouseGoesDown
<1>8. ASSUME NEW p \in Points, ClickPanel(p) PROVE HandsReal'
  <2>1. /\ UNCHANGED <<board, keysDown, holds, overlays, touch>> /\ mouseDown' = TRUE
        /\ panelOpen
    BY <1>8 DEF ClickPanel, MouseGoesDown
  <2>2. batDragging' = batDragging \/ batDragging' = TRUE
    BY <1>8 DEF ClickPanel
  <2>3. QED
    BY <1>1, <2>1, <2>2 DEF HandsReal
<1>9. ASSUME NEW p \in Points, TouchScreen(p) PROVE HandsReal'
  <2>1. touch'.pressed = TRUE
    BY <1>9, PointsAreInts, TouchOnScreen DEF TouchScreen
  <2>2. QED
    BY <1>1, <1>9, <2>1 DEF TouchScreen, OnDevice, MouseGoesDown, HandsReal
<1>10. ASSUME NEW p \in Points, MouseMove(p) PROVE HandsReal'
  <2>1. touching => touch'.pressed = TRUE
    BY <1>10, PointsAreInts, TouchOnScreen DEF MouseMove
  <2>2. ~touching => touch' = touch
    BY <1>10 DEF MouseMove
  <2>3. QED
    BY <1>1, <1>10, <2>1, <2>2 DEF MouseMove, HandsReal
<1>11. ASSUME NEW p \in Points, PressNub(p) PROVE HandsReal'
  BY <1>1, <1>11 DEF PressNub, OnDevice, MouseGoesDown, HandsReal
<1>12. ASSUME NEW p \in Points, ClickBezel(p) PROVE HandsReal'
  BY <1>6, <1>12 DEF ClickBezel, OnDevice, MouseGoesDown
<1>13. CASE MouseUp
  <2>1. ~touch'.pressed
    BY <1>1, <1>13 DEF MouseUp, HandsReal
  <2>2. QED
    BY <1>1, <1>13, <2>1 DEF MouseUp, HandsReal
<1>14. CASE Escape \/ Backtick \/ HelpKey
  BY <1>4, <1>5, <1>6, <1>14 DEF Escape, Backtick, HelpKey, OverlayKey
<1>15. ASSUME NEW k \in ButtonKeys, ButtonKey(k) PROVE HandsReal'
  <2>1. \A i \in KeyOf(k) : board.buttons[i].key = k
    BY DEF KeyOf
  <2>2. \A i \in keyHeld' : board.buttons[i].key \in keysDown'
    BY <1>1, <1>15, <2>1 DEF ButtonKey, HandsReal
  <2>3. helpOpen \/ panelOpen => keyHeld' = keyHeld
    BY <1>15 DEF ButtonKey
  <2>4. QED
    BY <1>1, <1>15, <2>2, <2>3 DEF ButtonKey, HandsReal
<1>16. ASSUME NEW k \in keysDown, KeyUp(k) PROVE HandsReal'
  <2>1. keyHeld \subseteq Nubs
    BY DEF IInv, TypeOK
  <2>2. \A i \in keyHeld' : board.buttons[i].key \in keysDown'
    BY <1>1, <1>16, <2>1 DEF KeyUp, KeyOf, HandsReal
  <2>3. keyHeld' \subseteq keyHeld
    BY <1>16 DEF KeyUp
  <2>4. QED
    BY <1>1, <1>16, <2>2, <2>3 DEF KeyUp, HandsReal
<1>17. CASE CloseWindow \/ HoldOn \/ LongPress \/ UNCHANGED vars
  BY <1>6, <1>17 DEF CloseWindow, HoldOn, LongPress, vars
<1>18. QED
  BY <1>7, <1>8, <1>9, <1>10, <1>11, <1>12, <1>13, <1>14, <1>15, <1>16, <1>17
  DEF Next, MouseClick

\* A line follows what holds its button.
LEMMA LinesKept ==
  ASSUME IInv, [Next]_vars PROVE LinesReal'
<1> USE DEF fixed, hands, holds, power, overlays, lines, hardware
<1> DEFINE Plain(i) == board.buttons[i].action # "pwr"
           Held1(i) == mouseHeld' = i \/ i \in keyHeld'
<1>1. UNCHANGED fixed
  BY DEF Next, MouseClick, ClickMore, DismissHelp, ClickPanel, ClickOutside, TouchScreen,
         PressNub, ClickBezel, OnDevice, MouseGoesDown, MouseUp, MouseMove, OverlayKey, Escape,
         Backtick, HelpKey, ButtonKey, KeyUp, CloseWindow, HoldOn, LongPress, vars
<1>2. SUFFICES ASSUME OwnLines, NEW i \in Nubs, Plain(i)
               PROVE  IsActive(i)' <=> Held1(i)
  BY <1>1 DEF LinesReal, OwnLines, Nubs, HeldBy
<1>3. IsActive(i) <=> mouseHeld = i \/ i \in keyHeld
  BY <1>2, RealParts DEF IInv, LinesReal, HeldBy
<1>4. i # 0 /\ mouseHeld \in Nubs \cup {0} /\ keyHeld \subseteq Nubs
  BY Opened DEF IInv, TypeOK
<1>5. ASSUME UNCHANGED <<button, pins, mouseHeld, keyHeld>> PROVE IsActive(i)' <=> Held1(i)
  <2>1. IsActive(i)' <=> IsActive(i)
    BY <1>1, <1>5 DEF IsActive
  <2>2. QED
    BY <1>3, <1>5, <2>1
<1>6. ASSUME ReleaseAllHolds PROVE IsActive(i)' <=> Held1(i)
  <2> DEFINE B == {j \in Nubs : HeldBy(j)}
  <2>1. B \in SUBSET Nubs /\ Release(B)
    BY <1>6 DEF ReleaseAllHolds
  <2>2. IsActive(i)' <=> i \notin B /\ IsActive(i)
    <3> HIDE DEF B
    <3>1. QED
      BY <1>1, <1>2, <2>1, ReleaseActive
  <2>3. QED
    BY <1>3, <1>4, <1>6, <2>2 DEF ReleaseAllHolds, HeldBy
<1>7. ASSUME OpenHelp \/ OpenPanel \/ ClosePanel \/ CloseHelp
      PROVE  IsActive(i)' <=> Held1(i)
  BY <1>5, <1>6, <1>7 DEF OpenHelp, OpenPanel, ClosePanel, CloseHelp
<1>8. ASSUME NEW p \in Points, ClickMore(p) \/ DismissHelp(p) \/ ClickOutside(p)
      PROVE  IsActive(i)' <=> Held1(i)
  BY <1>7, <1>8 DEF ClickMore, DismissHelp, ClickOutside
<1>9. ASSUME NEW p \in Points,
             ClickPanel(p) \/ TouchScreen(p) \/ ClickBezel(p) \/ MouseMove(p)
      PROVE  IsActive(i)' <=> Held1(i)
  BY <1>5, <1>9 DEF ClickPanel, TouchScreen, ClickBezel, MouseMove
<1>10. ASSUME NEW p \in Points, PressNub(p) PROVE IsActive(i)' <=> Held1(i)
  <2>1. PICK n \in HitNubs(p) : Press({n}) /\ mouseHeld' = n
    BY <1>10 DEF PressNub
  <2>2. {n} \in SUBSET Nubs
    BY <2>1 DEF HitNubs
  <2>3. IsActive(i)' <=> i \in {n} \/ IsActive(i)
    BY <1>1, <1>2, <2>1, <2>2, PressActive
  <2>4. ~mouseDown /\ keyHeld' = keyHeld
    BY <1>10 DEF PressNub, OnDevice, MouseGoesDown
  <2>5. mouseHeld = 0
    BY <2>4, RealParts DEF IInv, HandsReal
  <2>6. QED
    BY <1>3, <1>4, <2>1, <2>3, <2>4, <2>5
<1>11. CASE MouseUp
  <2> DEFINE B == {mouseHeld} \ (keyHeld \cup {0})
  <2>1. B \in SUBSET Nubs /\ Release(B)
    BY <1>4, <1>11 DEF MouseUp
  <2>2. IsActive(i)' <=> i \notin B /\ IsActive(i)
    <3> HIDE DEF B
    <3>1. QED
      BY <1>1, <1>2, <2>1, ReleaseActive
  <2>3. QED
    BY <1>3, <1>4, <1>11, <2>2 DEF MouseUp
<1>12. CASE Escape \/ Backtick \/ HelpKey
  BY <1>5, <1>7, <1>12 DEF Escape, Backtick, HelpKey
<1>13. ASSUME NEW k \in ButtonKeys, ButtonKey(k) PROVE IsActive(i)' <=> Held1(i)
  <2>1. CASE helpOpen \/ panelOpen
    BY <1>5, <1>13, <2>1 DEF ButtonKey
  <2>2. CASE ~(helpOpen \/ panelOpen)
    <3>1. KeyOf(k) \in SUBSET Nubs
      BY DEF KeyOf
    <3>2. Press(KeyOf(k)) /\ keyHeld' = keyHeld \cup KeyOf(k) /\ mouseHeld' = mouseHeld
      BY <1>13, <2>2 DEF ButtonKey
    <3>3. IsActive(i)' <=> i \in KeyOf(k) \/ IsActive(i)
      BY <1>1, <1>2, <3>1, <3>2, PressActive
    <3>4. QED
      BY <1>3, <3>2, <3>3
  <2>3. QED
    BY <2>1, <2>2
<1>14. ASSUME NEW k \in keysDown, KeyUp(k) PROVE IsActive(i)' <=> Held1(i)
  <2> DEFINE B == (keyHeld \cap KeyOf(k)) \ {mouseHeld}
  <2>1. B \in SUBSET Nubs /\ Release(B)
    BY <1>4, <1>14 DEF KeyUp
  <2>2. IsActive(i)' <=> i \notin B /\ IsActive(i)
    <3> HIDE DEF B
    <3>1. QED
      BY <1>1, <1>2, <2>1, ReleaseActive
  <2>3. keyHeld' = keyHeld \ KeyOf(k) /\ mouseHeld' = mouseHeld
    BY <1>14 DEF KeyUp
  <2>4. QED
    BY <1>3, <2>2, <2>3
<1>15. CASE CloseWindow \/ HoldOn \/ LongPress \/ UNCHANGED vars
  BY <1>5, <1>15 DEF CloseWindow, HoldOn, LongPress, vars
<1>16. QED
  BY <1>8, <1>9, <1>10, <1>11, <1>12, <1>13, <1>14, <1>15 DEF Next, MouseClick

\* The inductive invariant holds throughout.
THEOREM Invariant == Spec => []IInv
<1>1. IInv /\ [Next]_vars => IInv'
  <2> SUFFICES ASSUME IInv, [Next]_vars PROVE IInv'
    OBVIOUS
  <2>1. UNCHANGED fixed
    BY DEF Next, MouseClick, ClickMore, DismissHelp, ClickPanel, ClickOutside, TouchScreen,
           PressNub, ClickBezel, OnDevice, MouseGoesDown, MouseUp, MouseMove, OverlayKey,
           Escape, Backtick, HelpKey, ButtonKey, KeyUp, CloseWindow, HoldOn, LongPress, vars
  <2>2. (layout = Layout(board, scale))'
    BY <2>1 DEF IInv, fixed
  <2>3. HoldsAreReal'
    BY HandsKept, LinesKept DEF HoldsAreReal, HandsReal, LinesReal
  <2>4. QED
    BY <2>2, <2>3, TypeKept DEF IInv
<1>2. QED
  BY <1>1, InitHolds, PTL DEF Spec

\* The touch the firmware reads is a pixel of the screen and the battery a
\* percentage, wherever the mouse is dragged and however small the window
\* (set_touch, set_battery_from_x).
THEOREM TypeCorrect == Spec => []TypeOK
BY Invariant, PTL DEF IInv

\* The lines of the bus are what the mouse and the keys hold, and under an
\* overlay nothing is held (release_all_holds, press_action, release_action).
THEOREM HoldsSound == Spec => []HoldsAreReal
BY Invariant, PTL DEF IInv

-----------------------------------------------------------------------------
(***************************************************************************)
(* The refinement of the power key: every step presses it, holds it for    *)
(* long, releases it or leaves it alone.                                   *)
(***************************************************************************)
Key == IF ~PwrIsHeld THEN "up" ELSE IF pwrLongSent THEN "long" ELSE "down"
Follows == [Power!Next]_<<Key, pwrEvents>>

LEMMA StutterFollows ==
  ASSUME PwrIsHeld' <=> PwrIsHeld, UNCHANGED <<pwrLongSent, pwrEvents>> PROVE Follows
BY DEF Follows, Key

LEMMA PressFollows ==
  ASSUME PwrIsHeld', pwrLongSent' = FALSE, pwrEvents' = pwrEvents PROVE Follows
<1>1. Key' = "down"
  BY DEF Key
<1>2. CASE ~PwrIsHeld
  BY <1>1, <1>2 DEF Follows, Key, Power!Next, Power!Press
<1>3. CASE PwrIsHeld /\ pwrLongSent
  BY <1>1, <1>3 DEF Follows, Key, Power!Next, Power!PressAgain
<1>4. CASE PwrIsHeld /\ ~pwrLongSent
  BY <1>1, <1>4 DEF Follows, Key
<1>5. QED
  BY <1>2, <1>3, <1>4

LEMMA ReleaseFollows ==
  ASSUME PwrIsHeld, ~PwrIsHeld',
         pwrEvents' = Append(pwrEvents, IF pwrLongSent THEN 3 ELSE 1)
  PROVE  Follows
<1>1. Key' = "up" /\ Key # "up" /\ (Key = "long" <=> pwrLongSent)
  BY DEF Key
<1>2. QED
  BY <1>1 DEF Follows, Key, Power!Next, Power!Release

LEMMA LongFollows ==
  ASSUME LongPress PROVE Follows
<1>1. PwrIsHeld' <=> PwrIsHeld
  BY DEF LongPress, PwrIsHeld, HeldBy, Nubs, fixed, holds
<1>2. Key = "down" /\ Key' = "long" /\ pwrEvents' = Append(pwrEvents, 2)
  BY <1>1 DEF LongPress, Key
<1>3. QED
  BY <1>2 DEF Follows, Key, Power!Next, Power!HoldLong

LEMMA OnePwr ==
  ASSUME IInv, NEW i \in Nubs, NEW j \in Nubs,
         board.buttons[i].action = "pwr", board.buttons[j].action = "pwr"
  PROVE  i = j
<1> DEFINE all == {n \in Shown(board) : board.buttons[n].action = "pwr"}
<1>1. all \in SUBSET Shown(board) /\ i \in all /\ j \in all
  BY DEF Nubs
<1>2. IsFiniteSet(all) /\ Cardinality(all) \in Nat
  BY <1>1, Opened, ShownButtons
<1>3. Cardinality(all) <= 1
  BY WindowConstants DEF IInv, TypeOK
<1>4. Cardinality(all) # 0
  BY <1>1, <1>2, FS_EmptySet
<1>5. Cardinality(all) = 1
  <2> HIDE DEF all
  <2>1. QED
    BY <1>2, <1>3, <1>4
<1>6. PICK n : all = {n}
  BY <1>2, <1>5, FS_Singleton
<1>7. QED
  BY <1>1, <1>6

\* Buttons that someone holds are let go of by all who hold them.
LEMMA LetGoFollows ==
  ASSUME IInv, NEW B \in SUBSET Nubs, Release(B), board' = board,
         \A i \in B : HeldBy(i),
         \A i \in Nubs : HeldBy(i)' <=> HeldBy(i) /\ i \notin B
  PROVE  Follows
<1>1. PwrIsHeld' <=> \E i \in Nubs : board.buttons[i].action = "pwr" /\ HeldBy(i)'
  BY DEF PwrIsHeld, Nubs
<1>2. CASE Having(B, "pwr") = {}
  <2>1. PwrIsHeld' <=> PwrIsHeld
    BY <1>1, <1>2 DEF PwrIsHeld, Having
  <2>2. UNCHANGED <<pwrLongSent, pwrEvents>>
    BY <1>2, ReleaseEdges DEF Release, power
  <2>3. QED
    BY <2>1, <2>2, StutterFollows
<1>3. CASE Having(B, "pwr") # {}
  <2>1. PICK n \in B : board.buttons[n].action = "pwr"
    BY <1>3 DEF Having
  <2>2. PwrIsHeld
    BY <2>1 DEF PwrIsHeld
  <2>3. ~PwrIsHeld'
    BY <1>1, <2>1, OnePwr
  <2>4. pwrEvents' = Append(pwrEvents, IF pwrLongSent THEN 3 ELSE 1)
    BY <1>3, ReleaseEdges
  <2>5. QED
    BY <2>2, <2>3, <2>4, ReleaseFollows
<1>4. QED
  BY <1>2, <1>3

\* Buttons that one more hand holds.
LEMMA TakeHoldFollows ==
  ASSUME IInv, NEW B \in SUBSET Nubs, Press(B), board' = board,
         \A i \in Nubs : HeldBy(i)' <=> HeldBy(i) \/ i \in B
  PROVE  Follows
<1>1. PwrIsHeld' <=> \E i \in Nubs : board.buttons[i].action = "pwr" /\ HeldBy(i)'
  BY DEF PwrIsHeld, Nubs
<1>2. pwrEvents' = pwrEvents
  BY DEF Press
<1>3. CASE Having(B, "pwr") = {}
  <2>1. PwrIsHeld' <=> PwrIsHeld
    BY <1>1, <1>3 DEF PwrIsHeld, Having
  <2>2. pwrLongSent' = pwrLongSent
    BY <1>3 DEF Press, power
  <2>3. QED
    BY <1>2, <2>1, <2>2, StutterFollows
<1>4. CASE Having(B, "pwr") # {}
  <2>1. PwrIsHeld'
    BY <1>1, <1>4 DEF Having
  <2>2. pwrLongSent' = FALSE
    BY <1>4 DEF Press
  <2>3. QED
    BY <1>2, <2>1, <2>2, PressFollows
<1>5. QED
  BY <1>3, <1>4

LEMMA StepFollows ==
  ASSUME IInv, [Next]_vars PROVE Follows
<1> USE DEF fixed, hands, holds, power, overlays, lines, hardware
<1>1. board' = board
  BY DEF Next, MouseClick, ClickMore, DismissHelp, ClickPanel, ClickOutside, TouchScreen,
         PressNub, ClickBezel, OnDevice, MouseGoesDown, MouseUp, MouseMove, OverlayKey, Escape,
         Backtick, HelpKey, ButtonKey, KeyUp, CloseWindow, HoldOn, LongPress, vars
<1>2. 0 \notin Nubs /\ mouseHeld \in Nubs \cup {0} /\ keyHeld \subseteq Nubs
  BY Opened DEF IInv, TypeOK
<1>3. ASSUME UNCHANGED <<mouseHeld, keyHeld, pwrLongSent, pwrEvents>> PROVE Follows
  <2>1. PwrIsHeld' <=> PwrIsHeld
    BY <1>1, <1>3 DEF PwrIsHeld, HeldBy, Nubs
  <2>2. QED
    BY <1>3, <2>1, StutterFollows
<1>4. ASSUME ReleaseAllHolds PROVE Follows
  <2> DEFINE B == {i \in Nubs : HeldBy(i)}
  <2>1. B \in SUBSET Nubs /\ Release(B) /\ \A i \in B : HeldBy(i)
    BY <1>4 DEF ReleaseAllHolds
  <2>2. \A i \in Nubs : HeldBy(i)' <=> HeldBy(i) /\ i \notin B
    BY <1>2, <1>4 DEF ReleaseAllHolds, HeldBy
  <2>3. QED
    <3> HIDE DEF B
    <3>1. QED
      BY <1>1, <2>1, <2>2, LetGoFollows
<1>5. ASSUME OpenHelp \/ OpenPanel \/ ClosePanel \/ CloseHelp PROVE Follows
  BY <1>3, <1>4, <1>5 DEF OpenHelp, OpenPanel, ClosePanel, CloseHelp
<1>6. ASSUME NEW p \in Points, ClickMore(p) \/ DismissHelp(p) \/ ClickOutside(p)
      PROVE  Follows
  BY <1>5, <1>6 DEF ClickMore, DismissHelp, ClickOutside
<1>7. ASSUME NEW p \in Points,
             ClickPanel(p) \/ TouchScreen(p) \/ ClickBezel(p) \/ MouseMove(p)
      PROVE  Follows
  BY <1>3, <1>7 DEF ClickPanel, TouchScreen, ClickBezel, MouseMove
<1>8. ASSUME NEW p \in Points, PressNub(p) PROVE Follows
  <2>1. PICK n \in HitNubs(p) : Press({n}) /\ mouseHeld' = n
    BY <1>8 DEF PressNub
  <2>2. {n} \in SUBSET Nubs
    BY <2>1 DEF HitNubs
  <2>3. ~mouseDown /\ keyHeld' = keyHeld
    BY <1>8 DEF PressNub, OnDevice, MouseGoesDown
  <2>4. mouseHeld = 0
    BY <2>3, RealParts DEF IInv, HandsReal
  <2>5. \A i \in Nubs : HeldBy(i)' <=> HeldBy(i) \/ i \in {n}
    BY <1>2, <2>1, <2>3, <2>4 DEF HeldBy
  <2>6. QED
    BY <1>1, <2>1, <2>2, <2>5, TakeHoldFollows
<1>9. CASE MouseUp
  <2> DEFINE B == {mouseHeld} \ (keyHeld \cup {0})
  <2>1. B \in SUBSET Nubs /\ Release(B) /\ \A i \in B : HeldBy(i)
    BY <1>2, <1>9 DEF MouseUp, HeldBy
  <2>2. \A i \in Nubs : HeldBy(i)' <=> HeldBy(i) /\ i \notin B
    BY <1>2, <1>9 DEF MouseUp, HeldBy
  <2>3. QED
    <3> HIDE DEF B
    <3>1. QED
      BY <1>1, <2>1, <2>2, LetGoFollows
<1>10. CASE Escape \/ Backtick \/ HelpKey
  BY <1>3, <1>5, <1>10 DEF Escape, Backtick, HelpKey
<1>11. ASSUME NEW k \in ButtonKeys, ButtonKey(k) PROVE Follows
  <2>1. CASE helpOpen \/ panelOpen
    BY <1>3, <1>11, <2>1 DEF ButtonKey
  <2>2. CASE ~(helpOpen \/ panelOpen)
    <3>1. KeyOf(k) \in SUBSET Nubs
      BY DEF KeyOf
    <3>2. Press(KeyOf(k)) /\ keyHeld' = keyHeld \cup KeyOf(k) /\ mouseHeld' = mouseHeld
      BY <1>11, <2>2 DEF ButtonKey
    <3>3. \A i \in Nubs : HeldBy(i)' <=> HeldBy(i) \/ i \in KeyOf(k)
      BY <3>2 DEF HeldBy
    <3>4. QED
      BY <1>1, <3>1, <3>2, <3>3, TakeHoldFollows
  <2>3. QED
    BY <2>1, <2>2
<1>12. ASSUME NEW k \in keysDown, KeyUp(k) PROVE Follows
  <2> DEFINE B == (keyHeld \cap KeyOf(k)) \ {mouseHeld}
  <2>1. B \in SUBSET Nubs /\ Release(B) /\ \A i \in B : HeldBy(i)
    BY <1>2, <1>12 DEF KeyUp, HeldBy
  <2>2. keyHeld' = keyHeld \ KeyOf(k) /\ mouseHeld' = mouseHeld
    BY <1>12 DEF KeyUp
  <2>3. \A i \in Nubs : HeldBy(i)' <=> HeldBy(i) /\ i \notin B
    BY <2>2 DEF HeldBy
  <2>4. QED
    <3> HIDE DEF B
    <3>1. QED
      BY <1>1, <2>1, <2>3, LetGoFollows
<1>13. CASE CloseWindow \/ HoldOn \/ UNCHANGED vars
  BY <1>3, <1>13 DEF CloseWindow, HoldOn, vars
<1>14. CASE LongPress
  BY <1>14, LongFollows
<1>15. QED
  BY <1>6, <1>7, <1>8, <1>9, <1>10, <1>11, <1>12, <1>13, <1>14 DEF Next, MouseClick

\* The firmware sees the edges a PMU would report, however the mouse and the
\* keys share the power key and whatever overlay takes it from them: the window
\* implements PowerKey.
THEOREM Refinement == Spec => PowerSpec
<1>1. Init => Power!Init
  <2> SUFFICES ASSUME Init PROVE Power!Init
    OBVIOUS
  <2>1. board \in BoardDesc
    BY WindowConstants DEF Init, Fresh
  <2>2. 0 \notin Nubs /\ mouseHeld = 0 /\ keyHeld = {} /\ pwrEvents = << >>
    BY <2>1, ShownButtons DEF Nubs, Init, Fresh
  <2>3. ~PwrIsHeld
    BY <2>2 DEF PwrIsHeld, HeldBy
  <2>4. QED
    BY <2>2, <2>3 DEF Power!Init
<1>2. IInv /\ [Next]_vars =>
        [Power!Next]_<<IF ~PwrIsHeld THEN "up" ELSE IF pwrLongSent THEN "long" ELSE "down",
                       pwrEvents>>
  BY StepFollows DEF Follows, Key
<1>3. QED
  BY <1>1, <1>2, Invariant, PTL DEF Spec, PowerSpec, Power!Spec

-----------------------------------------------------------------------------
(***************************************************************************)
(* The layout: where AutoStart and NubStart put the nubs of an edge.       *)
(***************************************************************************)
LEMMA NubSizes ==
  NubLong = 36 /\ NubThick = 12 /\ HitInflate = 6 /\ Pitch = 48 /\ BezelMargin = 26
  /\ NubProtrude = 14
BY DEF NubLong, NubThick, HitInflate, Pitch, BezelMargin, NubProtrude

LEMMA TimesMonotone ==
  ASSUME NEW d \in Nat \ {0}, NEW a \in Int, NEW b \in Int, a <= b PROVE d * a <= d * b
OBVIOUS

LEMMA Quotient ==
  ASSUME NEW a \in Int, NEW d \in Nat \ {0}
  PROVE  a \div d \in Int /\ d * (a \div d) <= a /\ a < d * (a \div d) + d
OBVIOUS

\* Numerators that are k denominators apart have quotients k apart.
LEMMA QuotientGap ==
  ASSUME NEW a \in Int, NEW b \in Int, NEW d \in Nat \ {0}, NEW k \in Int, a + k * d <= b
  PROVE  (a \div d) + k <= b \div d
<1> DEFINE p == a \div d
           q == b \div d
<1>1. p \in Int /\ d * p <= a /\ a < d * p + d
  BY Quotient
<1>2. q \in Int /\ d * q <= b /\ b < d * q + d
  BY Quotient
<1>3. SUFFICES ASSUME q + 1 <= p + k PROVE FALSE
  BY <1>1, <1>2
<1> HIDE DEF p, q
<1>4. d * (q + 1) <= d * (p + k)
  BY <1>1, <1>2, <1>3, TimesMonotone
<1>5. d * (q + 1) = d * q + d /\ d * (p + k) = d * p + k * d
  BY <1>1, <1>2
<1>6. d * q \in Int /\ d * p \in Int /\ k * d \in Int
  BY <1>1, <1>2
<1>7. QED
  BY <1>1, <1>2, <1>4, <1>5, <1>6

\* The same fraction twice.
LEMMA QuotientSame ==
  ASSUME NEW a \in Int, NEW n \in Nat \ {0} PROVE (n * a) \div (10 * n) = a \div 10
<1> DEFINE q == a \div 10
           r == (n * a) \div (10 * n)
<1>1. q \in Int /\ 10 * q <= a /\ a < 10 * q + 10
  BY Quotient
<1>2. n * a \in Int /\ 10 * n \in Nat \ {0}
  OBVIOUS
<1>3. r \in Int /\ (10 * n) * r <= n * a /\ n * a < (10 * n) * r + 10 * n
  <2> HIDE DEF r
  <2>1. QED
    BY <1>2, Quotient DEF r
<1> HIDE DEF q, r
<1>4. n * (10 * q) <= n * a
  BY <1>1, TimesMonotone
<1>5. n * (a + 1) <= n * (10 * q + 10)
  BY <1>1, TimesMonotone
<1>6. r < q + 1
  <2>1. SUFFICES ASSUME q + 1 <= r PROVE FALSE
    BY <1>1, <1>3
  <2>2. (10 * n) * (q + 1) <= (10 * n) * r
    BY <1>1, <1>2, <1>3, <2>1, TimesMonotone
  <2>3. QED
    BY <1>1, <1>3, <1>5, <2>2
<1>7. q < r + 1
  <2>1. SUFFICES ASSUME r + 1 <= q PROVE FALSE
    BY <1>1, <1>3
  <2>2. (10 * n) * (r + 1) <= (10 * n) * q
    BY <1>1, <1>2, <1>3, <2>1, TimesMonotone
  <2>3. QED
    BY <1>1, <1>3, <1>4, <2>2
<1>8. QED
  BY <1>1, <1>3, <1>6, <1>7 DEF q, r

\* The first and the last of n stacked nubs are on the edge, if one nub is.
LEMMA AutoStartRange ==
  ASSUME NEW n \in Nat \ {0}, NEW idx \in 0 .. n - 1, NEW origin \in Int, NEW length \in Nat,
         NubLong <= length
  PROVE  /\ AutoStart(idx, n, origin, length) \in Int
         /\ origin <= AutoStart(idx, n, origin, length)
         /\ AutoStart(idx, n, origin, length) <= origin + length - NubLong
<1> DEFINE span == (n - 1) * Pitch + NubLong
           far == (10 * n * origin + 2 * n * length + 3 * length * (2 * idx + 1)) \div (10 * n)
           near == (2 * n * origin + length * (2 * idx + 1)) \div (2 * n)
           lo == (10 * origin + 2 * length) \div 10
           hi == (10 * origin + 8 * length) \div 10 - NubLong
           start == AutoStart(idx, n, origin, length)
<1>1. AutoStart(idx, n, origin, length) \in Int
  <2>1. idx \in Int /\ length \in Int
    OBVIOUS
  <2>2. QED
    BY <2>1, AutoStartInt
<1>2. CASE 6 * length >= 10 * Pitch * n
  <2>1. start = Clamp(far - NubLong \div 2, lo, hi)
    <3>1. ~(6 * length < 10 * Pitch * n)
      BY <1>2, NubSizes
    <3>2. QED
      BY <1>2, <3>1 DEF AutoStart
  <2>2. far \in Int
    <3>1. /\ 10 * n * origin + 2 * n * length + 3 * length * (2 * idx + 1) \in Int
          /\ 10 * n \in Nat \ {0}
      OBVIOUS
    <3>2. QED
      BY <3>1, Quotient
  <2>3. length >= 80
    <3>1. 480 * 1 <= 480 * n
      OBVIOUS
    <3>2. QED
      BY <1>2, <3>1, NubSizes
  <2>4. lo \in Int /\ hi \in Int /\ lo <= hi /\ origin <= lo /\ hi <= origin + length - NubLong
    BY <2>3, NubSizes
  <2>5. far - NubLong \div 2 \in Int
    <3> HIDE DEF far
    <3>1. QED
      BY <2>2, NubSizes
  <2>6. start \in lo .. hi
    <3> HIDE DEF far, lo, hi, start
    <3>1. QED
      BY <2>1, <2>4, <2>5, ClampInRange
  <2>7. QED
    <3> HIDE DEF lo, hi
    <3>1. QED
      BY <1>1, <2>4, <2>6, NubSizes
<1>3. CASE ~(6 * length >= 10 * Pitch * n) /\ span <= length
  <2>1. start = origin + (length - span) \div 2 + idx * Pitch
    <3>1. 6 * length < 10 * Pitch * n
      BY <1>3, NubSizes
    <3>2. QED
      BY <1>3, <3>1 DEF AutoStart
  <2>2. span = 48 * (n - 1) + 36 /\ idx * Pitch = 48 * idx
    BY NubSizes
  <2>3. QED
    BY <1>3, <2>1, <2>2, NubSizes
<1>4. CASE ~(6 * length >= 10 * Pitch * n) /\ ~(span <= length)
  <2>1. start = Clamp(near - NubLong \div 2, origin, origin + length - NubLong)
    BY <1>4 DEF AutoStart
  <2>2. near \in Int
    <3>1. 2 * n * origin + length * (2 * idx + 1) \in Int /\ 2 * n \in Nat \ {0}
      OBVIOUS
    <3>2. QED
      BY <3>1, Quotient
  <2>3. near - NubLong \div 2 \in Int
    <3> HIDE DEF near
    <3>1. QED
      BY <2>2, NubSizes
  <2>4. origin + length - NubLong \in Int /\ origin <= origin + length - NubLong
    BY NubSizes
  <2>5. start \in origin .. origin + length - NubLong
    <3> HIDE DEF near, start
    <3>1. QED
      BY <2>1, <2>3, <2>4, ClampInRange
  <2>6. QED
    BY <1>1, <2>4, <2>5
<1>5. QED
  BY <1>2, <1>3, <1>4

\* On an edge with the room, what a click meets of two stacked nubs is apart.
LEMMA AutoStartGap ==
  ASSUME NEW n \in Nat \ {0}, NEW idx \in 0 .. n - 1, NEW later \in 0 .. n - 1, idx < later,
         NEW origin \in Int, NEW length \in Nat, (n - 1) * Pitch + NubLong <= length
  PROVE  AutoStart(idx, n, origin, length) + Pitch <= AutoStart(later, n, origin, length)
<1> DEFINE num(k) == 10 * n * origin + 2 * n * length + 3 * length * (2 * k + 1)
           far(k) == num(k) \div (10 * n)
           lo == (10 * origin + 2 * length) \div 10
           hi == (10 * origin + 8 * length) \div 10 - NubLong
           span == (n - 1) * Pitch + NubLong
<1>1. CASE 6 * length >= 10 * Pitch * n
  <2> DEFINE d == 10 * n
  <2>1. d \in Nat \ {0} /\ \A k \in Int : num(k) \in Int
    OBVIOUS
  <2>2. 48 * d <= 6 * length
    BY <1>1, NubSizes
  <2>3. ASSUME NEW a \in 0 .. n - 1, NEW b \in 0 .. n - 1, a < b
        PROVE  num(a) + 48 * d <= num(b)
    <3>1. num(b) = num(a) + (6 * length) * (b - a)
      OBVIOUS
    <3>2. (6 * length) * 1 <= (6 * length) * (b - a)
      <4>1. 6 * length \in Nat \ {0}
        BY <2>1, <2>2
      <4>2. QED
        BY <2>3, <4>1, TimesMonotone
    <3> HIDE DEF num, d
    <3>3. QED
      BY <2>1, <2>2, <3>1, <3>2
  <2>4. far(idx) + 48 <= far(later)
    <3>1. num(idx) + 48 * d <= num(later)
      BY <2>3
    <3>2. num(idx) \in Int /\ num(later) \in Int
      BY <2>1
    <3> HIDE DEF num
    <3>3. QED
      BY <2>1, <3>1, <3>2, QuotientGap
  <2>5. \A k \in 0 .. n - 1 : far(k) \in Int /\ lo + 24 <= far(k) /\ far(k) + 24 <= hi + NubLong
    <3> SUFFICES ASSUME NEW k \in 0 .. n - 1
                 PROVE  far(k) \in Int /\ lo + 24 <= far(k) /\ far(k) + 24 <= hi + NubLong
      OBVIOUS
    <3> DEFINE left == n * (10 * origin + 2 * length)
               right == n * (10 * origin + 8 * length)
    <3>1. left \div d = lo /\ right \div d = hi + NubLong
      <4>1. 10 * origin + 2 * length \in Int /\ 10 * origin + 8 * length \in Int
        OBVIOUS
      <4>2. lo \in Int /\ hi \in Int /\ hi + NubLong = (10 * origin + 8 * length) \div 10
        BY NubSizes
      <4>3. QED
        BY <4>1, <4>2, QuotientSame
    <3>2. left \in Int /\ right \in Int
      OBVIOUS
    <3>3. num(k) = left + 3 * length * (2 * k + 1)
      OBVIOUS
    <3>4. right = num(k) + 3 * length * (2 * (n - 1 - k) + 1)
      OBVIOUS
    <3>5. /\ 3 * length * 1 <= 3 * length * (2 * k + 1)
          /\ 3 * length * 1 <= 3 * length * (2 * (n - 1 - k) + 1)
      <4>1. 3 * length \in Nat \ {0}
        BY <2>1, <2>2
      <4>2. 1 <= 2 * k + 1 /\ 1 <= 2 * (n - 1 - k) + 1
        OBVIOUS
      <4>3. QED
        BY <4>1, <4>2, TimesMonotone
    <3>6. 24 * d <= 3 * length
      BY <2>1, <2>2
    <3>7. left + 24 * d <= num(k) /\ num(k) + 24 * d <= right
      <4>1. num(k) \in Int /\ 3 * length * (2 * k + 1) \in Int
            /\ 3 * length * (2 * (n - 1 - k) + 1) \in Int
        BY <2>1
      <4> HIDE DEF num, left, right, d
      <4>2. QED
        BY <2>1, <3>2, <3>3, <3>4, <3>5, <3>6, <4>1
    <3>8. num(k) \in Int
      BY <2>1
    <3>9. (left \div d) + 24 <= num(k) \div d /\ (num(k) \div d) + 24 <= right \div d
      <4> HIDE DEF num, left, right, d
      <4>1. QED
        BY <2>1, <3>2, <3>7, <3>8, QuotientGap
    <3>10. num(k) \div d \in Int
      <4> HIDE DEF num, d
      <4>1. QED
        BY <2>1, <3>8, Quotient
    <3>11. QED
      <4> HIDE DEF num, left, right, lo, hi
      <4>1. QED
        BY <3>1, <3>9, <3>10
  <2>6. \A k \in 0 .. n - 1 : AutoStart(k, n, origin, length) = far(k) - 18
    <3> SUFFICES ASSUME NEW k \in 0 .. n - 1
                 PROVE  AutoStart(k, n, origin, length) = far(k) - 18
      OBVIOUS
    <3>1. ~(6 * length < 10 * Pitch * n)
      BY <1>1, NubSizes
    <3>2. AutoStart(k, n, origin, length) = Clamp(far(k) - NubLong \div 2, lo, hi)
      BY <1>1, <3>1 DEF AutoStart
    <3>3. lo \in Int /\ hi \in Int
      BY NubSizes
    <3>4. far(k) \in Int /\ lo + 24 <= far(k) /\ far(k) + 24 <= hi + NubLong
      BY <2>5
    <3>5. NubLong \div 2 = 18
      BY NubSizes
    <3> HIDE DEF far, lo, hi
    <3>6. lo <= far(k) - 18 /\ far(k) - 18 <= hi /\ lo <= hi
      BY <3>3, <3>4, NubSizes
    <3>7. QED
      BY <3>2, <3>3, <3>4, <3>5, <3>6 DEF Clamp, Most, Least
  <2>7. far(idx) \in Int /\ far(later) \in Int
    BY <2>5
  <2>8. QED
    <3> HIDE DEF far
    <3>1. QED
      BY <2>4, <2>6, <2>7, NubSizes
<1>2. CASE ~(6 * length >= 10 * Pitch * n)
  <2>1. \A k \in 0 .. n - 1 :
          AutoStart(k, n, origin, length) = origin + (length - span) \div 2 + k * Pitch
    <3>1. 6 * length < 10 * Pitch * n
      BY <1>2, NubSizes
    <3>2. QED
      BY <1>2, <3>1 DEF AutoStart
  <2>2. span \in Int
    BY NubSizes
  <2>3. (length - span) \div 2 \in Int
    <3> HIDE DEF span
    <3>1. QED
      BY <2>2
  <2>4. QED
    <3> HIDE DEF span
    <3>1. QED
      BY <2>1, <2>3, NubSizes
<1>3. QED
  BY <1>1, <1>2

LEMMA FixedStartRange ==
  ASSUME NEW pos \in Nat, NEW origin \in Int, NEW length \in Nat, NubLong <= length
  PROVE  /\ FixedStart(pos, origin, length) \in Int
         /\ origin <= FixedStart(pos, origin, length)
         /\ FixedStart(pos, origin, length) <= origin + length - NubLong
<1>1. Least(pos, 100) \in Int
  BY LeastMostInt
<1>2. (Least(pos, 100) * length) \div 100 \in Int
  BY <1>1
<1>3. origin + (Least(pos, 100) * length) \div 100 - NubLong \div 2 \in Int
  BY <1>2, NubSizes
<1>4. origin + length - NubLong \in Int /\ origin <= origin + length - NubLong
  BY NubSizes
<1>5. FixedStart(pos, origin, length) \in origin .. origin + length - NubLong
  BY <1>3, <1>4, ClampInRange DEF FixedStart
<1>6. QED
  BY <1>4, <1>5

Origin(l, edge) == IF Vertical(edge) THEN l.screen.y ELSE l.screen.x
Edges == {"left", "right", "top", "bottom"}

\* The frame of the window: its margins, and the "..." nub in its corner.
LEMMA Frame ==
  ASSUME NEW b \in BoardDesc, NEW s \in Nat \ {0}, NEW l, l = Layout(b, s)
  PROVE  /\ l \in Layouts(b)
         /\ \A e \in Edges : EdgeMargin(b, e) \in {26, 40}
                             /\ (OnEdge(b, e) # {} => EdgeMargin(b, e) = 40)
         /\ l.screen.x = EdgeMargin(b, "left") /\ l.screen.y = EdgeMargin(b, "top")
         /\ l.screen.w \in Nat \ {0} /\ l.screen.h \in Nat \ {0}
         /\ l.window.x = 0 /\ l.window.y = 0
         /\ l.window.w = l.screen.w + EdgeMargin(b, "left") + EdgeMargin(b, "right")
         /\ l.window.h = l.screen.h + EdgeMargin(b, "top") + EdgeMargin(b, "bottom")
         /\ l.more = MoreNub(b, l.window)
         /\ \A i \in Shown(b) :
              l.hits[i] = Inflate(NubBody(b.buttons[i].edge, NubStart(b, i, l.screen, l.more),
                                          l.window), HitInflate)
<1>1. l \in Layouts(b)
  BY LayoutType
<1>2. \A e \in Edges : EdgeMargin(b, e) \in {26, 40}
                       /\ (OnEdge(b, e) # {} => EdgeMargin(b, e) = 40)
  BY NubSizes DEF EdgeMargin
<1>3. l.screen = Rect(EdgeMargin(b, "left"), EdgeMargin(b, "top"), b.width * s, b.height * s)
  BY DEF Layout
<1>4. l.screen.x = EdgeMargin(b, "left") /\ l.screen.y = EdgeMargin(b, "top")
      /\ l.screen.w = b.width * s /\ l.screen.h = b.height * s
  BY <1>3 DEF Rect
<1>5. b.width * s \in Nat \ {0} /\ b.height * s \in Nat \ {0}
  BY DEF BoardDesc
<1>6. l.window = Rect(0, 0, l.screen.w + EdgeMargin(b, "left") + EdgeMargin(b, "right"),
                      l.screen.h + EdgeMargin(b, "top") + EdgeMargin(b, "bottom"))
  BY DEF Layout
<1>7. /\ l.window.x = 0 /\ l.window.y = 0
      /\ l.window.w = l.screen.w + EdgeMargin(b, "left") + EdgeMargin(b, "right")
      /\ l.window.h = l.screen.h + EdgeMargin(b, "top") + EdgeMargin(b, "bottom")
  BY <1>6 DEF Rect
<1>8. l.more = MoreNub(b, l.window)
  BY DEF Layout
<1>9. \A i \in Shown(b) :
        l.hits[i] = Inflate(NubBody(b.buttons[i].edge, NubStart(b, i, l.screen, l.more),
                                    l.window), HitInflate)
  BY DEF Layout
<1>10. QED
  BY <1>1, <1>2, <1>4, <1>5, <1>7, <1>8, <1>9

\* What a click has to meet of a nub that starts at st.
HitAt(edge, st, l) ==
  CASE edge = "right" -> Rect(l.window.w - 24, st - 6, 24, 48)
    [] edge = "left" -> Rect(0, st - 6, 24, 48)
    [] edge = "top" -> Rect(st - 6, 0, 48, 24)
    [] edge = "bottom" -> Rect(st - 6, l.window.h - 24, 48, 24)

LEMMA HitOfNub ==
  ASSUME NEW b \in BoardDesc, NEW s \in Nat \ {0}, NEW l, l = Layout(b, s), NEW i \in Shown(b)
  PROVE  /\ b.buttons[i].edge \in Edges /\ b.buttons[i].pos \in Int
         /\ NubStart(b, i, l.screen, l.more) \in Int
         /\ l.hits[i] = HitAt(b.buttons[i].edge, NubStart(b, i, l.screen, l.more), l)
<1> DEFINE e == b.buttons[i].edge
           st == NubStart(b, i, l.screen, l.more)
<1>1. e \in Edges /\ b.buttons[i].pos \in Int
  BY ShownButtons DEF SimButton, Edges
<1>2. l \in Layouts(b) /\ l.hits[i] = Inflate(NubBody(e, st, l.window), HitInflate)
  BY Frame
<1>3. l.screen \in Rects /\ l.more \in Rects /\ l.window \in Rects
  BY <1>2 DEF Layouts
<1>4. st \in Int
  BY <1>3, NubStartInt
<1>5. l.window.w \in Int /\ l.window.h \in Int
  BY <1>3 DEF Rects
<1> HIDE DEF e, st
<1>6. ASSUME e = "right" PROVE l.hits[i] = HitAt(e, st, l)
  <2>1. NubBody(e, st, l.window) = Rect(l.window.w - 18, st, 12, 36)
    BY <1>5, <1>6, NubSizes DEF NubBody
  <2>2. Inflate(Rect(l.window.w - 18, st, 12, 36), 6) = Rect(l.window.w - 24, st - 6, 24, 48)
    BY <1>4, <1>5 DEF Inflate, Rect
  <2>3. QED
    BY <1>2, <1>6, <2>1, <2>2, NubSizes DEF HitAt
<1>7. ASSUME e = "left" PROVE l.hits[i] = HitAt(e, st, l)
  <2>1. NubBody(e, st, l.window) = Rect(6, st, 12, 36)
    BY <1>5, <1>7, NubSizes DEF NubBody
  <2>2. Inflate(Rect(6, st, 12, 36), 6) = Rect(0, st - 6, 24, 48)
    BY <1>4, <1>5 DEF Inflate, Rect
  <2>3. QED
    BY <1>2, <1>7, <2>1, <2>2, NubSizes DEF HitAt
<1>8. ASSUME e = "top" PROVE l.hits[i] = HitAt(e, st, l)
  <2>1. NubBody(e, st, l.window) = Rect(st, 6, 36, 12)
    BY <1>5, <1>8, NubSizes DEF NubBody
  <2>2. Inflate(Rect(st, 6, 36, 12), 6) = Rect(st - 6, 0, 48, 24)
    BY <1>4, <1>5 DEF Inflate, Rect
  <2>3. QED
    BY <1>2, <1>8, <2>1, <2>2, NubSizes DEF HitAt
<1>9. ASSUME e = "bottom" PROVE l.hits[i] = HitAt(e, st, l)
  <2>1. NubBody(e, st, l.window) = Rect(st, l.window.h - 18, 36, 12)
    BY <1>5, <1>9, NubSizes DEF NubBody
  <2>2. Inflate(Rect(st, l.window.h - 18, 36, 12), 6) = Rect(st - 6, l.window.h - 24, 48, 24)
    BY <1>4, <1>5 DEF Inflate, Rect
  <2>3. QED
    BY <1>2, <1>9, <2>1, <2>2, NubSizes DEF HitAt
<1>10. QED
  BY <1>1, <1>4, <1>6, <1>7, <1>8, <1>9 DEF Edges, e, st

\* The stacked nubs of an edge are numbered from 0 in the order of the buttons.
LEMMA AutoIndex ==
  ASSUME NEW b \in BoardDesc, NEW e, NEW i \in Autos(b, e), NEW j \in Autos(b, e)
  PROVE  /\ Cardinality(Autos(b, e)) \in Nat \ {0}
         /\ Cardinality({k \in Autos(b, e) : k < i}) \in 0 .. Cardinality(Autos(b, e)) - 1
         /\ i < j => Cardinality({k \in Autos(b, e) : k < i})
                       < Cardinality({k \in Autos(b, e) : k < j})
<1> DEFINE autos == Autos(b, e)
           upto(m) == {k \in autos : k < m}
<1>1. autos \in SUBSET Shown(b) /\ Shown(b) \subseteq Int
  BY DEF Autos, OnEdge, Shown
<1>2. IsFiniteSet(autos) /\ Cardinality(autos) \in Nat
  BY <1>1, ShownButtons
<1>3. \A m \in autos : upto(m) \in SUBSET autos /\ m \notin upto(m)
  BY <1>1
<1>4. \A m \in autos : IsFiniteSet(upto(m)) /\ Cardinality(upto(m)) \in Nat
  BY <1>2, <1>3, FS_Subset, FS_CardinalityType
<1>5. ASSUME NEW T, IsFiniteSet(T), NEW m \in autos, upto(m) \subseteq T, m \in T
      PROVE  Cardinality(upto(m)) < Cardinality(T)
  <2>1. Cardinality(upto(m)) <= Cardinality(T)
        /\ (Cardinality(T) = Cardinality(upto(m)) => T = upto(m))
    <3> HIDE DEF upto
    <3>1. QED
      BY <1>5, FS_Subset
  <2>2. T # upto(m)
    BY <1>3, <1>5
  <2>3. Cardinality(T) \in Nat
    BY <1>5, FS_CardinalityType
  <2> HIDE DEF upto
  <2>4. QED
    BY <1>4, <2>1, <2>2, <2>3
<1>6. Cardinality(upto(i)) < Cardinality(autos)
  <2>1. upto(i) \subseteq autos /\ i \in autos
    OBVIOUS
  <2> HIDE DEF upto, autos
  <2>2. QED
    BY <1>2, <1>5, <2>1
<1>7. i < j => Cardinality(upto(i)) < Cardinality(upto(j))
  <2>1. i < j => upto(i) \subseteq upto(j) /\ i \in upto(j)
    BY <1>1
  <2>2. i \in autos /\ IsFiniteSet(upto(j))
    BY <1>4
  <2> HIDE DEF upto, autos
  <2>3. QED
    BY <1>5, <2>1, <2>2
<1>8. QED
  <2>1. i \in autos
    OBVIOUS
  <2> HIDE DEF autos, upto
  <2>2. Cardinality(upto(i)) \in 0 .. Cardinality(autos) - 1 /\ Cardinality(autos) \in Nat \ {0}
    BY <1>2, <1>4, <1>6, <2>1
  <2>3. QED
    BY <1>7, <2>2 DEF autos, upto

LEMMA EdgeGeometry ==
  ASSUME NEW b \in BoardDesc, NEW s \in Nat \ {0}, NEW l, l = Layout(b, s), NEW e \in Edges
  PROVE  /\ Origin(l, e) \in 26 .. 40 /\ EdgeLength(l, e) \in Nat \ {0}
         /\ \/ e \in {"left", "right"} /\ Origin(l, e) = EdgeMargin(b, "top")
               /\ EdgeLength(l, e) = l.screen.h
            \/ e \in {"top", "bottom"} /\ Origin(l, e) = EdgeMargin(b, "left")
               /\ EdgeLength(l, e) = l.screen.w
         /\ l.more \in {NoRect, Rect(l.window.w - 36, l.window.h - 12, 36, 12)}
<1>1. \A d \in Edges : EdgeMargin(b, d) \in {26, 40}
  BY Frame
<1>2. EdgeMargin(b, "top") \in 26 .. 40 /\ EdgeMargin(b, "left") \in 26 .. 40
  BY <1>1 DEF Edges
<1>3. l.more \in {NoRect, Rect(l.window.w - 36, l.window.h - 12, 36, 12)}
  BY Frame, NubSizes DEF MoreNub
<1>4. CASE e \in {"left", "right"}
  BY <1>2, <1>3, <1>4, Frame DEF Origin, EdgeLength, Vertical
<1>5. CASE e \in {"top", "bottom"}
  BY <1>2, <1>3, <1>5, Frame DEF Origin, EdgeLength, Vertical
<1>6. QED
  BY <1>4, <1>5 DEF Edges

\* How far the stack at the bottom slides away from the "..." nub.
StackSize(b, e) == Cardinality(Autos(b, e))
IndexOf(b, e, i) == Cardinality({k \in Autos(b, e) : k < i})
StackStart(b, l, e, idx) == AutoStart(idx, StackSize(b, e), Origin(l, e), EdgeLength(l, e))
Overrun(b, l, e) == StackStart(b, l, e, StackSize(b, e) - 1) + NubLong + HitInflate - l.more.x
Slide(b, l, e) == IF e = "bottom" /\ l.more.w > 0 /\ Overrun(b, l, e) > 0
                  THEN Overrun(b, l, e) ELSE 0

LEMMA NubStartIs ==
  ASSUME NEW b \in BoardDesc, NEW s \in Nat \ {0}, NEW l, l = Layout(b, s),
         NEW i \in Shown(b), NEW e, e = b.buttons[i].edge
  PROVE  /\ b.buttons[i].pos >= 0 =>
              NubStart(b, i, l.screen, l.more) =
                FixedStart(b.buttons[i].pos, Origin(l, e), EdgeLength(l, e))
         /\ ~(b.buttons[i].pos >= 0) =>
              /\ i \in Autos(b, e)
              /\ NubStart(b, i, l.screen, l.more) =
                   LET start == StackStart(b, l, e, IndexOf(b, e, i))
                   IN IF e = "bottom" /\ l.more.w > 0 /\ Overrun(b, l, e) > 0
                      THEN Clamp(start - Overrun(b, l, e), HitInflate, start) ELSE start
<1>1. b.buttons[i].pos \in Int
  BY HitOfNub
<1>2. CASE b.buttons[i].pos >= 0
  <2>1. ~(b.buttons[i].pos < 0)
    BY <1>1, <1>2
  <2>2. QED
    BY <1>2, <2>1 DEF NubStart, Origin, EdgeLength
<1>3. CASE ~(b.buttons[i].pos >= 0)
  <2>1. b.buttons[i].pos < 0
    BY <1>1, <1>3
  <2>2. i \in Autos(b, e)
    BY <2>1 DEF Autos, OnEdge
  <2>3. NubStart(b, i, l.screen, l.more) =
          LET start == StackStart(b, l, e, IndexOf(b, e, i))
          IN IF e = "bottom" /\ l.more.w > 0 /\ Overrun(b, l, e) > 0
             THEN Clamp(start - Overrun(b, l, e), HitInflate, start) ELSE start
    BY <1>3, <2>1
    DEF NubStart, Origin, EdgeLength, StackStart, StackSize, IndexOf, Overrun
  <2>4. QED
    BY <1>3, <2>2, <2>3
<1>4. QED
  BY <1>2, <1>3

\* The stack, where one nub fits the edge at all.
LEMMA StackRange ==
  ASSUME NEW b \in BoardDesc, NEW s \in Nat \ {0}, NEW l, l = Layout(b, s), NEW e \in Edges,
         NEW i \in Autos(b, e), NubLong <= EdgeLength(l, e)
  PROVE  /\ \A idx \in {IndexOf(b, e, i), StackSize(b, e) - 1} :
              /\ StackStart(b, l, e, idx) \in Int
              /\ Origin(l, e) <= StackStart(b, l, e, idx)
              /\ StackStart(b, l, e, idx) <= Origin(l, e) + EdgeLength(l, e) - 36
         /\ Overrun(b, l, e) \in Int
         /\ Slide(b, l, e) \in 0 .. 16
<1>1. StackSize(b, e) \in Nat \ {0} /\ IndexOf(b, e, i) \in 0 .. StackSize(b, e) - 1
  BY AutoIndex DEF StackSize, IndexOf
<1>2. StackSize(b, e) - 1 \in 0 .. StackSize(b, e) - 1
  BY <1>1
<1>3. Origin(l, e) \in Int /\ EdgeLength(l, e) \in Nat /\ 26 <= Origin(l, e)
  BY EdgeGeometry
<1>4. \A idx \in 0 .. StackSize(b, e) - 1 :
        /\ StackStart(b, l, e, idx) \in Int
        /\ Origin(l, e) <= StackStart(b, l, e, idx)
        /\ StackStart(b, l, e, idx) <= Origin(l, e) + EdgeLength(l, e) - NubLong
  BY <1>1, <1>3, AutoStartRange DEF StackStart
<1> DEFINE last == StackStart(b, l, e, StackSize(b, e) - 1)
<1>5. last \in Int /\ last <= Origin(l, e) + EdgeLength(l, e) - 36
  BY <1>2, <1>4, NubSizes
<1>6. l.more.x \in Int
  BY Frame DEF Layouts, Rects
<1>7. Overrun(b, l, e) = last + 42 - l.more.x
  BY <1>5, <1>6, NubSizes DEF Overrun
<1> HIDE DEF last
<1>8. Overrun(b, l, e) \in Int
  BY <1>5, <1>6, <1>7
<1>9. ASSUME e = "bottom", l.more.w > 0 PROVE Overrun(b, l, e) <= 16
  <2>1. l.more = Rect(l.window.w - 36, l.window.h - 12, 36, 12)
    BY <1>9, EdgeGeometry DEF NoRect, Rect
  <2>2. l.more.x = l.window.w - 36
    BY <2>1 DEF Rect
  <2>3. l.window.w = l.screen.w + EdgeMargin(b, "left") + EdgeMargin(b, "right")
        /\ l.screen.w \in Nat
    BY Frame
  <2>4. Origin(l, e) = EdgeMargin(b, "left") /\ EdgeLength(l, e) = l.screen.w
    BY <1>9, EdgeGeometry
  <2>5. EdgeMargin(b, "right") \in {26, 40} /\ EdgeMargin(b, "left") \in {26, 40}
    BY Frame DEF Edges
  <2>6. QED
    BY <1>5, <1>7, <2>2, <2>3, <2>4, <2>5
<1>10. Slide(b, l, e) \in 0 .. 16
  BY <1>8, <1>9 DEF Slide
<1>11. QED
  BY <1>1, <1>2, <1>4, <1>8, <1>10, NubSizes

LEMMA StackedStart ==
  ASSUME NEW b \in BoardDesc, NEW s \in Nat \ {0}, NEW l, l = Layout(b, s), NEW e \in Edges,
         NEW i \in Autos(b, e), NubLong <= EdgeLength(l, e)
  PROVE  NubStart(b, i, l.screen, l.more) =
           StackStart(b, l, e, IndexOf(b, e, i)) - Slide(b, l, e)
<1> DEFINE start == StackStart(b, l, e, IndexOf(b, e, i))
<1>1. i \in Shown(b) /\ e = b.buttons[i].edge /\ b.buttons[i].pos < 0
  BY DEF Autos, OnEdge
<1>2. b.buttons[i].pos \in Int
  BY <1>1, HitOfNub
<1>3. NubStart(b, i, l.screen, l.more) =
        IF e = "bottom" /\ l.more.w > 0 /\ Overrun(b, l, e) > 0
        THEN Clamp(start - Overrun(b, l, e), HitInflate, start) ELSE start
  BY <1>1, <1>2, NubStartIs
<1>4. /\ start \in Int /\ Origin(l, e) <= start /\ Overrun(b, l, e) \in Int
      /\ Slide(b, l, e) \in 0 .. 16
  BY StackRange
<1>5. Origin(l, e) \in 26 .. 40
  BY EdgeGeometry
<1> HIDE DEF start
<1>6. CASE e = "bottom" /\ l.more.w > 0 /\ Overrun(b, l, e) > 0
  <2>1. Slide(b, l, e) = Overrun(b, l, e)
    BY <1>6 DEF Slide
  <2>2. start - Overrun(b, l, e) >= 6 /\ start - Overrun(b, l, e) <= start /\ 6 <= start
    BY <1>4, <1>5, <1>6, <2>1
  <2>3. Clamp(start - Overrun(b, l, e), 6, start) = start - Overrun(b, l, e)
    BY <1>4, <2>2 DEF Clamp, Most, Least
  <2>4. QED
    BY <1>3, <1>6, <2>1, <2>3, NubSizes DEF start
<1>7. CASE ~(e = "bottom" /\ l.more.w > 0 /\ Overrun(b, l, e) > 0)
  <2>1. Slide(b, l, e) = 0
    BY <1>7 DEF Slide
  <2>2. QED
    BY <1>3, <1>4, <1>7, <2>1 DEF start
<1>8. QED
  BY <1>6, <1>7

\* A nub lies along its edge, if it fits.
LEMMA NubOnEdge ==
  ASSUME NEW b \in BoardDesc, NEW s \in Nat \ {0}, NEW l, l = Layout(b, s),
         NEW i \in Shown(b), NEW e, e = b.buttons[i].edge, NubLong <= EdgeLength(l, e)
  PROVE  /\ 6 <= NubStart(b, i, l.screen, l.more)
         /\ NubStart(b, i, l.screen, l.more) <= Origin(l, e) + EdgeLength(l, e) - 36
<1>1. e \in Edges /\ b.buttons[i].pos \in Int
  BY HitOfNub
<1>2. Origin(l, e) \in 26 .. 40 /\ EdgeLength(l, e) \in Nat
  BY <1>1, EdgeGeometry
<1>3. CASE b.buttons[i].pos >= 0
  <2>1. NubStart(b, i, l.screen, l.more) =
          FixedStart(b.buttons[i].pos, Origin(l, e), EdgeLength(l, e))
    BY <1>3, NubStartIs
  <2>2. b.buttons[i].pos \in Nat /\ Origin(l, e) \in Int
    BY <1>1, <1>2, <1>3
  <2>3. /\ NubStart(b, i, l.screen, l.more) \in Int
        /\ Origin(l, e) <= NubStart(b, i, l.screen, l.more)
        /\ NubStart(b, i, l.screen, l.more) <= Origin(l, e) + EdgeLength(l, e) - NubLong
    BY <1>2, <2>1, <2>2, FixedStartRange
  <2>4. QED
    BY <1>2, <2>3, NubSizes
<1>4. CASE ~(b.buttons[i].pos >= 0)
  <2>1. i \in Autos(b, e)
    BY <1>4, NubStartIs
  <2>2. NubStart(b, i, l.screen, l.more) =
          StackStart(b, l, e, IndexOf(b, e, i)) - Slide(b, l, e)
    BY <1>1, <2>1, StackedStart
  <2>3. /\ StackStart(b, l, e, IndexOf(b, e, i)) \in Int
        /\ Origin(l, e) <= StackStart(b, l, e, IndexOf(b, e, i))
        /\ StackStart(b, l, e, IndexOf(b, e, i)) <= Origin(l, e) + EdgeLength(l, e) - 36
        /\ Slide(b, l, e) \in 0 .. 16
    BY <1>1, <2>1, StackRange
  <2>4. QED
    BY <1>2, <2>2, <2>3
<1>5. QED
  BY <1>3, <1>4

LEMMA Reachable ==
  ASSUME NEW b \in BoardDesc, NEW s \in Nat \ {0}, NEW l, l = Layout(b, s)
  PROVE  NubsReachable(b, l)
<1> SUFFICES ASSUME NEW i \in Shown(b)
             PROVE  /\ NubLong <= EdgeLength(l, b.buttons[i].edge) => Within(l.hits[i], l.window)
                    /\ ~Overlap(l.hits[i], l.screen)
  BY DEF NubsReachable
<1> DEFINE edge == b.buttons[i].edge
           st == NubStart(b, i, l.screen, l.more)
<1>1. PICK e \in Edges : e = edge
  BY HitOfNub
<1>2. st \in Int /\ l.hits[i] = HitAt(e, st, l)
  BY <1>1, HitOfNub
<1>3. \A d \in Edges : EdgeMargin(b, d) \in {26, 40}
  BY Frame
<1>4. i \in OnEdge(b, e)
  BY <1>1 DEF OnEdge
<1>5. EdgeMargin(b, e) = 40
  BY <1>4, Frame
<1>6. /\ EdgeMargin(b, "left") \in {26, 40} /\ EdgeMargin(b, "right") \in {26, 40}
      /\ EdgeMargin(b, "top") \in {26, 40} /\ EdgeMargin(b, "bottom") \in {26, 40}
  BY <1>3 DEF Edges
<1>7. /\ l.screen.x = EdgeMargin(b, "left") /\ l.screen.y = EdgeMargin(b, "top")
      /\ l.screen.w \in Nat \ {0} /\ l.screen.h \in Nat \ {0}
      /\ l.window.x = 0 /\ l.window.y = 0
      /\ l.window.w = l.screen.w + EdgeMargin(b, "left") + EdgeMargin(b, "right")
      /\ l.window.h = l.screen.h + EdgeMargin(b, "top") + EdgeMargin(b, "bottom")
  BY Frame
<1>8. /\ e \in {"left", "right"} => Origin(l, e) = l.screen.y /\ EdgeLength(l, e) = l.screen.h
      /\ e \in {"top", "bottom"} => Origin(l, e) = l.screen.x /\ EdgeLength(l, e) = l.screen.w
  BY DEF Origin, EdgeLength, Vertical
<1>9. NubLong <= EdgeLength(l, e) => 6 <= st /\ st <= Origin(l, e) + EdgeLength(l, e) - 36
  BY <1>1, NubOnEdge
<1> HIDE DEF st
<1>10. ASSUME e = "right"
       PROVE  /\ NubLong <= EdgeLength(l, e) => Within(HitAt(e, st, l), l.window)
              /\ ~Overlap(HitAt(e, st, l), l.screen)
  <2>1. HitAt(e, st, l) = Rect(l.window.w - 24, st - 6, 24, 48) /\ EdgeMargin(b, "right") = 40
    BY <1>5, <1>10 DEF HitAt
  <2>2. QED
    BY <1>2, <1>6, <1>7, <1>8, <1>9, <1>10, <2>1 DEF Rect, Within, Overlap
<1>11. ASSUME e = "left"
       PROVE  /\ NubLong <= EdgeLength(l, e) => Within(HitAt(e, st, l), l.window)
              /\ ~Overlap(HitAt(e, st, l), l.screen)
  <2>1. HitAt(e, st, l) = Rect(0, st - 6, 24, 48) /\ EdgeMargin(b, "left") = 40
    BY <1>5, <1>11 DEF HitAt
  <2>2. QED
    BY <1>2, <1>6, <1>7, <1>8, <1>9, <1>11, <2>1 DEF Rect, Within, Overlap
<1>12. ASSUME e = "top"
       PROVE  /\ NubLong <= EdgeLength(l, e) => Within(HitAt(e, st, l), l.window)
              /\ ~Overlap(HitAt(e, st, l), l.screen)
  <2>1. HitAt(e, st, l) = Rect(st - 6, 0, 48, 24) /\ EdgeMargin(b, "top") = 40
    BY <1>5, <1>12 DEF HitAt
  <2>2. QED
    BY <1>2, <1>6, <1>7, <1>8, <1>9, <1>12, <2>1 DEF Rect, Within, Overlap
<1>13. ASSUME e = "bottom"
       PROVE  /\ NubLong <= EdgeLength(l, e) => Within(HitAt(e, st, l), l.window)
              /\ ~Overlap(HitAt(e, st, l), l.screen)
  <2>1. HitAt(e, st, l) = Rect(st - 6, l.window.h - 24, 48, 24) /\ EdgeMargin(b, "bottom") = 40
    BY <1>5, <1>13 DEF HitAt
  <2>2. QED
    BY <1>2, <1>6, <1>7, <1>8, <1>9, <1>13, <2>1 DEF Rect, Within, Overlap
<1>14. QED
  BY <1>1, <1>2, <1>10, <1>11, <1>12, <1>13 DEF Edges

\* Two nubs that start a pitch apart do not meet.
LEMMA PitchApart ==
  ASSUME NEW e \in Edges, NEW st \in Int, NEW to \in Int, NEW l,
         l.window.w \in Int, l.window.h \in Int, st + 48 <= to \/ to + 48 <= st
  PROVE  ~Overlap(HitAt(e, st, l), HitAt(e, to, l))
<1>1. CASE e = "right"
  BY <1>1 DEF HitAt, Rect, Overlap
<1>2. CASE e = "left"
  BY <1>2 DEF HitAt, Rect, Overlap
<1>3. CASE e = "top"
  BY <1>3 DEF HitAt, Rect, Overlap
<1>4. CASE e = "bottom"
  BY <1>4 DEF HitAt, Rect, Overlap
<1>5. QED
  BY <1>1, <1>2, <1>3, <1>4 DEF Edges

LEMMA Apart ==
  ASSUME NEW b \in BoardDesc, NEW s \in Nat \ {0}, NEW l, l = Layout(b, s)
  PROVE  NubsApart(b, l)
<1> SUFFICES ASSUME NEW e \in Edges, Roomy(b, l, e), NEW i \in Autos(b, e)
             PROVE  /\ \A j \in Autos(b, e) \ {i} : ~Overlap(l.hits[i], l.hits[j])
                    /\ ~Overlap(l.hits[i], l.more)
  BY DEF NubsApart, Edges
<1> DEFINE n == StackSize(b, e)
           St(k) == NubStart(b, k, l.screen, l.more)
           At(k) == StackStart(b, l, e, IndexOf(b, e, k))
           slide == Slide(b, l, e)
<1>1. Origin(l, e) \in 26 .. 40 /\ EdgeLength(l, e) \in Nat \ {0}
  BY EdgeGeometry
<1>2. n \in Nat \ {0}
  BY AutoIndex DEF StackSize
<1>3. (n - 1) * Pitch + NubLong <= EdgeLength(l, e)
  BY DEF Roomy, StackSize
<1>4. NubLong <= EdgeLength(l, e)
  <2> HIDE DEF n
  <2>1. QED
    BY <1>1, <1>2, <1>3, NubSizes
<1>5. \A k \in Autos(b, e) : k \in Shown(b) /\ b.buttons[k].edge = e
  BY DEF Autos, OnEdge
<1>6. \A k \in Autos(b, e) : St(k) \in Int /\ l.hits[k] = HitAt(e, St(k), l)
  BY <1>5, HitOfNub
<1>7. \A k \in Autos(b, e) :
        /\ St(k) = At(k) - slide /\ At(k) \in Int /\ slide \in 0 .. 16
        /\ IndexOf(b, e, k) \in 0 .. n - 1
  BY <1>4, StackedStart, StackRange, AutoIndex DEF StackSize, IndexOf
<1>8. ASSUME NEW k \in Autos(b, e), NEW m \in Autos(b, e), IndexOf(b, e, k) < IndexOf(b, e, m)
      PROVE  At(k) + 48 <= At(m)
  <2>1. IndexOf(b, e, k) \in 0 .. n - 1 /\ IndexOf(b, e, m) \in 0 .. n - 1
    BY <1>7
  <2>2. Origin(l, e) \in Int /\ EdgeLength(l, e) \in Nat
    BY <1>1
  <2>3. QED
    BY <1>2, <1>3, <1>8, <2>1, <2>2, AutoStartGap, NubSizes DEF StackStart
<1>9. ASSUME NEW j \in Autos(b, e) \ {i} PROVE ~Overlap(l.hits[i], l.hits[j])
  <2>1. i \in Int /\ j \in Int
    BY <1>5 DEF Shown
  <2>2. i < j \/ j < i
    BY <2>1, <1>9
  <2>3. At(i) + 48 <= At(j) \/ At(j) + 48 <= At(i)
    BY <1>8, <2>2, AutoIndex DEF IndexOf
  <2>4. St(i) + 48 <= St(j) \/ St(j) + 48 <= St(i)
    <3>1. St(i) = At(i) - slide /\ St(j) = At(j) - slide /\ At(i) \in Int /\ At(j) \in Int
          /\ slide \in Int
      BY <1>7
    <3> HIDE DEF St, At, slide
    <3>2. QED
      BY <2>3, <3>1
  <2>5. l.window.w \in Int /\ l.window.h \in Int
    BY Frame DEF Layouts, Rects
  <2>6. QED
    <3>1. /\ St(i) \in Int /\ St(j) \in Int
          /\ l.hits[i] = HitAt(e, St(i), l) /\ l.hits[j] = HitAt(e, St(j), l)
      BY <1>6
    <3> HIDE DEF St
    <3>2. QED
      BY <2>4, <2>5, <3>1, PitchApart
<1>10. ~Overlap(l.hits[i], l.more)
  <2> DEFINE st == St(i)
  <2>1. st \in Int /\ l.hits[i] = HitAt(e, st, l)
    BY <1>6
  <2>2. /\ EdgeMargin(b, "left") \in {26, 40} /\ EdgeMargin(b, "right") \in {26, 40}
        /\ EdgeMargin(b, "top") \in {26, 40} /\ EdgeMargin(b, "bottom") \in {26, 40}
    BY Frame DEF Edges
  <2>3. /\ l.screen.x = EdgeMargin(b, "left") /\ l.screen.y = EdgeMargin(b, "top")
        /\ l.screen.w \in Nat \ {0} /\ l.screen.h \in Nat \ {0}
        /\ l.window.w = l.screen.w + EdgeMargin(b, "left") + EdgeMargin(b, "right")
        /\ l.window.h = l.screen.h + EdgeMargin(b, "top") + EdgeMargin(b, "bottom")
    BY Frame
  <2>4. EdgeMargin(b, e) = 40
    <3>1. i \in OnEdge(b, e)
      BY DEF Autos
    <3>2. QED
      BY <3>1, Frame
  <2>5. 6 <= st /\ st <= Origin(l, e) + EdgeLength(l, e) - 36
    BY <1>4, <1>5, NubOnEdge
  <2>6. /\ e \in {"left", "right"} => Origin(l, e) = l.screen.y /\ EdgeLength(l, e) = l.screen.h
        /\ e \in {"top", "bottom"} => Origin(l, e) = l.screen.x /\ EdgeLength(l, e) = l.screen.w
    BY DEF Origin, EdgeLength, Vertical
  <2>7. l.more \in {NoRect, Rect(l.window.w - 36, l.window.h - 12, 36, 12)}
    BY EdgeGeometry
  <2>8. CASE l.more = NoRect
    BY <2>8 DEF NoRect, Rect, Overlap
  <2>9. CASE l.more = Rect(l.window.w - 36, l.window.h - 12, 36, 12)
    <3>1. ASSUME e = "right" PROVE ~Overlap(HitAt(e, st, l), l.more)
      <4>1. HitAt(e, st, l) = Rect(l.window.w - 24, st - 6, 24, 48)
        BY <3>1 DEF HitAt
      <4> HIDE DEF st
      <4>2. QED
        BY <2>1, <2>2, <2>3, <2>5, <2>6, <2>9, <3>1, <4>1 DEF Rect, Overlap
    <3>2. ASSUME e = "left" PROVE ~Overlap(HitAt(e, st, l), l.more)
      <4>1. HitAt(e, st, l) = Rect(0, st - 6, 24, 48) /\ EdgeMargin(b, "left") = 40
        BY <2>4, <3>2 DEF HitAt
      <4> HIDE DEF st
      <4>2. QED
        BY <2>1, <2>2, <2>3, <2>9, <4>1 DEF Rect, Overlap
    <3>3. ASSUME e = "top" PROVE ~Overlap(HitAt(e, st, l), l.more)
      <4>1. HitAt(e, st, l) = Rect(st - 6, 0, 48, 24) /\ EdgeMargin(b, "top") = 40
        BY <2>4, <3>3 DEF HitAt
      <4> HIDE DEF st
      <4>2. QED
        BY <2>1, <2>2, <2>3, <2>9, <4>1 DEF Rect, Overlap
    <3>4. ASSUME e = "bottom" PROVE ~Overlap(HitAt(e, st, l), l.more)
      <4> DEFINE last == StackStart(b, l, e, n - 1)
      <4>1. HitAt(e, st, l) = Rect(st - 6, l.window.h - 24, 48, 24)
        BY <3>4 DEF HitAt
      <4>2. /\ last \in Int /\ Overrun(b, l, e) \in Int
            /\ Overrun(b, l, e) = last + NubLong + HitInflate - l.more.x
        BY <1>4, StackRange DEF Overrun
      <4>3. At(i) <= last
        <5>1. IndexOf(b, e, i) \in 0 .. n - 1 /\ n - 1 \in 0 .. n - 1
          BY <1>2, <1>7
        <5>2. CASE IndexOf(b, e, i) = n - 1
          BY <1>7, <4>2, <5>2
        <5>3. CASE IndexOf(b, e, i) < n - 1
          <6>1. Origin(l, e) \in Int /\ EdgeLength(l, e) \in Nat
            BY <1>1
          <6>2. At(i) + 48 <= last
            BY <1>2, <1>3, <5>1, <5>3, <6>1, AutoStartGap, NubSizes DEF StackStart
          <6>3. At(i) \in Int
            BY <1>7
          <6> HIDE DEF At, last
          <6>4. QED
            BY <4>2, <6>2, <6>3
        <5>4. QED
          BY <5>1, <5>2, <5>3
      <4>4. st = At(i) - slide /\ At(i) \in Int
        BY <1>7
      <4>5. /\ l.more.w > 0 /\ l.more.x \in Int
            /\ slide = IF Overrun(b, l, e) > 0 THEN Overrun(b, l, e) ELSE 0
        BY <2>3, <2>2, <2>9, <3>4 DEF Rect, Slide
      <4> HIDE DEF st, At, last, slide
      <4>6. st + 42 <= l.more.x
        BY <4>2, <4>3, <4>4, <4>5, NubSizes
      <4>7. QED
        BY <2>1, <2>9, <4>1, <4>5, <4>6 DEF Rect, Overlap
    <3>5. QED
      BY <2>1, <3>1, <3>2, <3>3, <3>4 DEF Edges
  <2>10. QED
    BY <2>7, <2>8, <2>9
<1>11. QED
  BY <1>9, <1>10

LEMMA HelpFits ==
  ASSUME NEW l, l.window.x = 0, l.window.y = 0, l.window.w \in Nat, l.window.h \in Nat
  PROVE  HelpSound(l)
<1> SUFFICES ASSUME NEW w \in {0, 150, 1000}, NEW h \in {0, 150, 1000}
             PROVE  Within(HelpCard(l, w, h), l.window)
  BY DEF HelpSound
<1> DEFINE cw == Least(w + 2 * HelpCardPad, l.window.w)
           ch == Least(h + 2 * HelpCardPad, l.window.h)
<1>1. w + 2 * HelpCardPad \in Nat /\ h + 2 * HelpCardPad \in Nat
  BY DEF HelpCardPad
<1>2. cw \in Nat /\ cw <= l.window.w /\ ch \in Nat /\ ch <= l.window.h
  BY <1>1 DEF Least
<1>3. HelpCard(l, w, h) = Rect((l.window.w - cw) \div 2, (l.window.h - ch) \div 2, cw, ch)
  BY DEF HelpCard
<1> HIDE DEF cw, ch
<1>4. QED
  BY <1>2, <1>3 DEF Rect, Within

\* A control stays in the card, and starts where it is put or is not there.
LEMMA ControlFits ==
  ASSUME NEW card \in Rects, NEW x \in Int, NEW w \in Nat, NEW h \in Nat, card.x <= x,
         NEW c, c = PlaceControl(card, x, w, h)
  PROVE  /\ c \in Rects
         /\ c = NoRect \/ (c.x = x /\ c.w > 0 /\ c.w <= w /\ c.h > 0 /\ c.h <= h /\ Within(c, card)
                           /\ c.h = Least(h, card.h - 24)
                           /\ c.y + c.h <= card.y + card.h - 12 /\ card.y + 12 <= c.y)
<1> DEFINE cw == Least(w, card.x + card.w - PanelPad - x)
           ch == Least(h, card.h - 2 * PanelPad)
<1>1. PanelPad = 12
  BY DEF PanelPad
<1>2. card.x \in Int /\ card.y \in Int /\ card.w \in Int /\ card.h \in Int
  BY DEF Rects
<1>3. /\ cw \in Int /\ cw <= w /\ cw <= card.x + card.w - 12 - x
      /\ ch \in Int /\ ch <= h /\ ch <= card.h - 24
  BY <1>1, <1>2 DEF Least
<1>4. c = IF cw <= 0 \/ ch <= 0 THEN NoRect ELSE Rect(x, card.y + (card.h - ch) \div 2, cw, ch)
  BY DEF PlaceControl
<1>5. c \in Rects
  BY PlaceControlInRects
<1> HIDE DEF cw, ch
<1>6. CASE cw <= 0 \/ ch <= 0
  BY <1>4, <1>5, <1>6
<1>7. CASE ~(cw <= 0 \/ ch <= 0)
  <2>1. c = Rect(x, card.y + (card.h - ch) \div 2, cw, ch) /\ cw > 0 /\ ch > 0
    BY <1>3, <1>4, <1>7
  <2>2. c.x = x /\ c.w = cw /\ c.h = ch /\ c.y = card.y + (card.h - ch) \div 2
    BY <2>1 DEF Rect
  <2>3. card.y + 12 <= c.y /\ c.y + c.h <= card.y + card.h - 12
    BY <1>2, <1>3, <2>1, <2>2
  <2>4. Within(c, card)
    BY <1>2, <1>3, <2>1, <2>2, <2>3 DEF Within
  <2>5. QED
    BY <1>1, <1>3, <1>5, <2>1, <2>2, <2>3, <2>4 DEF ch
<1>8. QED
  BY <1>6, <1>7

\* Rectangles side by side do not meet, nor does one that is not there.
LEMMA SideBySide ==
  ASSUME NEW a \in Rects, NEW b \in Rects,
         a = NoRect \/ b = NoRect \/ a.x + a.w <= b.x \/ b.x + b.w <= a.x
  PROVE  ~Overlap(a, b)
BY DEF Overlap, NoRect, Rect, Rects

LEMMA PanelFits ==
  ASSUME NEW l, l.window \in Rects, l.window.x = 0, l.window.y = 0,
         l.window.w >= 53, l.window.h >= 53
  PROVE  LET card == PanelCard(l)
         IN Within(card, l.window) /\ card \in Rects /\ card.w >= 0 /\ card.h >= 0
<1> DEFINE w == Most(0, Least(CardW, l.window.w - 2 * PanelMargin))
           h == Most(0, Least(CardH, l.window.h - 2 * PanelMargin))
<1>1. CardW = 414 /\ CardH = 58 /\ PanelMargin = 12
  BY DEF CardW, CardH, PanelPad, BatBarW, PctGap, PanelBtnW, PanelGap, PanelBtnH, PctW,
         PctLead, PanelMargin
<1>2. l.window.w \in Int /\ l.window.h \in Int
  BY DEF Rects
<1>3. w \in Int /\ 0 <= w /\ w <= l.window.w - 24 /\ h \in Int /\ 0 <= h /\ h <= l.window.h - 24
  BY <1>1, <1>2 DEF Most, Least
<1>4. PanelCard(l) = Rect(Most(0, l.window.w - PanelMargin - w),
                          Most(0, l.window.h - PanelMargin - h), w, h)
  BY DEF PanelCard
<1> HIDE DEF w, h
<1>5. PanelCard(l) = Rect(l.window.w - 12 - w, l.window.h - 12 - h, w, h)
  BY <1>1, <1>2, <1>3, <1>4 DEF Most
<1>6. PanelCard(l) \in Rects
  BY PanelCardInRects
<1>7. QED
  BY <1>2, <1>3, <1>5, <1>6 DEF Rect, Within

LEMMA PanelApart ==
  ASSUME NEW b \in BoardDesc, NEW l, l.window \in Rects, l.window.x = 0, l.window.y = 0,
         l.window.w >= 53, l.window.h >= 53
  PROVE  PanelSound(b, l)
<1> DEFINE card == PanelCard(l)
           first == card.x + 12
           bar == PlaceControl(card, first, 150, 22)
           pct == PlaceControl(card, bar.x + bar.w + 8, 48, 14)
           put == [pct EXCEPT !.y = bar.y + 4]
           chg == PlaceControl(card, first + 206, 56, 34)
           usb == PlaceControl(card, first + 270, 56, 34)
           rot == PlaceControl(card, IF b.battery THEN first + 334 ELSE first, 56, 34)
           p == Panel(l, b.battery, b.rotation)
           InCard(c) == c \in Rects /\ (c = NoRect \/ Within(c, card))
<1>1. /\ PanelPad = 12 /\ PanelBtnW = 56 /\ PanelBtnH = 34 /\ BatBarW = 150 /\ BatBarH = 22
      /\ PctLead = 8 /\ PctW = 48 /\ PctH = 14 /\ PctGap = 56 /\ PanelGap = 8
  BY DEF PanelPad, PanelBtnW, PanelBtnH, BatBarW, BatBarH, PctLead, PctW, PctH, PctGap, PanelGap
<1>2. card \in Rects /\ Within(card, l.window)
  BY PanelFits
<1>3. card.x \in Int /\ card.y \in Int /\ card.w \in Int /\ card.h \in Int /\ first \in Int
      /\ first = card.x + 12
  <2> HIDE DEF card
  <2>1. QED
    BY <1>2 DEF Rects
<1> HIDE DEF card
<1>4. /\ first + BatBarW + PctGap = first + 206
      /\ first + BatBarW + PctGap + (PanelBtnW + PanelGap) = first + 270
      /\ first + BatBarW + PctGap + 2 * (PanelBtnW + PanelGap) = first + 334
      /\ bar.x + bar.w + PctLead = bar.x + bar.w + 8 /\ card.x + PanelPad = first
  BY <1>1, <1>3
<1>5. p = [bar |-> IF b.battery THEN bar ELSE NoRect,
           pct |-> IF b.battery /\ bar.w > 0 /\ pct.w = 48 THEN put ELSE NoRect,
           chg |-> IF b.battery THEN chg ELSE NoRect,
           usb |-> IF b.battery THEN usb ELSE NoRect,
           rot |-> IF b.rotation THEN rot ELSE NoRect]
  BY <1>1, <1>4 DEF Panel, card
<1> HIDE DEF first
<1>6. /\ bar \in Rects
      /\ bar = NoRect \/ (bar.x = first /\ bar.w > 0 /\ bar.w <= 150 /\ Within(bar, card)
                          /\ bar.h > 0 /\ bar.h = Least(22, card.h - 24)
                          /\ bar.y + bar.h <= card.y + card.h - 12 /\ card.y + 12 <= bar.y)
  <2>1. first \in Int /\ card.x <= first
    BY <1>3
  <2>2. bar = PlaceControl(card, first, 150, 22)
    OBVIOUS
  <2>3. 150 \in Nat /\ 22 \in Nat
    OBVIOUS
  <2> HIDE DEF bar, pct, put, chg, usb, rot, p, InCard
  <2>4. bar \in Rects
    BY <1>2, <2>1, <2>2, <2>3, ControlFits
  <2>5. CASE bar # NoRect
    <3>1. bar.x = first /\ bar.w > 0 /\ bar.w <= 150 /\ Within(bar, card)
      BY <1>2, <2>1, <2>2, <2>3, <2>5, ControlFits
    <3>2. bar.h > 0 /\ bar.h = Least(22, card.h - 24)
      BY <1>2, <2>1, <2>2, <2>3, <2>5, ControlFits
    <3>3. bar.y + bar.h <= card.y + card.h - 12 /\ card.y + 12 <= bar.y
      BY <1>2, <2>1, <2>2, <2>3, <2>5, ControlFits
    <3>4. QED
      BY <2>4, <3>1, <3>2, <3>3
  <2>6. QED
    BY <2>4, <2>5
<1>7. /\ chg \in Rects /\ (chg = NoRect \/ (chg.x = first + 206 /\ chg.w <= 56))
      /\ InCard(chg)
  <2>1. first + 206 \in Int /\ card.x <= first + 206
    BY <1>3
  <2>2. QED
    BY <1>2, <2>1, ControlFits
<1>8. /\ usb \in Rects /\ (usb = NoRect \/ (usb.x = first + 270 /\ usb.w <= 56))
      /\ InCard(usb)
  <2>1. first + 270 \in Int /\ card.x <= first + 270
    BY <1>3
  <2>2. QED
    BY <1>2, <2>1, ControlFits
<1>9. /\ rot \in Rects
      /\ (rot = NoRect \/ (rot.x = (IF b.battery THEN first + 334 ELSE first) /\ rot.w <= 56))
      /\ InCard(rot)
  <2> DEFINE at == IF b.battery THEN first + 334 ELSE first
  <2>1. at \in Int /\ card.x <= at
    BY <1>3
  <2> HIDE DEF at
  <2>2. PlaceControl(card, at, 56, 34) = rot
    BY DEF at
  <2>3. /\ rot \in Rects /\ (rot = NoRect \/ (rot.x = at /\ rot.w <= 56 /\ Within(rot, card)))
    <3> HIDE DEF rot
    <3>1. QED
      BY <1>2, <2>1, <2>2, ControlFits
  <2> HIDE DEF rot
  <2>4. QED
    BY <2>3 DEF at
<1>10. /\ p.pct \in Rects
       /\ p.pct = NoRect \/ (first <= p.pct.x /\ p.pct.x + p.pct.w <= first + 206
                             /\ bar.x + bar.w <= p.pct.x)
       /\ InCard(p.pct)
  <2>1. CASE ~(b.battery /\ bar.w > 0 /\ pct.w = 48)
    <3>1. p.pct = NoRect
      BY <1>5, <2>1
    <3>2. QED
      BY <3>1, RectInRects
  <2>2. CASE b.battery /\ bar.w > 0 /\ pct.w = 48
    <3> HIDE DEF bar
    <3>1. bar # NoRect
      BY <2>2 DEF NoRect, Rect
    <3>2. /\ bar.x = first /\ bar.w \in Int /\ bar.y \in Int /\ bar.h \in Int /\ bar.w <= 150
          /\ bar.h = Least(22, card.h - 24) /\ bar.y + bar.h <= card.y + card.h - 12 /\ card.y + 12 <= bar.y
      BY <1>6, <3>1 DEF Rects
    <3>3. bar.x + bar.w + 8 \in Int /\ card.x <= bar.x + bar.w + 8
      BY <1>3, <2>2, <3>2
    <3>4. /\ pct \in Rects
          /\ pct = NoRect \/ (pct.x = bar.x + bar.w + 8 /\ pct.h = Least(14, card.h - 24)
                              /\ Within(pct, card))
      BY <1>2, <3>3, ControlFits
    <3> HIDE DEF pct
    <3>5. pct # NoRect
      BY <2>2 DEF NoRect, Rect
    <3>6. p.pct = put /\ put.x = pct.x /\ put.w = 48 /\ put.h = pct.h /\ put.y = bar.y + 4
          /\ put \in Rects
      BY <1>5, <2>2, <3>2, <3>4 DEF Rects
    <3>7. /\ pct.x = first + bar.w + 8 /\ pct.x \in Int /\ pct.h \in Int
          /\ pct.x + 48 <= card.x + card.w
      BY <2>2, <3>2, <3>4, <3>5 DEF Within, Rects
    <3>8. pct.h <= bar.h
      BY <1>3, <3>2, <3>4, <3>5 DEF Least
    <3> DEFINE q == p.pct
    <3>9. q \in Rects /\ q.x = pct.x /\ q.w = 48 /\ q.h = pct.h /\ q.y = bar.y + 4
      BY <3>6
    <3> HIDE DEF put, p, q
    <3>10. Within(q, card)
      <4>1. q.x \in Int /\ q.w \in Int /\ q.y \in Int /\ q.h \in Int
        BY <3>2, <3>7, <3>9
      <4>2. card.x <= q.x /\ q.x + q.w <= card.x + card.w
        BY <1>3, <2>2, <3>2, <3>7, <3>9
      <4>3. card.y <= q.y /\ q.y + q.h <= card.y + card.h
        BY <1>3, <3>2, <3>7, <3>8, <3>9
      <4>4. QED
        BY <4>2, <4>3 DEF Within
    <3>11. first <= q.x /\ q.x + q.w <= first + 206 /\ bar.x + bar.w <= q.x
      BY <1>3, <2>2, <3>2, <3>7, <3>9
    <3>12. QED
      BY <3>9, <3>10, <3>11 DEF q
  <2>3. QED
    BY <2>1, <2>2
<1>11. /\ p.bar = (IF b.battery THEN bar ELSE NoRect) /\ p.chg = (IF b.battery THEN chg ELSE NoRect)
       /\ p.usb = (IF b.battery THEN usb ELSE NoRect) /\ p.rot = (IF b.rotation THEN rot ELSE NoRect)
       /\ ~b.battery => p.pct = NoRect
       /\ DOMAIN p = {"bar", "pct", "chg", "usb", "rot"}
  BY <1>5
<1> HIDE DEF p, bar, chg, usb, rot, pct, put
<1>12. \A c \in DOMAIN p : InCard(p[c])
  BY <1>6, <1>7, <1>8, <1>9, <1>10, <1>11, RectInRects
<1>13. /\ p.bar = NoRect \/ (p.bar.x = first /\ p.bar.w <= 150 /\ p.bar = bar)
       /\ p.chg = NoRect \/ (p.chg.x = first + 206 /\ p.chg.w <= 56)
       /\ p.usb = NoRect \/ (p.usb.x = first + 270 /\ p.usb.w <= 56)
       /\ b.battery => p.rot = NoRect \/ p.rot.x = first + 334
       /\ ~b.battery => p.bar = NoRect /\ p.chg = NoRect /\ p.usb = NoRect /\ p.pct = NoRect
  BY <1>6, <1>7, <1>8, <1>9, <1>11
<1>14. p.bar \in Rects /\ p.pct \in Rects /\ p.chg \in Rects /\ p.usb \in Rects /\ p.rot \in Rects
  BY <1>11, <1>12
<1> DEFINE Beside(c, d) == ~Overlap(c, d) /\ ~Overlap(d, c)
<1>15. ASSUME NEW c \in Rects, NEW d \in Rects, c = NoRect \/ d = NoRect \/ c.x + c.w <= d.x
       PROVE  Beside(c, d)
  BY <1>15, SideBySide
<1>16. Beside(p.bar, p.pct)
  <2>1. p.bar = NoRect \/ p.pct = NoRect \/ p.bar.x + p.bar.w <= p.pct.x
    BY <1>10, <1>13
  <2>2. QED
    BY <1>14, <1>15, <2>1
<1>17. Beside(p.bar, p.chg) /\ Beside(p.bar, p.usb) /\ Beside(p.bar, p.rot)
  <2>1. /\ p.bar = NoRect \/ p.chg = NoRect \/ p.bar.x + p.bar.w <= p.chg.x
        /\ p.bar = NoRect \/ p.usb = NoRect \/ p.bar.x + p.bar.w <= p.usb.x
        /\ p.bar = NoRect \/ p.rot = NoRect \/ p.bar.x + p.bar.w <= p.rot.x
    BY <1>3, <1>13, <1>14 DEF Rects
  <2>2. QED
    BY <1>14, <1>15, <2>1
<1>18. Beside(p.pct, p.chg) /\ Beside(p.pct, p.usb) /\ Beside(p.pct, p.rot)
  <2>1. /\ p.pct = NoRect \/ p.chg = NoRect \/ p.pct.x + p.pct.w <= p.chg.x
        /\ p.pct = NoRect \/ p.usb = NoRect \/ p.pct.x + p.pct.w <= p.usb.x
        /\ p.pct = NoRect \/ p.rot = NoRect \/ p.pct.x + p.pct.w <= p.rot.x
    BY <1>3, <1>10, <1>13, <1>14 DEF Rects
  <2>2. QED
    BY <1>14, <1>15, <2>1
<1>19. Beside(p.chg, p.usb) /\ Beside(p.chg, p.rot) /\ Beside(p.usb, p.rot)
  <2>1. /\ p.chg = NoRect \/ p.usb = NoRect \/ p.chg.x + p.chg.w <= p.usb.x
        /\ p.chg = NoRect \/ p.rot = NoRect \/ p.chg.x + p.chg.w <= p.rot.x
        /\ p.usb = NoRect \/ p.rot = NoRect \/ p.usb.x + p.usb.w <= p.rot.x
    BY <1>3, <1>13, <1>14 DEF Rects
  <2>2. QED
    BY <1>14, <1>15, <2>1
<1> HIDE DEF Beside
<1>20. \A c \in DOMAIN p : \A d \in DOMAIN p \ {c} : Beside(p[c], p[d]) \/ Beside(p[d], p[c])
  BY <1>11, <1>16, <1>17, <1>18, <1>19
<1>21. \A c \in DOMAIN p : \A d \in DOMAIN p \ {c} : ~Overlap(p[c], p[d])
  BY <1>20 DEF Beside
<1>22. QED
  BY <1>2, <1>12, <1>21 DEF PanelSound, p, card

LEMMA LayoutIsSound ==
  ASSUME NEW b \in BoardDesc, NEW s \in Nat \ {0}, NEW l, l = Layout(b, s)
  PROVE  Sound(b, l)
<1>1. /\ EdgeMargin(b, "left") \in {26, 40} /\ EdgeMargin(b, "right") \in {26, 40}
      /\ EdgeMargin(b, "top") \in {26, 40} /\ EdgeMargin(b, "bottom") \in {26, 40}
  BY Frame DEF Edges
<1>2. /\ l.screen.w \in Nat \ {0} /\ l.screen.h \in Nat \ {0}
      /\ l.window.x = 0 /\ l.window.y = 0 /\ l.window \in Rects
      /\ l.window.w = l.screen.w + EdgeMargin(b, "left") + EdgeMargin(b, "right")
      /\ l.window.h = l.screen.h + EdgeMargin(b, "top") + EdgeMargin(b, "bottom")
  BY Frame DEF Layouts
<1>3. l.window.w \in Nat /\ l.window.w >= 53 /\ l.window.h \in Nat /\ l.window.h >= 53
  BY <1>1, <1>2
<1>4. PanelSound(b, l) /\ HelpSound(l)
  BY <1>2, <1>3, PanelApart, HelpFits
<1>5. QED
  BY <1>4, Apart, Reachable DEF Sound

\* Every board a target can describe, at every scale, gets a window whose
\* stacked nubs are apart where they have the room, can be clicked, and stay off
\* the screen and the "..." nub, with a panel and a help card that fit
\* (window_layout.h).
THEOREM LayoutAlwaysSound == Spec => []LayoutSound
<1>1. IInv => LayoutSound
  BY Opened, LayoutIsSound DEF IInv, LayoutSound
<1>2. QED
  BY <1>1, Invariant, PTL

================================================================================
