----------------------------- MODULE MCSimWindow -----------------------------
(***************************************************************************)
(* The boards TLC opens a window for: three on which it explores what is   *)
(* done in one, and a family for which the layout alone matters.           *)
(***************************************************************************)
EXTENDS SimWindow

Button(action, gpio, key, edge, pos) ==
  [action |-> action, gpio |-> gpio, key |-> key, edge |-> edge, pos |-> pos,
   activeLow |-> action = "gpio"]

\* targets/waveshare_amoled_18/board.cpp, without its second button
Waveshare ==
  [width |-> 480, height |-> 480, rotation |-> FALSE, battery |-> TRUE,
   buttons |-> <<Button("primary", 0, "space", "right", 30),
                 Button("pwr", 0, "p", "right", 50)>>]

\* targets/qemu/esp32c3_rgb.json
Rgb ==
  [width |-> 320, height |-> 240, rotation |-> FALSE, battery |-> FALSE,
   buttons |-> <<Button("gpio", 9, "b", "right", 50)>>]

\* A board that turns, its buttons stacked along the bottom, one of them on a
\* key of the help card and two on one key.
Bottom ==
  [width |-> 120, height |-> 60, rotation |-> TRUE, battery |-> FALSE,
   buttons |-> <<Button("primary", 0, "h", "bottom", -1), Button("pwr", 0, "p", "bottom", -1),
                 Button("gpio", 4, "space", "bottom", -1),
                 Button("gpio", 5, "space", "bottom", -1),
                 Button("secondary", 0, "none", "bottom", -1)>>]

Used == {Waveshare, Rgb, Bottom}

\* Every number of stacked buttons on every edge of boards of many sizes, next
\* to one at a fixed place.
Stacked(w, h, edge, n, rot, bat) ==
  [width |-> w, height |-> h, rotation |-> rot, battery |-> bat,
   buttons |-> [i \in 1 .. n |-> Button("primary", 0, "none", edge, -1)]
                 \o <<Button("primary", 0, "none", "right", 50)>>]

Family ==
  {Stacked(w, h, edge, n, rot, bat) :
     w \in {20, 180, 240, 320}, h \in {36, 128, 180, 480}, n \in 0 .. 8,
     edge \in {"left", "top", "bottom"}, rot \in BOOLEAN, bat \in BOOLEAN}

MCBoards == Used \cup Family

\* A window for each of them that has been closed at once, and one for each board
\* in use that stays open.
MCInit ==
  /\ Fresh
  /\ \/ open = FALSE
     \/ open = TRUE /\ board \in Used /\ scale = 2

MCSpec == MCInit /\ [][Next]_vars
=============================================================================
