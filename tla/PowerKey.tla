------------------------------- MODULE PowerKey -------------------------------
(***************************************************************************)
(* What the power key of the device promises to the firmware: the edges a  *)
(* power management chip reports (1 a short press, 2 a long one, 3 the     *)
(* release after it), in the order of what happened to the key.  Every     *)
(* press that ends reports exactly one of 1 and 3, and 3 only after 2.     *)
(***************************************************************************)
EXTENDS Naturals, Sequences

VARIABLES key,   \* "up", "down", or "long" once the long press is reported
          edges  \* the edges reported so far

Init == key = "up" /\ edges = <<>>

Press == key = "up" /\ key' = "down" /\ UNCHANGED edges

\* A second hand presses the key that is down: the hold starts again.
PressAgain == key = "long" /\ key' = "down" /\ UNCHANGED edges

HoldLong == key = "down" /\ key' = "long" /\ edges' = Append(edges, 2)

Release ==
  /\ key # "up" /\ key' = "up"
  /\ edges' = Append(edges, IF key = "long" THEN 3 ELSE 1)

Next == Press \/ PressAgain \/ HoldLong \/ Release

Spec == Init /\ [][Next]_<<key, edges>>
=============================================================================
