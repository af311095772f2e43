----------------------------- MODULE MCGuestInput -----------------------------
(***************************************************************************)
(* Four requests: two presses can come while the loop is blocked in the    *)
(* draw of a third, and a press can come between two reads of another.     *)
(***************************************************************************)
EXTENDS GuestInput

==============================================================================
