---------------------------- MODULE MCDaemonSession ----------------------------
(***************************************************************************)
(* The session by itself.  A buffer of three holds lines of one byte and a *)
(* newline; seven bytes are enough for a line that fits, one that does     *)
(* not, and part of a third.  The screen plays no part here: one widget.   *)
(***************************************************************************)
EXTENDS DaemonSession

================================================================================
