------------------------------ MODULE MCQmpLink ------------------------------
(***************************************************************************)
(* Three commands, a socket that holds two or three unread lines: enough   *)
(* for a command to be abandoned, its late reply to meet the next command  *)
(* on a kept session, and a third to follow on a new one.                  *)
(***************************************************************************)
EXTENDS QmpLink

==============================================================================
