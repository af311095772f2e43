---------------------------- MODULE MCQemuBackend ----------------------------
(***************************************************************************)
(* Three boots, so that one can fail between two that succeed, of a plain  *)
(* target and of one with the input agent and an http forward.             *)
(***************************************************************************)
EXTENDS QemuBackend

MCChildren == 1 .. 3
MCTargets == {[agent |-> 0, http |-> 0], [agent |-> 1, http |-> 1]}

==============================================================================
