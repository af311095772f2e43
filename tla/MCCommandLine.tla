----------------------------- MODULE MCCommandLine -----------------------------
(***************************************************************************)
(* The targets: a native one, and on QEMU one that declares nothing and    *)
(* one that declares everything.  A scenario of three steps can fail       *)
(* twice, in two ways.  For the session, a buffer of three holds lines of  *)
(* one byte and a newline, and six bytes are enough for a line that        *)
(* fits, one that does not, and part of a third, in any order; two widgets *)
(* in two places are enough to be shown, to move and to be taken for each  *)
(* other.                                                                  *)
(***************************************************************************)
EXTENDS CommandLine

MCTargets ==
  {[backend |-> "native", can |-> {}],
   [backend |-> "qemu", can |-> {}],
   [backend |-> "qemu", can |-> {"display", "agent", "http"}]}

================================================================================
