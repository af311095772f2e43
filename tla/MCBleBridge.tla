----------------------------- MODULE MCBleBridge -----------------------------
(* Three clients, so that one can be refused or come after a leftover, each  *)
(* with a line and a half and the end of it, and two lines of the device.    *)
EXTENDS BleBridge
==============================================================================
