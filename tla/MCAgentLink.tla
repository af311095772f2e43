----------------------------- MODULE MCAgentLink -----------------------------
(***************************************************************************)
(* Five host lines let a ping fail, the link reconnect and a late reply    *)
(* meet the next commands, or a ping and a whole swipe with a command more;*)
(* one firmware restart loses a command in progress and puts a second      *)
(* banner in front of a reply, or tears a line.  Three lines that nobody   *)
(* reads fill the link, and the fourth waits in send().                    *)
(***************************************************************************)
EXTENDS AgentLink

==============================================================================
