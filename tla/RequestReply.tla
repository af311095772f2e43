----------------------------- MODULE RequestReply -----------------------------
(***************************************************************************)
(* What a blocking control connection promises its caller: requests are    *)
(* made one at a time, each ends exactly once, and a request that is       *)
(* answered is answered with the reply the peer gave to that very request. *)
(* QmpLink and AgentLink are two connections that claim to provide this.   *)
(***************************************************************************)
CONSTANT Requests  \* the calls the program makes, each made at most once

\* "unsent", "waiting", "failed" or, once r is answered, the request whose reply
\* was handed to the caller of r.
VARIABLE outcome

Init == outcome = [r \in Requests |-> "unsent"]

\* The caller is blocked in r until it ends: no other request is in flight.
Send(r) ==
  /\ outcome[r] = "unsent"
  /\ \A q \in Requests : outcome[q] # "waiting"
  /\ outcome' = [outcome EXCEPT ![r] = "waiting"]

Answer(r) ==
  /\ outcome[r] = "waiting"
  /\ outcome' = [outcome EXCEPT ![r] = r]

\* The call reports a transport error, or is refused before anything is sent.
Fail(r) ==
  /\ outcome[r] \in {"unsent", "waiting"}
  /\ \A q \in Requests : outcome[q] = "waiting" => q = r
  /\ outcome' = [outcome EXCEPT ![r] = "failed"]

Next == \E r \in Requests : Send(r) \/ Answer(r) \/ Fail(r)

Spec == Init /\ [][Next]_outcome

===============================================================================
