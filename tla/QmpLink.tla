-------------------------------- MODULE QmpLink --------------------------------
(***************************************************************************)
(* QmpClient (backends/qemu/qmp.cpp) talking to the QMP monitor of a QEMU  *)
(* child over a unix socket.  The client is one blocking thread: connect   *)
(* reads the greeting and negotiates capabilities, execute sends one       *)
(* command and reads lines until its reply, all under one deadline.  The   *)
(* monitor (external) greets, answers commands in order as late as it      *)
(* likes, interleaves events, may write a line that is not QMP, and may    *)
(* exit at any point.                                                      *)
(*                                                                         *)
(* A line is one step of data: the part of a line that has arrived without *)
(* its newline stays in "wire" until the recv() that completes it.         *)
(***************************************************************************)
EXTENDS Naturals, Sequences

CONSTANTS Requests,  \* the execute() calls the program makes
          WireCap    \* most lines the monitor leaves unread in the socket

Caps == "qmp_capabilities"
None == "none"

ASSUME RequestsAreCommands ==
  Requests \cap {Caps, None, "unsent", "waiting", "failed"} = {}
ASSUME WireCapIsNat == WireCap \in Nat

VARIABLES
  pc,       \* what the client thread is blocked in, "idle" between calls
  fd,       \* "open" when fd >= 0
  rxbuf,    \* received, not yet consumed lines
  cur,      \* the command execute() is waiting for, None outside of it
  clock,    \* the deadline of the current call: "running" or "expired"
  outcome,  \* per request, as in RequestReply
  wire,     \* lines the monitor has written and the client has not received
  inbox,    \* commands the monitor has not answered
  peer,     \* the monitor: "down", "listening", "accepted", "greeted"
  mode      \* of the monitor session: "negotiation", then "command"

vars == <<pc, fd, rxbuf, cur, clock, outcome, wire, inbox, peer, mode>>

ReplyKinds == {"return", "error"}
OtherKinds == {"greeting", "event", "garbage"}
Unanswered == {"unsent", "waiting", "failed"}
Line == [kind : ReplyKinds, of : Requests \cup {Caps}]
          \cup [kind : OtherKinds, of : {None}]
Other(kind) == [kind |-> kind, of |-> None]

IsReply(line) == line.kind \in ReplyKinds

TypeOK ==
  /\ pc \in {"idle", "greeting", "negotiating", "executing"}
  /\ fd \in {"closed", "open"}
  /\ rxbuf \in Seq(Line)
  /\ cur \in Requests \cup {None}
  /\ clock \in {"running", "expired"}
  /\ outcome \in [Requests -> Requests \cup {Caps} \cup Unanswered]
  /\ wire \in Seq(Line)
  /\ inbox \in Seq(Requests \cup {Caps})
  /\ peer \in {"down", "listening", "accepted", "greeted"}
  /\ mode \in {"negotiation", "command"}

Init ==
  /\ pc = "idle"
  /\ fd = "closed"
  /\ rxbuf = <<>>
  /\ cur = None
  /\ clock = "running"
  /\ outcome = [r \in Requests |-> "unsent"]
  /\ wire = <<>>
  /\ inbox = <<>>
  /\ peer = "down"
  /\ mode = "negotiation"

--------------------------------------------------------------------------------
(* The client.                                                             *)

\* QmpClient::close: the fd and everything buffered for it are gone; what the
\* monitor writes from now on reaches nobody and it waits for a new client.
Close ==
  /\ fd' = "closed"
  /\ rxbuf' = <<>>
  /\ wire' = <<>>
  /\ inbox' = <<>>
  /\ peer' = IF peer = "down" THEN "down" ELSE "listening"
  /\ mode' = "negotiation"

\* A call ends; the request it carried, if any, has this outcome.
EndCall(result) ==
  /\ pc' = "idle"
  /\ cur' = None
  /\ outcome' = IF cur = None THEN outcome ELSE [outcome EXCEPT ![cur] = result]

\* connect_unix: drop a previous connection, then connect and wait for the
\* greeting.
Connect ==
  /\ pc = "idle"
  /\ peer # "down"
  /\ fd' = "open"
  /\ rxbuf' = <<>>
  /\ wire' = <<>>
  /\ inbox' = <<>>
  /\ peer' = "accepted"
  /\ mode' = "negotiation"
  /\ pc' = "greeting"
  /\ clock' = "running"
  /\ UNCHANGED <<cur, outcome>>

\* connect_unix with no socket to connect to, or no place in its backlog.
ConnectRefused ==
  /\ pc = "idle"
  /\ Close
  /\ UNCHANGED <<pc, cur, clock, outcome>>

\* execute: the command is written whole before any reply is read.
Execute(r) ==
  /\ pc = "idle"
  /\ fd = "open"
  /\ peer # "down"
  /\ outcome[r] = "unsent"
  /\ outcome' = [outcome EXCEPT ![r] = "waiting"]
  /\ cur' = r
  /\ pc' = "executing"
  /\ clock' = "running"
  /\ inbox' = Append(inbox, r)
  /\ UNCHANGED <<fd, rxbuf, wire, peer, mode>>

\* execute's command cannot be written, or not in time.
ExecuteUnwritten(r) ==
  /\ pc = "idle"
  /\ fd = "open"
  /\ outcome[r] = "unsent"
  /\ outcome' = [outcome EXCEPT ![r] = "failed"]
  /\ Close
  /\ UNCHANGED <<pc, cur, clock>>

\* execute refused with nothing sent: not connected, or bad arguments.
Refuse(r) ==
  /\ pc = "idle"
  /\ outcome[r] = "unsent"
  /\ outcome' = [outcome EXCEPT ![r] = "failed"]
  /\ UNCHANGED <<pc, fd, rxbuf, cur, clock, wire, inbox, peer, mode>>

\* read_line's recv(): only when no whole line is buffered and there is time
\* left; it may return any number of the lines that have arrived.
Receive ==
  /\ pc # "idle"
  /\ rxbuf = <<>>
  /\ clock = "running"
  /\ \E n \in 1 .. Len(wire) :
       /\ rxbuf' = SubSeq(wire, 1, n)
       /\ wire' = SubSeq(wire, n + 1, Len(wire))
  /\ UNCHANGED <<pc, fd, cur, clock, outcome, inbox, peer, mode>>

\* A faulty ReadGreeting: connect returns without the reply to its command.
ReadGreetingOnly ==
  /\ pc = "greeting"
  /\ rxbuf # <<>>
  /\ Head(rxbuf).kind = "greeting"
  /\ peer # "down"
  /\ rxbuf' = Tail(rxbuf)
  /\ inbox' = Append(inbox, Caps)
  /\ pc' = "idle"
  /\ UNCHANGED <<fd, cur, clock, outcome, wire, peer, mode>>

\* connect_unix reads the greeting and sends qmp_capabilities.
ReadGreeting ==
  /\ pc = "greeting"
  /\ rxbuf # <<>>
  /\ Head(rxbuf).kind = "greeting"
  /\ peer # "down"
  /\ rxbuf' = Tail(rxbuf)
  /\ inbox' = Append(inbox, Caps)
  /\ pc' = "negotiating"
  /\ UNCHANGED <<fd, cur, clock, outcome, wire, peer, mode>>

\* qmp_capabilities cannot be written.
GreetingUnwritten ==
  /\ pc = "greeting"
  /\ rxbuf # <<>>
  /\ Head(rxbuf).kind = "greeting"
  /\ Close
  /\ EndCall("failed")
  /\ UNCHANGED clock

\* A faulty SkipEvent: every line gets a fresh timeout.
SkipEventRenewingDeadline ==
  /\ pc \in {"negotiating", "executing"}
  /\ rxbuf # <<>>
  /\ Head(rxbuf).kind = "event"
  /\ rxbuf' = Tail(rxbuf)
  /\ clock' = "running"
  /\ UNCHANGED <<pc, fd, cur, outcome, wire, inbox, peer, mode>>

\* read_reply steps over an asynchronous event; the deadline is not renewed.
SkipEvent ==
  /\ pc \in {"negotiating", "executing"}
  /\ rxbuf # <<>>
  /\ Head(rxbuf).kind = "event"
  /\ rxbuf' = Tail(rxbuf)
  /\ UNCHANGED <<pc, fd, cur, clock, outcome, wire, inbox, peer, mode>>

\* read_reply returns OK to connect_unix: the session is established.
Negotiated ==
  /\ pc = "negotiating"
  /\ rxbuf # <<>>
  /\ Head(rxbuf).kind = "return"
  /\ rxbuf' = Tail(rxbuf)
  /\ pc' = "idle"
  /\ UNCHANGED <<fd, cur, clock, outcome, wire, inbox, peer, mode>>

\* A faulty ReadReply: a line of any kind but an event ends the call.
ReadAnyReply ==
  /\ pc = "executing"
  /\ rxbuf # <<>>
  /\ Head(rxbuf).kind # "event"
  /\ EndCall(Head(rxbuf).of)
  /\ rxbuf' = Tail(rxbuf)
  /\ UNCHANGED <<fd, clock, wire, inbox, peer, mode>>

\* read_reply returns OK or APP_ERROR to execute: the session is kept.
ReadReply ==
  /\ pc = "executing"
  /\ rxbuf # <<>>
  /\ IsReply(Head(rxbuf))
  /\ EndCall(Head(rxbuf).of)
  /\ rxbuf' = Tail(rxbuf)
  /\ UNCHANGED <<fd, clock, wire, inbox, peer, mode>>

\* A line that has no place in the conversation here: TRANSPORT_ERROR.
Misplaced(line) ==
  \/ pc = "greeting" /\ line.kind # "greeting"
  \/ pc = "negotiating" /\ line.kind \notin {"event", "return"}
  \/ pc = "executing" /\ line.kind \in {"greeting", "garbage"}

Desync ==
  /\ pc # "idle"
  /\ rxbuf # <<>>
  /\ Misplaced(Head(rxbuf))
  /\ Close
  /\ EndCall("failed")
  /\ UNCHANGED clock

\* A faulty TimeOut: the call fails, the session is kept.
TimeOutKeepingSession ==
  /\ pc # "idle"
  /\ clock = "expired"
  /\ rxbuf = <<>>
  /\ EndCall("failed")
  /\ UNCHANGED <<fd, rxbuf, clock, wire, inbox, peer, mode>>

\* A read runs out of time.  A whole line already buffered is consumed before
\* the clock is looked at.
TimeOut ==
  /\ pc # "idle"
  /\ clock = "expired"
  /\ rxbuf = <<>>
  /\ Close
  /\ EndCall("failed")
  /\ UNCHANGED clock

\* recv() finds the monitor gone, after its last line was read.
PeerClosed ==
  /\ pc # "idle"
  /\ peer = "down"
  /\ rxbuf = <<>>
  /\ wire = <<>>
  /\ Close
  /\ EndCall("failed")
  /\ UNCHANGED clock

\* The deadline of the call in progress passes.
Expire ==
  /\ pc # "idle"
  /\ clock = "running"
  /\ clock' = "expired"
  /\ UNCHANGED <<pc, fd, rxbuf, cur, outcome, wire, inbox, peer, mode>>

\* The owner (QemuProcess::stop) drops the session between calls.
Disconnect ==
  /\ pc = "idle"
  /\ fd = "open"
  /\ Close
  /\ UNCHANGED <<pc, cur, clock, outcome>>

--------------------------------------------------------------------------------
(* The QMP monitor, external: the peer the code is written against.        *)

Monitor == <<pc, fd, rxbuf, cur, clock, outcome>>

\* A QEMU child creates its QMP socket partway through its boot.  A new child
\* is only spawned after stop() has closed the previous session.
Listen ==
  /\ peer = "down"
  /\ fd = "closed"
  /\ peer' = "listening"
  /\ UNCHANGED <<wire, inbox, mode, Monitor>>

Greet ==
  /\ peer = "accepted"
  /\ peer' = "greeted"
  /\ wire' = Append(wire, Other("greeting"))
  /\ UNCHANGED <<inbox, mode, Monitor>>

\* Commands are answered in order, each exactly once.
Serve ==
  /\ peer = "greeted"
  /\ inbox # <<>>
  /\ Len(wire) < WireCap
  /\ \E kind \in ReplyKinds :
       wire' = Append(wire, [kind |-> kind, of |-> Head(inbox)])
  /\ inbox' = Tail(inbox)
  /\ mode' = IF Head(inbox) = Caps THEN "command" ELSE mode
  /\ UNCHANGED <<peer, Monitor>>

\* An asynchronous event, or a line that is not QMP at all.
Chatter ==
  /\ peer = "greeted"
  /\ Len(wire) < WireCap
  /\ \E kind \in {"event", "garbage"} : wire' = Append(wire, Other(kind))
  /\ UNCHANGED <<inbox, peer, mode, Monitor>>

\* The child exits: what it wrote can still be read, what it was sent is lost.
Exit ==
  /\ peer # "down"
  /\ peer' = "down"
  /\ inbox' = <<>>
  /\ UNCHANGED <<wire, mode, Monitor>>

--------------------------------------------------------------------------------
ReadLine ==
  \/ ReadGreeting \/ GreetingUnwritten \/ SkipEvent
  \/ Negotiated \/ ReadReply \/ Desync

Client ==
  \/ Connect \/ ConnectRefused \/ Disconnect
  \/ \E r \in Requests : Execute(r) \/ ExecuteUnwritten(r) \/ Refuse(r)
  \/ Receive \/ ReadLine \/ TimeOut \/ PeerClosed

Peer == Listen \/ Greet \/ Serve \/ Chatter \/ Exit

Next == Client \/ Expire \/ Peer

Spec == Init /\ [][Next]_vars

\* The clock advances, and a client that can take a step of the call it is in
\* takes one.  Nothing is assumed of the monitor.
Fairness ==
  /\ WF_vars(Expire)
  /\ WF_vars(Receive)
  /\ WF_vars(ReadLine)
  /\ WF_vars(TimeOut)

FairSpec == Spec /\ Fairness

--------------------------------------------------------------------------------
(* Properties.                                                             *)

\* execute() never hands its caller the reply to another command, whatever was
\* abandoned before it: the reason read_reply tells TRANSPORT_ERROR, which
\* closes, from APP_ERROR, which does not (qmp.cpp, ReplyStatus).
OwnReply ==
  \A r \in Requests : outcome[r] \notin Unanswered => outcome[r] = r

\* A session that outlives a call is in step: nothing the monitor still has to
\* say, and nothing unread, is a reply, so the next execute() starts clean.
KeptSessionInSync ==
  fd = "open" /\ pc = "idle" =>
    /\ inbox = <<>>
    /\ \A i \in 1 .. Len(wire) : ~IsReply(wire[i])
    /\ \A i \in 1 .. Len(rxbuf) : ~IsReply(rxbuf[i])

\* The monitor is never sent a command before it has left negotiation, over
\* every reconnection.
NegotiatedFirst ==
  \A i \in 1 .. Len(inbox) : inbox[i] \in Requests => mode = "command"

\* Every call returns, however long the monitor stays silent and however many
\* events it floods the socket with: one deadline covers all the reads.
EveryCallReturns == pc # "idle" ~> pc = "idle"

\* Why they hold.  Of the command the client is waiting for there is at most
\* one trace between the two sides: the command itself, or its only reply, not
\* received or not consumed.  Outside of a call there is none.
Awaited == IF pc = "executing" THEN cur ELSE Caps

NoReply(lines) == \A i \in 1 .. Len(lines) : ~IsReply(lines[i])

OnlyAwaited(lines) ==
  \A i \in 1 .. Len(lines) :
    IsReply(lines[i]) =>
      /\ lines[i].of = Awaited
      /\ \A j \in 1 .. Len(lines) : IsReply(lines[j]) => i = j

InStep ==
  /\ inbox # <<>> => inbox = <<Awaited>> /\ NoReply(wire) /\ NoReply(rxbuf)
  /\ NoReply(wire) \/ NoReply(rxbuf)
  /\ OnlyAwaited(wire)
  /\ OnlyAwaited(rxbuf)
  /\ pc \in {"idle", "greeting"} =>
       inbox = <<>> /\ NoReply(wire) /\ NoReply(rxbuf)

Shape ==
  /\ fd = "closed" => /\ pc = "idle" /\ peer \in {"down", "listening"}
                      /\ inbox = <<>> /\ wire = <<>> /\ rxbuf = <<>>
  /\ fd = "open" => peer # "listening"
  /\ cur # None <=> pc = "executing"
  /\ \A r \in Requests : outcome[r] = "waiting" <=> cur = r
  /\ fd = "open" /\ pc \in {"idle", "executing"} => mode = "command"
  /\ ~(NoReply(wire) /\ NoReply(rxbuf)) => mode = "command"

IInv == TypeOK /\ OwnReply /\ InStep /\ Shape

\* The link implements the abstract connection.
Abstract == INSTANCE RequestReply WITH Requests <- Requests, outcome <- outcome
ImplementsRequestReply == Abstract!Spec

================================================================================
