------------------------------- MODULE AgentLink -------------------------------
(***************************************************************************)
(* AgentLink (backends/qemu/agent_link.cpp) as QemuBackend drives it, and  *)
(* the guest agent that serves it (tools/qemu/esprite_qemu_agent).  Host   *)
(* lines are numbered in the order they are sent; a reply line carries the *)
(* number of the line the guest answers, which the real protocol does not. *)
(*                                                                         *)
(* The host thread blocks in one request at a time: "ping" when            *)
(* ensure_agent has just connected, "command" for the operation itself.    *)
(* A swipe (cli/actions.cpp) is an operation of several commands, given up *)
(* when one of them fails.                                                 *)
(* The guest handles lines one by one and may be slow (pulse and tap hold  *)
(* the input before they reply), not started yet, or restarted.  What it   *)
(* has not read waits in the UART and in the socket; when they are full,   *)
(* request() is in a send() that has no deadline.                          *)
(***************************************************************************)
EXTENDS Naturals, Sequences, FiniteSets, Functions

CONSTANTS MaxSent,      \* most lines the host sends
          MaxRestarts,  \* most times the firmware restarts
          UartCap,      \* most lines the UART takes before the guest reads
          LinkCap       \* most lines that wait for the guest, in UART and socket

ASSUME Bounds ==
  /\ {MaxSent, MaxRestarts, UartCap, LinkCap} \subseteq Nat
  /\ UartCap < LinkCap   \* the socket holds a line at least

Requests == 1 .. MaxSent
Banner == 0   \* "esprite-agent v1", the line that answers nothing

\* A faulty Swipe: the finger is not taken off the glass.
SwipeUnreleased == <<"touch", "touch">>

\* The lines of one operation.  A "pulse" stands for the commands that leave the
\* touch screen alone (gpio too); apply_swipe's six waypoints are two here.
Swipe == <<"touch", "touch", "release">>
Operations == {<<"pulse">>, <<"tap">>, Swipe}
Lines == {"ping", "pulse", "tap", "touch", "release"}
Touching == {"tap", "touch", "release"}

\* What is left of an operation when its first lines have been answered.
Rests == {Tail(Swipe), Tail(Tail(Swipe)), <<>>}

VARIABLES
  pc,       \* "idle", "ping" or "command"
  fd,       \* "closed" or "open"
  rxbuf,    \* received, not yet consumed lines
  sent,     \* number of lines sent so far; the last one is being waited for
  sending,  \* the line of the request waits in send() for room on the link
  skipped,  \* request() has stepped over a banner already
  clock,    \* the deadline of the request: "running" or "expired"
  todo,     \* the lines the operation under way has still to send
  says,     \* what each line sent says
  outcome,  \* per request: "unsent", "waiting", "failed" or "answered"
  reply,    \* per request, the line whose reply it was answered with
  wire,     \* reply lines under way from the guest to the connected host
  uart,     \* host lines the guest has not read
  torn,     \* those of which the guest reads a part only, and answers "err"
  handling, \* the line the agent task is in handle_line with, Banner for none
  agent,    \* the agent task: "down" or "up"
  vm,       \* the QEMU child: "up" or "down"
  restarts, \* firmware restarts so far
  applied,  \* lines the guest has carried out, in order
  finger    \* s_touch_held: the touch screen is being touched

host == <<pc, fd, rxbuf, sent, sending, skipped, clock, todo, says, outcome, reply>>
guest == <<uart, torn, handling, agent, vm, restarts, applied, finger>>
vars == <<host, wire, guest>>

TypeOK ==
  /\ pc \in {"idle", "ping", "command"}
  /\ fd \in {"closed", "open"}
  /\ rxbuf \in Seq(Requests \cup {Banner})
  /\ sent \in 0 .. MaxSent
  /\ sending \in BOOLEAN
  /\ skipped \in BOOLEAN
  /\ clock \in {"running", "expired"}
  /\ todo \in Operations \cup Rests
  /\ says \in Seq(Lines) /\ Len(says) = sent
  /\ outcome \in [Requests -> {"unsent", "waiting", "failed", "answered"}]
  /\ reply \in [Requests -> Requests \cup {Banner}]
  /\ \A r \in Requests : outcome[r] = "answered" <=> reply[r] # Banner
  /\ wire \in Seq(Requests \cup {Banner})
  /\ uart \in Seq(Requests) /\ torn \subseteq Requests
  /\ handling \in Requests \cup {Banner}
  /\ agent \in {"down", "up"}
  /\ vm \in {"up", "down"}
  /\ restarts \in 0 .. MaxRestarts
  /\ applied \in Seq(Requests)
  /\ finger \in BOOLEAN

Init ==
  /\ pc = "idle"
  /\ fd = "closed"
  /\ rxbuf = <<>>
  /\ sent = 0
  /\ sending = FALSE
  /\ skipped = FALSE
  /\ clock = "running"
  /\ todo = <<>>
  /\ says = <<>>
  /\ outcome = [r \in Requests |-> "unsent"]
  /\ reply = [r \in Requests |-> Banner]
  /\ wire = <<>>
  /\ uart = <<>>
  /\ torn = {}
  /\ handling = Banner
  /\ agent = "down"
  /\ vm = "up"
  /\ restarts = 0
  /\ applied = <<>>
  /\ finger = FALSE

--------------------------------------------------------------------------------
(* The host.                                                               *)

\* request() writes its line and waits for one line back, or in send() for room.
\* A line is short, and goes into the socket as a whole.  A child that is gone
\* takes no bytes: send() fails, and the operation with it.
Send(call, text, rest, results) ==
  /\ sent < MaxSent
  /\ sent' = sent + 1
  /\ says' = Append(says, text)
  /\ skipped' = FALSE
  /\ clock' = "running"
  /\ IF vm = "up"
     THEN /\ pc' = call
          /\ todo' = rest
          /\ outcome' = [results EXCEPT ![sent + 1] = "waiting"]
          /\ IF Len(uart) < LinkCap
             THEN sending' = FALSE /\ uart' = Append(uart, sent + 1)
             ELSE sending' = TRUE /\ UNCHANGED uart
     ELSE /\ pc' = "idle"
          /\ todo' = <<>>
          /\ outcome' = [results EXCEPT ![sent + 1] = "failed"]
          /\ UNCHANGED <<sending, uart>>

\* An injection on a link that ensure_agent finds connected, or the next line of
\* a swipe.  It fails when the child has exited, before running() looks or before
\* the write.
CallAgain ==
  /\ pc = "idle"
  /\ fd = "open"
  /\ \E lines \in IF todo = <<>> THEN Operations ELSE {todo} :
       Send("command", Head(lines), Tail(lines), outcome)
  /\ UNCHANGED <<fd, rxbuf, reply, wire, torn, handling, agent, vm, restarts, applied, finger>>

\* The first injection of a boot, or the first after a failed ping: connect,
\* then prove with a ping that the firmware runs the agent.
CallFirst ==
  /\ pc = "idle"
  /\ fd = "closed"
  /\ vm = "up"
  /\ sent + 1 < MaxSent
  /\ fd' = "open"
  /\ \E lines \in Operations : Send("ping", "ping", lines, outcome)
  /\ UNCHANGED <<rxbuf, reply, wire, torn, handling, agent, vm, restarts, applied, finger>>

\* The guest or the emulator has taken a line, and send() goes on.
SendResumes ==
  /\ sending
  /\ vm = "up"
  /\ Len(uart) < LinkCap
  /\ sending' = FALSE
  /\ uart' = Append(uart, sent)
  /\ UNCHANGED <<pc, fd, rxbuf, sent, skipped, clock, todo, says, outcome, reply, wire,
                 torn, handling, agent, vm, restarts, applied, finger>>

\* AgentLink::close.  Lines under way to the host are lost; of those under way
\* to the guest, some prefix is in the UART already.
CloseLink ==
  /\ fd' = "closed"
  /\ rxbuf' = <<>>
  /\ wire' = <<>>
  /\ \E n \in 0 .. Len(uart) : n <= UartCap /\ uart' = SubSeq(uart, 1, n)

\* The request has failed, and the rest of the operation is given up.
Failed ==
  /\ pc' = "idle"
  /\ todo' = <<>>
  /\ sending' = FALSE
  /\ outcome' = [outcome EXCEPT ![sent] = "failed"]
  /\ UNCHANGED <<sent, skipped, clock, says, reply, torn, handling, agent, vm, restarts,
                 applied, finger>>

\* The request ends without a reply.  Only a failed ping closes the link.
FailRequest ==
  /\ Failed
  /\ IF pc = "ping" THEN CloseLink ELSE UNCHANGED <<fd, rxbuf, wire, uart>>

\* The line has been sent, and read_line is called.
Reading == pc # "idle" /\ ~sending

\* read_line's recv(): there is time left and no whole line is buffered.
Receive ==
  /\ Reading
  /\ rxbuf = <<>>
  /\ clock = "running"
  /\ \E n \in 1 .. Len(wire) :
       /\ rxbuf' = SubSeq(wire, 1, n)
       /\ wire' = SubSeq(wire, n + 1, Len(wire))
  /\ UNCHANGED <<pc, fd, sent, sending, skipped, clock, todo, says, outcome, reply, guest>>

\* request() steps over one leading banner.
SkipBanner ==
  /\ Reading
  /\ rxbuf # <<>>
  /\ Head(rxbuf) = Banner
  /\ ~skipped
  /\ skipped' = TRUE
  /\ rxbuf' = Tail(rxbuf)
  /\ UNCHANGED <<pc, fd, sent, sending, clock, todo, says, outcome, reply, wire, guest>>

\* The line read is "err ...", or a second banner, which is not recognized: it is
\* consumed, and the request fails.
ReadRefusal ==
  /\ Reading
  /\ rxbuf # <<>>
  /\ Head(rxbuf) \in torn \/ (Head(rxbuf) = Banner /\ skipped)
  /\ Failed
  /\ IF pc = "ping" THEN CloseLink ELSE rxbuf' = Tail(rxbuf) /\ UNCHANGED <<fd, wire, uart>>

\* The caller of r is handed the reply to the given line.
Answer(r, line) ==
  /\ outcome' = [outcome EXCEPT ![r] = "answered"]
  /\ reply' = [reply EXCEPT ![r] = line]

\* Faulty variants of ReadReply: the banner is taken for a reply; the reply is
\* left in the buffer.
ReadAnyLine ==
  /\ Reading
  /\ pc = "command"
  /\ rxbuf # <<>>
  /\ rxbuf' = Tail(rxbuf)
  /\ Answer(sent, Head(rxbuf))
  /\ pc' = "idle"
  /\ UNCHANGED <<fd, sent, sending, skipped, clock, todo, says, wire, guest>>

PeekReply ==
  /\ Reading
  /\ pc = "command"
  /\ rxbuf # <<>>
  /\ Head(rxbuf) \notin torn \cup {Banner}
  /\ Answer(sent, Head(rxbuf))
  /\ pc' = "idle"
  /\ UNCHANGED <<fd, rxbuf, sent, sending, skipped, clock, todo, says, wire, guest>>

\* The line read is "ok..."; it is taken for the reply to the command just sent.
ReadReply ==
  /\ Reading
  /\ pc = "command"
  /\ rxbuf # <<>>
  /\ Head(rxbuf) \notin torn \cup {Banner}
  /\ rxbuf' = Tail(rxbuf)
  /\ Answer(sent, Head(rxbuf))
  /\ pc' = "idle"
  /\ UNCHANGED <<fd, sent, sending, skipped, clock, todo, says, wire, guest>>

\* ensure_agent has its answer; the operation follows at once.
ReadPong ==
  /\ Reading
  /\ pc = "ping"
  /\ rxbuf # <<>>
  /\ Head(rxbuf) \notin torn \cup {Banner}
  /\ rxbuf' = Tail(rxbuf)
  /\ reply' = [reply EXCEPT ![sent] = Head(rxbuf)]
  /\ Send("command", Head(todo), Tail(todo), [outcome EXCEPT ![sent] = "answered"])
  /\ UNCHANGED <<fd, wire, torn, handling, agent, vm, restarts, applied, finger>>

\* A faulty TimeOut: the read has no deadline of its own.
TimeOutWhenGone ==
  /\ Reading
  /\ clock = "expired"
  /\ vm = "down"
  /\ rxbuf = <<>>
  /\ FailRequest

TimeOut ==
  /\ Reading
  /\ clock = "expired"
  /\ rxbuf = <<>>
  /\ FailRequest

\* Once the child is gone, send() fails, and recv() returns 0 when the last line
\* of the child has been read.
Disconnected ==
  /\ pc # "idle"
  /\ vm = "down"
  /\ sending \/ (rxbuf = <<>> /\ wire = <<>>)
  /\ FailRequest

\* A signal interrupts send(), or the poll() that waits for the reply, and the
\* request has failed: unlike QmpClient, AgentLink does not go back to waiting.
\* The caller may go on to its next call, as a scenario does.
Interrupted ==
  /\ pc # "idle"
  /\ sending \/ (clock = "running" /\ rxbuf = <<>> /\ wire = <<>>)
  /\ FailRequest

Expire ==
  /\ pc # "idle"
  /\ clock = "running"
  /\ clock' = "expired"
  /\ UNCHANGED <<pc, fd, rxbuf, sent, sending, skipped, todo, says, outcome, reply, wire, guest>>

--------------------------------------------------------------------------------
(* The guest.  What it writes while no host is connected is dropped.       *)

Write(line) == wire' = IF fd = "open" THEN Append(wire, line) ELSE wire

\* esprite_agent_start: install the driver, start the task, print the banner.
\* What came before the driver may or may not be there to read, and its loss may
\* end within a line.
StartAgent ==
  /\ vm = "up"
  /\ agent = "down"
  /\ agent' = "up"
  /\ \E n \in 0 .. Len(uart) :
       /\ uart' = SubSeq(uart, n + 1, Len(uart))
       /\ torn' \in {torn, torn \cup {uart[i] : i \in {n + 1} \cap DOMAIN uart}}
  /\ Write(Banner)
  /\ UNCHANGED <<host, handling, vm, restarts, applied, finger>>

\* A faulty TakeLine: the line buffer is not reset.
RetakeLine ==
  /\ vm = "up"
  /\ agent = "up"
  /\ handling = Banner
  /\ uart # <<>>
  /\ handling' = Head(uart)
  /\ UNCHANGED <<host, wire, uart, torn, agent, vm, restarts, applied, finger>>

\* agent_task completes a line and enters handle_line.
TakeLine ==
  /\ vm = "up"
  /\ agent = "up"
  /\ handling = Banner
  /\ uart # <<>>
  /\ handling' = Head(uart)
  /\ uart' = Tail(uart)
  /\ UNCHANGED <<host, wire, torn, agent, vm, restarts, applied, finger>>

\* A faulty Finish: handle_line replies and falls through to the final "err".
FinishTwice ==
  /\ vm = "up"
  /\ handling # Banner
  /\ handling \notin torn
  /\ handling' = Banner
  /\ applied' = Append(applied, handling)
  /\ wire' = IF fd = "open" THEN wire \o <<handling, handling>> ELSE wire
  /\ UNCHANGED <<host, uart, torn, agent, vm, restarts, finger>>

\* handle_line is done with it, after any hold it asked for, and replies.
Finish ==
  /\ vm = "up"
  /\ handling # Banner
  /\ handling \notin torn
  /\ handling' = Banner
  /\ applied' = Append(applied, handling)
  /\ Write(handling)
  /\ finger' = CASE says[handling] = "touch" -> TRUE
                 [] says[handling] \in {"tap", "release"} -> FALSE
                 [] OTHER -> finger
  /\ UNCHANGED <<host, uart, torn, agent, vm, restarts>>

\* handle_line knows no command that begins like this, and replies "err".
Refuse ==
  /\ vm = "up"
  /\ handling \in torn
  /\ handling' = Banner
  /\ Write(handling)
  /\ UNCHANGED <<host, uart, torn, agent, vm, restarts, applied, finger>>

\* The firmware restarts: the command in progress and its reply never come, and
\* the agent's statics start from zero.
Restart ==
  /\ vm = "up"
  /\ agent = "up"
  /\ restarts < MaxRestarts
  /\ restarts' = restarts + 1
  /\ agent' = "down"
  /\ handling' = Banner
  /\ finger' = FALSE
  /\ UNCHANGED <<host, wire, uart, torn, vm, applied>>

Exit ==
  /\ vm = "up"
  /\ vm' = "down"
  /\ uart' = <<>>
  /\ handling' = Banner
  /\ agent' = "down"
  /\ finger' = FALSE
  /\ UNCHANGED <<host, wire, torn, restarts, applied>>

--------------------------------------------------------------------------------
ReadLine == SkipBanner \/ ReadRefusal \/ ReadReply \/ ReadPong

Host ==
  \/ CallAgain \/ CallFirst \/ SendResumes \/ Receive \/ ReadLine
  \/ TimeOut \/ Disconnected \/ Interrupted

Guest == StartAgent \/ TakeLine \/ Finish \/ Refuse \/ Restart \/ Exit

Next == Host \/ Expire \/ Guest

Spec == Init /\ [][Next]_vars

\* As for QmpLink: time passes and the blocked host reacts; the guest may not.
FairSpec ==
  /\ Spec
  /\ WF_vars(Expire) /\ WF_vars(Receive) /\ WF_vars(ReadLine) /\ WF_vars(TimeOut)
  /\ WF_vars(SendResumes) /\ WF_vars(Disconnected)

--------------------------------------------------------------------------------
(* Properties.                                                             *)

Answered(r) == outcome[r] = "answered"

\* The order of answers is never lost: a later request is answered with a later
\* reply, and no reply answers two requests, over timeouts, reconnections and
\* firmware restarts (request() and read_line consume what they read).
AnswersInOrder ==
  \A q, r \in Requests :
    q < r /\ Answered(q) /\ Answered(r) => reply[q] < reply[r]

\* The link falls behind by at most one reply per request that failed before,
\* and never ahead: as long as nothing has timed out, each request is answered
\* with its own reply.
SlipIsAccounted ==
  \A r \in Requests :
    Answered(r) =>
      /\ reply[r] <= r
      /\ r - reply[r] <= Cardinality({q \in 1 .. r - 1 : outcome[q] = "failed"})

\* The guest carries out a line at most once and in the order sent, and a
\* request reported as done rests on a line that was carried out.
AppliedOnce ==
  /\ \A i, j \in 1 .. Len(applied) : i < j => applied[i] < applied[j]
  /\ \A r \in Requests :
       Answered(r) => \E i \in 1 .. Len(applied) : applied[i] = reply[r]

\* Only an operation that fails can leave the finger on the glass: when the caller
\* has its result and the guest nothing left to read, the touch screen is free
\* unless the last line about it was reported as failed (apply_swipe returns at the
\* first failure, without its release).
FingerDownOnlyAfterFailure ==
  LET touches == {r \in 1 .. sent : says[r] \in Touching} IN
  finger /\ pc = "idle" /\ todo = <<>> /\ uart = <<>> /\ handling = Banner =>
    \E r \in touches : \A q \in touches : r <= q => outcome[q] = "failed"

\* send() waits for room on the link only when at least as many requests have
\* failed before as the link holds lines: each line that waits for the guest is
\* one whose request was given up, or whose answer an earlier line has given.
FullByFailures ==
  sending => LinkCap <= Cardinality({q \in 1 .. sent - 1 : outcome[q] = "failed"})

\* A guest that never answers costs each injection its deadline, with one
\* exception, which agent_link.h ("same bounded-blocking poll() discipline as
\* QmpClient") does not make: once so many requests have failed that the link is
\* full, the send() of the next returns only if the guest reads again, the child
\* exits or a signal comes.
EveryCallReturns == pc # "idle" ~> pc = "idle" \/ [](sending /\ FullByFailures)

\* "Strictly request/reply after connect: one line out, one line back"
\* (agent_link.h): the reply a request is given is the reply to that request.
OwnReply == \A r \in Requests : Answered(r) => reply[r] = r

--------------------------------------------------------------------------------
(* The inductive invariant.                                                *)

LinesOf(s) == Range(s) \ {Banner}
Handled == {handling} \ {Banner}
Pending == Handled \cup Range(uart)
Replies == LinesOf(rxbuf) \cup LinesOf(wire)
Before(A, B) == \A a \in A, b \in B : a < b
Increasing(s) ==
  \A i, j \in 1 .. Len(s) : i < j /\ s[i] # Banner /\ s[j] # Banner => s[i] < s[j]

\* Every line that is somewhere is later than those that are further on; what
\* comes back has been carried out or is refused; a line in send() is nowhere yet.
Written == IF sending THEN sent - 1 ELSE sent
Route ==
  /\ Increasing(applied) /\ Increasing(rxbuf) /\ Increasing(wire) /\ Increasing(uart)
  /\ Before(LinesOf(rxbuf), LinesOf(wire))
  /\ Before(Range(applied) \cup Replies, Pending) /\ Before(Handled, Range(uart))
  /\ Replies \subseteq Range(applied) \cup torn
  /\ Range(applied) \cup Replies \cup Pending \cup torn \subseteq 1 .. Written

\* A reply that was read is older than all that can still be read, and than the
\* request it was taken for.
Replied ==
  \A r \in Requests : Answered(r) =>
    /\ reply[r] \in Range(applied) /\ reply[r] <= r
    /\ Before({reply[r]}, Replies)

\* One request at a time is open, the last one.
Calls ==
  /\ \A r \in Requests : r > sent => outcome[r] = "unsent"
  /\ \A r \in 1 .. sent : outcome[r] \in {"failed", "answered"} \/ (r = sent /\ pc # "idle")
  /\ pc # "idle" => sent > 0 /\ outcome[sent] = "waiting" /\ fd = "open"
  /\ sending => pc # "idle"

\* Before the first ping that is answered, nothing but pings is sent; afterwards
\* the link stays open.
Connecting ==
  /\ pc = "ping" => todo \in Operations
  /\ pc # "ping" => todo \in Rests
  /\ fd = "closed" => pc = "idle" /\ todo = <<>>
  /\ pc = "ping" \/ fd = "closed" => \A r \in 1 .. sent : says[r] = "ping"

\* A touch that did not fail is followed by the next line of its swipe.
SwipeGoesOn ==
  \A r \in 1 .. sent :
    says[r] = "touch" /\ outcome[r] # "failed" =>
      IF r < sent THEN says[r + 1] \in {"touch", "release"} ELSE pc # "ping" /\ todo # <<>>

\* The lines about the touch screen that come after t wait for the guest or for
\* room, or their requests have failed.
Behind(t) ==
  \A q \in 1 .. sent : q > t /\ says[q] \in Touching =>
    q \in Pending \/ outcome[q] = "failed" \/ (q = sent /\ sending)

\* No other such line is lost while one before it is still on its way, or the finger
\* is on the glass: a line is torn only when nothing before it is left, and then the
\* agent has just started.
FingerSince ==
  /\ vm = "down" => agent = "down" /\ uart = <<>>
  /\ agent = "down" => ~finger /\ handling = Banner
  /\ \A t \in Pending : Behind(t)
  /\ \A t \in torn \cap Pending : ~finger /\ \A q \in Pending : t <= q
  /\ finger => \E t \in Range(applied) : says[t] = "touch" /\ Behind(t)

IInv ==
  /\ TypeOK /\ AnswersInOrder /\ Route /\ Replied /\ Calls
  /\ Connecting /\ SwipeGoesOn /\ FingerSince /\ FullByFailures

================================================================================
