------------------------------- MODULE BleBridge -------------------------------
(***************************************************************************)
(* The BLE bridge of serve (cli/ble_bridge.cpp) and the bus it shares with *)
(* the firmware (peripherals/ble/sim_ble.cpp).  One thread runs the frame  *)
(* loop: a turn of the firmware, then a tick of the bridge, which accepts  *)
(* a TCP client, reads what it wrote, delivers whole lines to the bus and  *)
(* streams the device's lines back.                                        *)
(*                                                                         *)
(* Clients and the firmware are external.  Clients are numbered in the     *)
(* order they connect, the device's lines in the order it sends them.      *)
(* Line n of a client is two pieces, the second with the newline: what a   *)
(* recv() can cut apart.  HID reports and passkeys, which the bridge does  *)
(* not touch, are left out.                                                *)
(***************************************************************************)
EXTENDS Naturals, Sequences, FiniteSets, Functions

CONSTANTS
  MaxClients,  \* most clients that connect
  MaxPieces,   \* most pieces the clients write
  MaxSent,     \* most lines the device sends
  InbufCap,    \* pieces in inbuf beyond which a line is a runaway
  SocketCap    \* lines the socket to a client holds unread

ASSUME BridgeConstants ==
  {MaxClients, MaxPieces, MaxSent, InbufCap, SocketCap} \subseteq Nat

Clients == 1 .. MaxClients
NoClient == 0   \* client_fd is -1

VARIABLES
  phase,        \* where the serve loop is
  interrupted,  \* g_interrupted
  link,         \* BleBus::state: "advertising" or "connected"
  clientFd,     \* BleBridge::client_fd
  inbuf,        \* BleBridge::inbuf
  delivered,    \* every line pushed on to_device, where the device finds them
  sent,         \* per line pushed on to_host, the client that was connected
  drained,      \* how many of them sim_ble_host_drain has returned
  streaming,    \* how many of those the loop in the tick is done with
  streamed,     \* the lines the kernel took: [line, to]
  connected,    \* how many clients have connected
  accepted,     \* how many of them were taken off the listen queue
  closed,       \* the clients that have closed their end
  wrote,        \* per client, the pieces it wrote
  wire,         \* per client, those the bridge has not received
  unread        \* lines in the socket of the kept client it has not read

bus == <<link, delivered, sent, drained>>
session == <<clientFd, inbuf, streaming, unread>>
bridge == <<session, streamed, accepted>>
peers == <<connected, closed, wrote, wire>>
vars == <<phase, interrupted, bus, bridge, peers>>

Piece == Clients \X (Nat \ {0})
EndsLine(p) == p[2] % 2 = 0
LineOf(c, n) == <<<<c, 2 * n - 1>>, <<c, 2 * n>>>>

TypeOK ==
  /\ phase \in {"top", "device", "receive", "deliver", "stream", "ended",
                "killed"}
  /\ interrupted \in BOOLEAN
  /\ link \in {"advertising", "connected"}
  /\ clientFd \in Clients \cup {NoClient}
  /\ inbuf \in Seq(Piece)
  /\ delivered \in Seq(Seq(Piece))
  /\ sent \in Seq(Clients) /\ Len(sent) <= MaxSent
  /\ drained \in 0 .. Len(sent)
  /\ streaming \in 0 .. drained
  /\ streamed \in Seq([line : 1 .. MaxSent, to : Clients])
  /\ connected \in 0 .. MaxClients
  /\ accepted \in 0 .. connected
  /\ closed \subseteq 1 .. connected
  /\ wrote \in [Clients -> Nat]
  /\ wire \in [Clients -> Seq(Piece)]
  /\ unread \in 0 .. SocketCap

\* serve has booted a firmware with a BLE stack, and the bridge is open.
Init ==
  /\ phase = "top"
  /\ interrupted = FALSE
  /\ link = "advertising"
  /\ clientFd = NoClient
  /\ inbuf = <<>>
  /\ delivered = <<>>
  /\ sent = <<>> /\ drained = 0 /\ streaming = 0 /\ streamed = <<>>
  /\ connected = 0 /\ accepted = 0
  /\ closed = {}
  /\ wrote = [c \in Clients |-> 0]
  /\ wire = [c \in Clients |-> <<>>]
  /\ unread = 0

--------------------------------------------------------------------------------
(* The frame loop of serve.                                                *)

Frame ==
  /\ phase = "top"
  /\ ~interrupted
  /\ phase' = "device"
  /\ UNCHANGED <<interrupted, bus, bridge, peers>>

\* A faulty DropClient: half a line stays in inbuf.
DropKeepingInput ==
  /\ clientFd' = NoClient
  /\ link' = "advertising"
  /\ streaming' = drained
  /\ unread' = 0
  /\ UNCHANGED inbuf

\* drop_client, with sim_ble_host_disconnect; lines drained and not yet sent
\* are gone with the tick.
DropClient ==
  /\ clientFd' = NoClient
  /\ inbuf' = <<>>
  /\ link' = "advertising"
  /\ streaming' = drained
  /\ unread' = 0

\* The loop sees the flag: ble_bridge_close.
ServeEnds ==
  /\ phase = "top"
  /\ interrupted
  /\ phase' = "ended"
  /\ IF clientFd = NoClient
     THEN UNCHANGED <<session, link>>
     ELSE DropClient
  /\ UNCHANGED <<interrupted, delivered, sent, drained, streamed, accepted,
                 peers>>

--------------------------------------------------------------------------------
(* The firmware's turn: sim_backend().tick().                              *)

\* sim_ble_device_send; without a link the line is dropped.
DeviceSends ==
  /\ phase = "device"
  /\ Len(sent) < MaxSent
  /\ link = "connected"
  /\ sent' = Append(sent, clientFd)
  /\ UNCHANGED <<phase, interrupted, link, delivered, drained, bridge,
                 peers>>

\* sim_ble_device_drop_link: the bridge is not told and keeps its client.
DeviceDropsLink ==
  /\ phase = "device"
  /\ link' = "advertising"
  /\ UNCHANGED <<phase, interrupted, delivered, sent, drained, bridge,
                 peers>>

--------------------------------------------------------------------------------
(* ble_bridge_tick                                                         *)

\* A faulty Accept: what accept() returned is not looked at.
AcceptUnchecked ==
  /\ phase = "device"
  /\ accepted' = accepted + 1
  /\ IF clientFd = NoClient
     THEN clientFd' = accepted' /\ link' = "connected"
     ELSE UNCHANGED <<clientFd, link>>
  /\ phase' = "receive"
  /\ UNCHANGED <<interrupted, delivered, sent, drained, inbuf, streaming,
                 unread, streamed, peers>>

\* The firmware's turn is over, and the tick begins with accept().  One central
\* at a time: a client is kept if there is none, else refused.
Accept ==
  /\ phase = "device"
  /\ accepted < connected
  /\ accepted' = accepted + 1
  /\ IF clientFd = NoClient
     THEN clientFd' = accepted' /\ link' = "connected"
     ELSE UNCHANGED <<clientFd, link>>
  /\ phase' = "receive"
  /\ UNCHANGED <<interrupted, delivered, sent, drained, inbuf, streaming,
                 unread, streamed, peers>>

NoneWaits ==
  /\ phase = "device"
  /\ accepted = connected
  /\ phase' = IF clientFd = NoClient THEN "top" ELSE "receive"
  /\ UNCHANGED <<interrupted, bus, bridge, peers>>

\* recv returns bytes; more than inbuf may hold, newlines or not, is a runaway.
Receive ==
  /\ phase = "receive"
  /\ wire[clientFd] # <<>>
  /\ wire' = [wire EXCEPT ![clientFd] = <<>>]
  /\ LET got == inbuf \o wire[clientFd] IN
       IF Len(got) > InbufCap
       THEN phase' = "top" /\ DropClient
       ELSE inbuf' = got /\ UNCHANGED <<phase, clientFd, link, streaming, unread>>
  /\ UNCHANGED <<interrupted, delivered, sent, drained, streamed,
                 accepted, connected, closed, wrote>>

\* recv returns end of file or an error.
ClientGone ==
  /\ phase = "receive"
  /\ wire[clientFd] = <<>>
  /\ clientFd \in closed
  /\ phase' = "top"
  /\ DropClient
  /\ UNCHANGED <<interrupted, delivered, sent, drained, streamed, accepted,
                 peers>>

\* recv would block.
Received ==
  /\ phase = "receive"
  /\ wire[clientFd] = <<>>
  /\ clientFd \notin closed
  /\ phase' = "deliver"
  /\ UNCHANGED <<interrupted, bus, bridge, peers>>

Newlines == {i \in 1 .. Len(inbuf) : EndsLine(inbuf[i])}

\* The next whole line goes to sim_ble_host_send, which drops it without a link.
Deliver ==
  /\ phase = "deliver"
  /\ \E i \in Newlines :
       /\ \A j \in Newlines : i <= j
       /\ inbuf' = SubSeq(inbuf, i + 1, Len(inbuf))
       /\ delivered' = IF link = "connected"
                       THEN Append(delivered, SubSeq(inbuf, 1, i))
                       ELSE delivered
  /\ UNCHANGED <<phase, interrupted, link, sent, drained, clientFd, streaming,
                 unread, streamed, accepted, peers>>

\* A faulty Drain: the queue is not cleared.
DrainAgain ==
  /\ phase = "deliver"
  /\ Newlines = {}
  /\ phase' = "stream"
  /\ drained' = Len(sent)
  /\ streaming' = 0
  /\ UNCHANGED <<interrupted, link, delivered, sent, clientFd, inbuf, unread,
                 streamed, accepted, peers>>

\* sim_ble_host_drain empties the queue into the loop that streams it.
Drain ==
  /\ phase = "deliver"
  /\ Newlines = {}
  /\ phase' = "stream"
  /\ drained' = Len(sent)
  /\ UNCHANGED <<interrupted, link, delivered, sent, bridge, peers>>

\* send takes the next line.  While the socket is full the loop retries: there
\* is no other step, and no end, until the client reads or goes away.
Stream ==
  /\ phase = "stream"
  /\ streaming < drained
  /\ clientFd \notin closed
  /\ unread < SocketCap
  /\ streaming' = streaming + 1
  /\ streamed' = Append(streamed, [line |-> streaming', to |-> clientFd])
  /\ unread' = unread + 1
  /\ UNCHANGED <<phase, interrupted, bus, clientFd, inbuf, accepted, peers>>

\* A faulty StreamToClosed: every error is taken for a full socket.
RetryToClosed ==
  /\ phase = "stream"
  /\ streaming < drained
  /\ clientFd \in closed
  /\ UNCHANGED vars

\* The client has closed.  The kernel takes the line all the same, or send
\* fails, or, when the client's reset is already there, SIGPIPE, which serve
\* leaves at its default, ends the process.
StreamToClosed ==
  /\ phase = "stream"
  /\ streaming < drained
  /\ clientFd \in closed
  /\ \/ /\ streaming' = streaming + 1
        /\ streamed' = Append(streamed, [line |-> streaming', to |-> clientFd])
        /\ UNCHANGED <<phase, link, clientFd, inbuf, unread>>
     \/ /\ phase' = "top"
        /\ DropClient
        /\ UNCHANGED streamed
     \/ /\ phase' = "killed"
        /\ UNCHANGED <<link, session, streamed>>
  /\ UNCHANGED <<interrupted, delivered, sent, drained, accepted, peers>>

TickEnds ==
  /\ phase = "stream"
  /\ streaming = drained
  /\ phase' = "top"
  /\ UNCHANGED <<interrupted, bus, bridge, peers>>

Tick == Accept \/ NoneWaits \/ Receive \/ ClientGone \/ Received \/ Deliver
        \/ Drain \/ Stream \/ StreamToClosed \/ TickEnds

--------------------------------------------------------------------------------
(* Clients, and the signal.                                                *)

Serving == phase \notin {"ended", "killed"}

\* The clients whose socket the bridge or the listen queue holds; what others
\* still do reaches nobody.
Held == {c \in 1 .. connected : Serving /\ (c = clientFd \/ c > accepted)}

ClientConnects ==
  /\ Serving
  /\ connected < MaxClients
  /\ connected' = connected + 1
  /\ UNCHANGED <<phase, interrupted, bus, bridge, closed, wrote, wire>>

ClientWrites(c) ==
  /\ c \in Held \ closed
  /\ FoldFunction(+, 0, wrote) < MaxPieces
  /\ wrote' = [wrote EXCEPT ![c] = @ + 1]
  /\ wire' = [wire EXCEPT ![c] = Append(@, <<c, wrote'[c]>>)]
  /\ UNCHANGED <<phase, interrupted, bus, bridge, connected, closed>>

ClientReads ==
  /\ clientFd \in Held \ closed
  /\ unread > 0
  /\ unread' = unread - 1
  /\ UNCHANGED <<phase, interrupted, bus, clientFd, inbuf, streaming, streamed,
                 accepted, peers>>

\* An orderly close: what the client has written is still delivered.
ClientCloses(c) ==
  /\ c \in Held \ closed
  /\ closed' = closed \cup {c}
  /\ UNCHANGED <<phase, interrupted, bus, bridge, connected, wrote, wire>>

Interrupt ==
  /\ Serving
  /\ ~interrupted
  /\ interrupted' = TRUE
  /\ UNCHANGED <<phase, bus, bridge, peers>>

Peers ==
  \/ ClientConnects \/ ClientReads \/ Interrupt
  \/ \E c \in Clients : ClientWrites(c) \/ ClientCloses(c)

Device == DeviceSends \/ DeviceDropsLink

Serve == Frame \/ ServeEnds \/ Tick

Next == Frame \/ ServeEnds \/ Device \/ Tick \/ Peers

Spec == Init /\ [][Next]_vars

\* The loop runs, and the firmware's turn ends.
Fairness == WF_vars(Serve)

FairSpec == Spec /\ Fairness

\* A client, besides, that keeps reading for as long as it is connected.
ReadingSpec == FairSpec /\ WF_vars(ClientReads)

--------------------------------------------------------------------------------
(* Properties.                                                             *)

\* The device gets whole lines of one client each, client after client, and of
\* each client an unbroken run from its first line: a line that a recv cut
\* apart is not glued to another client's, and a session that lost its link
\* does not come back in the middle.
From(i) == delivered[i][1][1]

DeviceGetsPrefixes ==
  \A i \in 1 .. Len(delivered) :
    LET nth == Cardinality({j \in 1 .. i : From(j) = From(i)}) IN
      /\ delivered[i] = LineOf(From(i), nth)
      /\ \A j \in 1 .. i : From(j) <= From(i)

\* To one client nothing in between is missing, however full its socket was; the
\* next one starts with a later line.
UnbrokenRuns ==
  \A i, j \in 1 .. Len(streamed) :
    j = i + 1 =>
      IF streamed[i].to = streamed[j].to
      THEN streamed[j].line = streamed[i].line + 1
      ELSE streamed[i].line < streamed[j].line /\ streamed[i].to < streamed[j].to

\* A drop leaves lines in to_host, and they go to a later client before its
\* own.  Only one that came and went within a tick is passed over: a client for
\* which the device has had a turn takes every line left from before.
LeftoversFirst ==
  \A i \in 1 .. Len(streamed), n \in 1 .. Len(sent) :
    ~ (sent[streamed[i].line] < sent[n] /\ sent[n] < streamed[i].to)

\* What is streamed is in the order the device sent it, nothing twice, over
\* clients that come, stall and go (drop_client, stream_out).
StreamedInOrder == UnbrokenRuns /\ LeftoversFirst

\* Ctrl-C ends serve (docs/reference.md), in whatever part of the tick it
\* comes, or the process has been killed.
InterruptEndsServe == interrupted ~> phase \in {"ended", "killed"}

\* The tick is non-blocking (ble_bridge.h).
TickReturns == phase = "stream" ~> phase # "stream"

--------------------------------------------------------------------------------
(* The inductive invariant.                                                *)

OneCentral ==
  /\ phase \in {"receive", "deliver", "stream"} => clientFd # NoClient
  /\ phase = "stream" => drained = Len(sent)
  /\ link = "connected" => clientFd # NoClient
  /\ clientFd = NoClient => inbuf = <<>>
  /\ clientFd <= accepted

Numbered(s, c, k) == \A i \in 1 .. Len(s) : s[i] = <<c, k + i>>
Got(c) == Cardinality({j \in 1 .. Len(delivered) : From(j) = c})

\* What a client wrote is with the device, in inbuf or under way, in this order,
\* as long as its link has not been dropped.
InStep ==
  /\ \A c \in Clients :
       c > accepted => Numbered(wire[c], c, 0) /\ wrote[c] = Len(wire[c])
  /\ link = "connected" =>
       LET got == 2 * Got(clientFd) IN
         /\ Numbered(inbuf, clientFd, got)
         /\ Numbered(wire[clientFd], clientFd, got + Len(inbuf))
         /\ wrote[clientFd] = got + Len(inbuf) + Len(wire[clientFd])

\* Nothing concerns a client that comes after the present one.
UpTo(c) == c \in 1 .. accepted /\ (clientFd # NoClient => c <= clientFd)

Sessions ==
  /\ \A i \in 1 .. Len(delivered) : UpTo(From(i))
  /\ \A n \in 1 .. Len(sent) : UpTo(sent[n])
  /\ \A i \in 1 .. Len(streamed) :
       /\ UpTo(streamed[i].to)
       /\ streamed[i].line <= streaming
       /\ i = Len(streamed) /\ streamed[i].to = clientFd => streamed[i].line = streaming

\* The lines not drained are of the last client that had any; those not streamed
\* may have lines of the present client behind them.  While the device has its
\* turn, none of an earlier client is left.
Leftovers ==
  \A m, n \in 1 .. Len(sent) :
    /\ drained < m => sent[n] <= sent[m]
    /\ streaming < m /\ sent[m] < sent[n] => sent[n] = clientFd
    /\ drained < m /\ phase \in {"top", "device"} /\ clientFd # NoClient =>
         sent[m] = clientFd

IInv ==
  /\ TypeOK /\ OneCentral /\ InStep /\ Sessions /\ Leftovers
  /\ DeviceGetsPrefixes /\ StreamedInOrder

================================================================================
