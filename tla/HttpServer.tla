------------------------------ MODULE HttpServer ------------------------------
(***************************************************************************)
(* The WebServer shim (shims/net/webserver.cpp): a listener on a localhost *)
(* port, the connections that wait at it, and handleClient(), which serves *)
(* one of them with a receive timeout of 200 ms.  The firmware and the     *)
(* host are one thread, its clients are other processes.                   *)
(*                                                                         *)
(* A request is Parts pieces on the wire: two of its head, one of its      *)
(* body.  The bound of 256 KB on a request, multipart uploads and the      *)
(* bookkeeping of headers are left out.                                    *)
(***************************************************************************)
EXTENDS Integers, Sequences

CONSTANTS
  MaxConns,  \* connections, numbered in the order they are made
  Backlog    \* those the kernel lets wait at the listener, 8 in the code

ASSUME HttpConstants == MaxConns \in Nat /\ Backlog \in Nat \ {0}

Conns == 1 .. MaxConns
Head2 == 2   \* the pieces of the head
Parts == 3   \* of a whole request

VARIABLES
  listening,  \* listen_fd_ is open
  status,     \* g_bind_status: -1 never started, 0 bind failed, 1 bound
  stopped,    \* stop() has been called since begin() bound the port
  foreign,    \* another process listens on the port
  made,       \* connections made
  conn,       \* what their clients did, and where they ended up
  backlog,    \* those that wait at the listener
  current,    \* client_fd_, or 0
  taken,      \* pieces of its request received
  handled     \* the requests a handler has seen, and how much of each

listener == <<listening, status, stopped>>
serving == <<current, taken, handled>>
httpVars == <<listener, foreign, made, conn, backlog, serving>>

\* to: the listener it reached; lengthy: with a Content-Length; closed: the
\* client writes no more; late: the server did not wait for the rest of it
Connection(to, sent, lengthy, closed) ==
  [to |-> to, sent |-> sent, lengthy |-> lengthy, closed |-> closed, late |-> FALSE]

HttpTypeOK ==
  /\ listening \in BOOLEAN /\ status \in {-1, 0, 1} /\ made \in 0 .. MaxConns
  /\ listening => status # -1 /\ ~foreign
  /\ conn \in [1 .. made -> [to : {"us", "answered", "reset", "other", "nobody"}, sent : 0 .. Parts,
                            lengthy : BOOLEAN, closed : BOOLEAN, late : BOOLEAN]]
  /\ backlog \in Seq(1 .. made) /\ current \in 0 .. made /\ taken \in 0 .. Parts
  /\ handled \in Seq([conn : 1 .. made, parts : 1 .. Parts])

HttpInit ==
  /\ listening = FALSE /\ status = -1 /\ stopped = FALSE /\ foreign = FALSE
  /\ made = 0 /\ conn = <<>> /\ backlog = <<>>
  /\ current = 0 /\ taken = 0 /\ handled = <<>>
-----------------------------------------------------------------------------
\* The kernel resets what has reached a listener that closes.
Reset(cs) == conn' = [c \in DOMAIN conn |-> IF c \in cs THEN [conn[c] EXCEPT !.to = "reset"]
                                            ELSE conn[c]]
Waiting == {backlog[i] : i \in DOMAIN backlog}

\* stop(): the bind status stays as it is.
Stop ==
  /\ listening' = FALSE /\ stopped' = TRUE /\ backlog' = <<>> /\ Reset(Waiting)
  /\ UNCHANGED <<status, foreign, made, serving>>

\* A faulty BootReset: it forgets the server, and leaves its listener open.
BootResetStatusOnly ==
  /\ status' = -1 /\ stopped' = FALSE
  /\ UNCHANGED <<listening, conn, backlog, foreign, made, serving>>

\* webserver_boot_reset
BootReset ==
  /\ listening' = FALSE /\ status' = -1 /\ stopped' = FALSE /\ backlog' = <<>>
  /\ Reset(Waiting) /\ UNCHANGED <<foreign, made, serving>>

\* begin(): stops, and binds the port unless another process has it.
Begin ==
  /\ listening' = ~foreign /\ status' = (IF foreign THEN 0 ELSE 1) /\ stopped' = FALSE
  /\ backlog' = <<>> /\ Reset(Waiting) /\ UNCHANGED <<foreign, made, serving>>

\* The process is gone, and its sockets with it.
ProcessDies ==
  /\ listening' = FALSE /\ status' = -1 /\ stopped' = FALSE /\ backlog' = <<>>
  /\ Reset(Waiting \cup ({current} \ {0})) /\ current' = 0 /\ taken' = 0
  /\ UNCHANGED <<foreign, made, handled>>
-----------------------------------------------------------------------------
\* A connect() now waits in the kernel until something has been accepted.
Full == listening /\ Len(backlog) >= Backlog

\* Where a client that connects now ends up.
Reached == IF listening THEN "us" ELSE IF foreign THEN "other" ELSE "nobody"

Connect(sent, lengthy, closed) ==
  /\ made < MaxConns /\ made' = made + 1 /\ ~Full
  /\ conn' = Append(conn, Connection(Reached, sent, lengthy, closed))
  /\ backlog' = IF listening THEN Append(backlog, made + 1) ELSE backlog
  /\ UNCHANGED <<listener, foreign, serving>>

ClientConnects == \E lengthy \in BOOLEAN : Connect(0, lengthy, FALSE)

ClientSends ==
  \E c \in DOMAIN conn :
    /\ conn[c].to = "us" /\ ~conn[c].closed /\ conn[c].sent < Parts
    /\ conn' = [conn EXCEPT ![c].sent = @ + 1]
    /\ UNCHANGED <<listener, foreign, made, backlog, serving>>

ClientCloses ==
  \E c \in DOMAIN conn :
    /\ conn[c].to = "us" /\ ~conn[c].closed
    /\ conn' = [conn EXCEPT ![c].closed = TRUE]
    /\ UNCHANGED <<listener, foreign, made, backlog, serving>>

\* Another process takes the port, or gives it up.
PortChanges ==
  /\ ~listening /\ foreign' = ~foreign
  /\ UNCHANGED <<listener, made, conn, backlog, serving>>
-----------------------------------------------------------------------------
\* handleClient(): one accept per call.
Accept ==
  /\ listening /\ backlog # <<>>
  /\ current' = Head(backlog) /\ backlog' = Tail(backlog) /\ taken' = 0
  /\ UNCHANGED <<listener, foreign, made, conn, handled>>

NothingToAccept == ~listening \/ backlog = <<>>

\* Enough of the request has come: all of it, or a head that promises no body.
Complete == taken = Parts \/ (taken >= Head2 /\ ~conn[current].lengthy)

Receive ==
  /\ current # 0 /\ ~Complete /\ taken < conn[current].sent
  /\ taken' \in taken + 1 .. conn[current].sent
  /\ UNCHANGED <<listener, foreign, made, conn, backlog, current, handled>>

\* Nothing more has come, and the client has closed or 200 ms are over.
GivesUp == taken = conn[current].sent

\* The connection is closed; late, if its client was still to write.
Answered ==
  /\ conn' = [conn EXCEPT ![current].to = "answered",
                         ![current].late = ~Complete /\ ~conn[current].closed]
  /\ current' = 0 /\ taken' = 0
  /\ UNCHANGED <<listener, foreign, made, backlog>>

\* Not a byte of a request: it is closed without a handler.
CloseEmpty == current # 0 /\ taken = 0 /\ GivesUp /\ Answered /\ UNCHANGED handled

\* The handler runs with what there is, cut short or not.
Handle ==
  /\ current # 0 /\ taken > 0 /\ (Complete \/ GivesUp)
  /\ handled' = Append(handled, [conn |-> current, parts |-> taken]) /\ Answered
-----------------------------------------------------------------------------
\* A request is handled once, in the order the connections were made, and with
\* all of its body unless its client closed, paused or announced no length.
RequestsHandled ==
  /\ \A i, j \in DOMAIN handled : i < j => handled[i].conn < handled[j].conn
  /\ \A i \in DOMAIN handled :
       LET c == conn[handled[i].conn]
       IN handled[i].parts = Parts \/ c.late \/ ~c.lengthy \/ (c.closed /\ c.sent < Parts)

\* Connections are served in their order: those that were handled come before
\* the one that is served, and that before those that wait.
InOrder ==
  /\ \A i, j \in DOMAIN backlog : i < j => backlog[i] < backlog[j]
  /\ \A i \in DOMAIN backlog : current < backlog[i] /\ conn[backlog[i]].to = "us"
  /\ current # 0 => conn[current].to = "us" /\ taken <= conn[current].sent
  /\ \A i \in DOMAIN handled :
       /\ conn[handled[i].conn].to # "us"
       /\ current # 0 => handled[i].conn < current
       /\ \A j \in DOMAIN backlog : handled[i].conn < backlog[j]

\* The inductive invariant of the server
HttpInv == HttpTypeOK /\ InOrder /\ RequestsHandled
=============================================================================
