---------------------------- MODULE QmpLink_proofs ----------------------------
(***************************************************************************)
(* Proofs about QmpLink, for every set of requests and every capacity of   *)
(* the socket.  Type correctness is proved on its own; the other facts     *)
(* follow from the inductive invariant IInv.                               *)
(***************************************************************************)
EXTENDS QmpLink, SequenceTheorems, TLAPS

--------------------------------------------------------------------------------
(* What the sequence operators do to a stream of lines.                    *)

LEMMA AppendOther ==
  ASSUME NEW s \in Seq(Line), NEW l \in Line, ~IsReply(l)
  PROVE  /\ Append(s, l) \in Seq(Line)
         /\ NoReply(Append(s, l)) <=> NoReply(s)
         /\ OnlyAwaited(s) => OnlyAwaited(Append(s, l))
<1>1. /\ Len(Append(s, l)) = Len(s) + 1
      /\ \A i \in 1 .. Len(s) : Append(s, l)[i] = s[i]
      /\ Append(s, l)[Len(s) + 1] = l
  OBVIOUS
<1>2. NoReply(Append(s, l)) <=> NoReply(s)
  BY <1>1 DEF NoReply
<1>3. ASSUME OnlyAwaited(s)
      PROVE  OnlyAwaited(Append(s, l))
  BY <1>1, <1>3 DEF OnlyAwaited
<1>4. QED
  BY <1>2, <1>3

LEMMA AppendAwaited ==
  ASSUME NEW s \in Seq(Line), NEW l \in Line, NoReply(s), l.of = Awaited
  PROVE  /\ Append(s, l) \in Seq(Line)
         /\ OnlyAwaited(Append(s, l))
<1>1. /\ Len(Append(s, l)) = Len(s) + 1
      /\ \A i \in 1 .. Len(s) : Append(s, l)[i] = s[i]
      /\ Append(s, l)[Len(s) + 1] = l
  OBVIOUS
<1>2. QED
  BY <1>1 DEF OnlyAwaited, NoReply

LEMMA TailLines ==
  ASSUME NEW s \in Seq(Line), s # <<>>
  PROVE  /\ Head(s) \in Line
         /\ Tail(s) \in Seq(Line)
         /\ NoReply(s) => NoReply(Tail(s)) /\ ~IsReply(Head(s))
         /\ OnlyAwaited(s) => OnlyAwaited(Tail(s))
         /\ OnlyAwaited(s) /\ IsReply(Head(s)) =>
              NoReply(Tail(s)) /\ Head(s).of = Awaited
<1>1. /\ Len(s) \in Nat /\ Len(s) >= 1
      /\ Len(Tail(s)) = Len(s) - 1
      /\ \A i \in 1 .. Len(Tail(s)) : Tail(s)[i] = s[i + 1]
      /\ Head(s) = s[1]
  OBVIOUS
<1>2. NoReply(s) => NoReply(Tail(s)) /\ ~IsReply(Head(s))
  BY <1>1 DEF NoReply
<1>3. ASSUME OnlyAwaited(s)
      PROVE  OnlyAwaited(Tail(s))
  <2>1. \A i \in 1 .. Len(Tail(s)) : i + 1 \in 1 .. Len(s)
    BY <1>1
  <2>2. QED
    BY <1>1, <1>3, <2>1 DEF OnlyAwaited
<1>4. ASSUME OnlyAwaited(s), IsReply(Head(s))
      PROVE  NoReply(Tail(s)) /\ Head(s).of = Awaited
  <2>1. \A i \in 1 .. Len(Tail(s)) : i + 1 \in 1 .. Len(s) /\ i + 1 # 1
    BY <1>1
  <2>2. QED
    BY <1>1, <1>4, <2>1 DEF OnlyAwaited, NoReply
<1>5. QED
  BY <1>2, <1>3, <1>4

LEMMA SplitLines ==
  ASSUME NEW s \in Seq(Line), NEW n \in 1 .. Len(s), OnlyAwaited(s)
  PROVE  LET front == SubSeq(s, 1, n)
             rest == SubSeq(s, n + 1, Len(s))
         IN  /\ front \in Seq(Line) /\ rest \in Seq(Line)
             /\ OnlyAwaited(front) /\ OnlyAwaited(rest)
             /\ NoReply(front) \/ NoReply(rest)
             /\ NoReply(s) => NoReply(front) /\ NoReply(rest)
<1> DEFINE front == SubSeq(s, 1, n)
           rest == SubSeq(s, n + 1, Len(s))
<1>1. /\ front \in Seq(Line)
      /\ Len(front) = n
      /\ \A i \in 1 .. n : front[i] = s[i]
  BY SubSeqProperties
<1>2. /\ rest \in Seq(Line)
      /\ Len(rest) = Len(s) - n
      /\ \A i \in 1 .. Len(s) - n : rest[i] = s[n + i]
  BY SubSeqProperties
<1> HIDE DEF front, rest
<1>3. \A i \in 1 .. Len(rest) : n + i \in 1 .. Len(s) /\ n + i > n
  BY <1>2
<1>4. \A i \in 1 .. Len(front) : i \in 1 .. Len(s) /\ i <= n
  BY <1>1
<1>5. OnlyAwaited(front)
  BY <1>1, <1>4 DEF OnlyAwaited
<1>6. OnlyAwaited(rest)
  <2>1. \A i, j \in 1 .. Len(rest) : n + i = n + j => i = j
    BY <1>2
  <2>2. QED
    BY <1>2, <1>3, <2>1 DEF OnlyAwaited
<1>7. NoReply(front) \/ NoReply(rest)
  <2> SUFFICES ASSUME NEW i \in 1 .. Len(front), IsReply(front[i]),
                      NEW j \in 1 .. Len(rest), IsReply(rest[j])
               PROVE  FALSE
    BY DEF NoReply
  <2>1. IsReply(s[i]) /\ IsReply(s[n + j]) /\ i \in 1 .. Len(s) /\ n + j \in 1 .. Len(s)
    BY <1>1, <1>2, <1>3, <1>4
  <2>2. i = n + j
    BY <2>1 DEF OnlyAwaited
  <2>3. QED
    BY <2>2, <1>3, <1>4
<1>8. NoReply(s) => NoReply(front) /\ NoReply(rest)
  BY <1>1, <1>2, <1>3, <1>4 DEF NoReply
<1>9. QED
  BY <1>1, <1>2, <1>5, <1>6, <1>7, <1>8 DEF front, rest

LEMMA EmptyLines == <<>> \in Seq(Line) /\ NoReply(<<>>) /\ OnlyAwaited(<<>>)
  BY DEF NoReply, OnlyAwaited

LEMMA OtherIsLine ==
  ASSUME NEW kind \in OtherKinds
  PROVE  Other(kind) \in Line /\ ~IsReply(Other(kind))
  BY DEF Other, Line, IsReply, OtherKinds, ReplyKinds

--------------------------------------------------------------------------------
(* Type correctness.                                                       *)

LEMMA TypeInit == Init => TypeOK
  BY EmptySeq DEF Init, TypeOK, Unanswered

LEMMA CloseType == Close /\ TypeOK =>
    /\ fd' \in {"closed", "open"}
    /\ rxbuf' \in Seq(Line) /\ wire' \in Seq(Line)
    /\ inbox' \in Seq(Requests \cup {Caps})
    /\ peer' \in {"down", "listening", "accepted", "greeted"}
    /\ mode' \in {"negotiation", "command"}
  BY EmptySeq DEF Close, TypeOK

LEMMA FailedCallType == EndCall("failed") /\ TypeOK =>
    /\ pc' \in {"idle", "greeting", "negotiating", "executing"}
    /\ cur' \in Requests \cup {None}
    /\ outcome' \in [Requests -> Requests \cup {Caps} \cup Unanswered]
  BY DEF EndCall, TypeOK, Unanswered

LEMMA ClientType == TypeOK /\ Client => TypeOK'
<1> SUFFICES ASSUME TypeOK, Client PROVE TypeOK'
  OBVIOUS
<1>1. CASE Connect
  BY <1>1, EmptySeq DEF Connect, TypeOK
<1>2. CASE ConnectRefused \/ Disconnect
  BY <1>2, CloseType DEF ConnectRefused, Disconnect, TypeOK
<1>3. CASE \E r \in Requests : Execute(r) \/ Refuse(r)
  <2>1. PICK r \in Requests : Execute(r) \/ Refuse(r)
    BY <1>3
  <2>2. CASE Execute(r)
    <3>1. inbox' \in Seq(Requests \cup {Caps})
      BY <2>2 DEF Execute, TypeOK
    <3>2. QED
      BY <2>2, <3>1 DEF Execute, TypeOK, Unanswered
  <2>3. CASE Refuse(r)
    BY <2>3 DEF Refuse, TypeOK, Unanswered
  <2>4. QED
    BY <2>1, <2>2, <2>3
<1>4. CASE \E r \in Requests : ExecuteUnwritten(r)
  BY <1>4, CloseType DEF ExecuteUnwritten, TypeOK, Unanswered
<1>5. CASE Receive
  <2>1. PICK n \in 1 .. Len(wire) : /\ rxbuf' = SubSeq(wire, 1, n)
                                   /\ wire' = SubSeq(wire, n + 1, Len(wire))
    BY <1>5 DEF Receive
  <2>2. wire \in Seq(Line) /\ Len(wire) \in Nat
    BY DEF TypeOK
  <2>3. rxbuf' \in Seq(Line) /\ wire' \in Seq(Line)
    BY <2>1, <2>2, SubSeqProperties
  <2>4. QED
    BY <1>5, <2>3 DEF Receive, TypeOK
<1>6. CASE ReadGreeting \/ SkipEvent \/ Negotiated
  <2>1. rxbuf \in Seq(Line) /\ rxbuf # <<>>
    BY <1>6 DEF ReadGreeting, SkipEvent, Negotiated, TypeOK
  <2>2. rxbuf' \in Seq(Line)
    BY <1>6, <2>1, TailLines DEF ReadGreeting, SkipEvent, Negotiated
  <2>3. inbox' \in Seq(Requests \cup {Caps})
    <3>1. inbox \in Seq(Requests \cup {Caps}) /\ Caps \in Requests \cup {Caps}
      BY DEF TypeOK
    <3>2. Append(inbox, Caps) \in Seq(Requests \cup {Caps})
      BY <3>1, AppendProperties
    <3>3. QED
      BY <1>6, <3>1, <3>2 DEF ReadGreeting, SkipEvent, Negotiated
  <2>4. QED
    BY <1>6, <2>2, <2>3 DEF ReadGreeting, SkipEvent, Negotiated, TypeOK
<1>7. CASE GreetingUnwritten \/ Desync \/ TimeOut \/ PeerClosed
  BY <1>7, CloseType, FailedCallType
     DEF GreetingUnwritten, Desync, TimeOut, PeerClosed, TypeOK
<1>8. CASE ReadReply
  <2>1. rxbuf \in Seq(Line) /\ rxbuf # <<>>
    BY <1>8 DEF ReadReply, TypeOK
  <2>2. Head(rxbuf) \in Line /\ Tail(rxbuf) \in Seq(Line)
    BY <2>1, TailLines
  <2>3. Head(rxbuf).of \in Requests \cup {Caps}
    BY <1>8, <2>2 DEF ReadReply, Line, IsReply, OtherKinds, ReplyKinds
  <2>4. outcome' \in [Requests -> Requests \cup {Caps} \cup Unanswered]
    BY <1>8, <2>3 DEF ReadReply, EndCall, TypeOK
  <2>5. QED
    BY <1>8, <2>2, <2>4 DEF ReadReply, EndCall, TypeOK
<1>9. QED
  BY <1>1, <1>2, <1>3, <1>4, <1>5, <1>6, <1>7, <1>8 DEF Client, ReadLine

LEMMA PeerType == TypeOK /\ Peer => TypeOK'
<1> SUFFICES ASSUME TypeOK, Peer PROVE TypeOK'
  OBVIOUS
<1>1. CASE Listen
  BY <1>1 DEF Listen, Monitor, TypeOK
<1>2. CASE Greet
  <2>1. wire' \in Seq(Line)
    BY <1>2, OtherIsLine, AppendProperties DEF Greet, TypeOK, OtherKinds
  <2>2. QED
    BY <1>2, <2>1 DEF Greet, Monitor, TypeOK
<1>3. CASE Serve
  <2>1. Head(inbox) \in Requests \cup {Caps} /\ Tail(inbox) \in Seq(Requests \cup {Caps})
    BY <1>3 DEF Serve, TypeOK
  <2>2. PICK kind \in ReplyKinds :
          wire' = Append(wire, [kind |-> kind, of |-> Head(inbox)])
    BY <1>3 DEF Serve
  <2>3. [kind |-> kind, of |-> Head(inbox)] \in Line
    BY <2>1 DEF Line
  <2>4. wire' \in Seq(Line)
    BY <2>2, <2>3, AppendProperties DEF TypeOK
  <2>5. QED
    BY <1>3, <2>1, <2>4 DEF Serve, Monitor, TypeOK
<1>4. CASE Chatter
  <2>1. wire' \in Seq(Line)
    BY <1>4, OtherIsLine, AppendProperties DEF Chatter, TypeOK, OtherKinds
  <2>2. QED
    BY <1>4, <2>1 DEF Chatter, Monitor, TypeOK
<1>5. CASE Exit
  BY <1>5, EmptySeq DEF Exit, Monitor, TypeOK
<1>6. QED
  BY <1>1, <1>2, <1>3, <1>4, <1>5 DEF Peer

LEMMA NextType == TypeOK /\ [Next]_vars => TypeOK'
<1>1. TypeOK /\ Expire => TypeOK'
  BY DEF Expire, TypeOK
<1>2. TypeOK /\ UNCHANGED vars => TypeOK'
  BY DEF vars, TypeOK
<1>3. QED
  BY <1>1, <1>2, ClientType, PeerType DEF Next

\* Every variable keeps its type: in particular the lines in the socket and in
\* the receive buffer stay well-formed QMP traffic (qmp.cpp, QmpClient).
THEOREM TypeCorrect == Spec => []TypeOK
  BY TypeInit, NextType, PTL DEF Spec

--------------------------------------------------------------------------------
(* The inductive invariant.                                                *)

LEMMA InvInit == Init => IInv
<1> SUFFICES ASSUME Init PROVE IInv
  OBVIOUS
<1>1. TypeOK
  BY TypeInit
<1>2. NoReply(wire) /\ NoReply(rxbuf) /\ OnlyAwaited(wire) /\ OnlyAwaited(rxbuf)
  BY EmptyLines DEF Init
<1>3. OwnReply /\ InStep /\ Shape
  BY <1>2, RequestsAreCommands DEF Init, OwnReply, InStep, Shape, Unanswered
<1>4. QED
  BY <1>1, <1>3 DEF IInv

\* Closing the session, and failing the call in progress, restores IInv.
LEMMA CloseInv ==
  ASSUME IInv, Close, TypeOK', pc' = "idle", cur' = None,
         \A r \in Requests : outcome'[r] = "waiting" <=> cur' = r,
         OwnReply'
  PROVE  IInv'
<1>1. wire' = <<>> /\ rxbuf' = <<>> /\ inbox' = <<>> /\ fd' = "closed"
      /\ peer' \in {"down", "listening"}
  BY DEF Close
<1>2. NoReply(wire)' /\ NoReply(rxbuf)' /\ OnlyAwaited(wire)' /\ OnlyAwaited(rxbuf)'
  BY <1>1 DEF NoReply, OnlyAwaited
<1>3. InStep' /\ Shape'
  BY <1>1, <1>2 DEF InStep, Shape
<1>4. QED
  BY <1>3 DEF IInv

\* A call that ends in failure blames only the request it carried.
LEMMA FailedCall ==
  ASSUME IInv, EndCall("failed")
  PROVE  /\ pc' = "idle" /\ cur' = None
         /\ OwnReply'
         /\ \A r \in Requests : outcome'[r] = "waiting" <=> cur' = r
<1>1. \A r \in Requests : outcome'[r] = IF r = cur THEN "failed" ELSE outcome[r]
  BY RequestsAreCommands DEF EndCall, IInv, TypeOK
<1>2. \A r \in Requests : outcome[r] = "waiting" <=> cur = r
  BY DEF IInv, Shape
<1>3. OwnReply'
  BY <1>1, RequestsAreCommands DEF IInv, OwnReply, Unanswered
<1>4. pc' = "idle" /\ cur' = None
  BY DEF EndCall
<1>5. QED
  BY <1>1, <1>2, <1>3, <1>4, RequestsAreCommands

LEMMA InvFailures ==
  ASSUME IInv, GreetingUnwritten \/ Desync \/ TimeOut \/ PeerClosed, TypeOK'
  PROVE  IInv'
<1>1. Close /\ EndCall("failed")
  BY DEF GreetingUnwritten, Desync, TimeOut, PeerClosed
<1>2. QED
  BY <1>1, FailedCall, CloseInv

LEMMA InvSession ==
  ASSUME IInv, TypeOK', Connect \/ ConnectRefused \/ Disconnect
  PROVE  IInv'
<1>1. CASE Connect
  <2>1. NoReply(wire)' /\ NoReply(rxbuf)' /\ OnlyAwaited(wire)' /\ OnlyAwaited(rxbuf)'
    BY <1>1 DEF Connect, NoReply, OnlyAwaited
  <2>2. cur' = cur /\ pc' = "greeting" /\ cur = None
    BY <1>1 DEF Connect, IInv, Shape
  <2>3. QED
    BY <1>1, <2>1, <2>2 DEF Connect, IInv, InStep, Shape, OwnReply
<1>2. CASE ConnectRefused \/ Disconnect
  <2>1. Close /\ pc' = "idle" /\ cur' = None /\ cur = None /\ outcome' = outcome
    BY <1>2 DEF ConnectRefused, Disconnect, IInv, Shape
  <2>2. OwnReply' /\ \A r \in Requests : outcome'[r] = "waiting" <=> cur' = r
    BY <2>1 DEF IInv, OwnReply, Shape
  <2>3. QED
    BY <2>1, <2>2, CloseInv
<1>3. QED
  BY <1>1, <1>2

\* What every operation that starts a command finds and does to the outcomes.
LEMMA InvExecute ==
  ASSUME IInv, TypeOK', NEW r \in Requests,
         Execute(r) \/ ExecuteUnwritten(r) \/ Refuse(r)
  PROVE  IInv'
<1>1. pc = "idle" /\ cur = None /\ outcome[r] = "unsent"
  BY DEF Execute, ExecuteUnwritten, Refuse, IInv, Shape
<1>2. CASE Execute(r)
  <2>1. inbox = <<>> /\ NoReply(wire) /\ NoReply(rxbuf) /\ mode = "command"
    BY <1>2 DEF Execute, IInv, InStep, Shape
  <2>2. inbox' = <<r>> /\ wire' = wire /\ rxbuf' = rxbuf /\ pc' = "executing" /\ cur' = r
    BY <1>2, <2>1 DEF Execute
  <2>3. Awaited' = r
    BY <2>2 DEF Awaited
  <2>4. NoReply(wire)' /\ NoReply(rxbuf)' /\ OnlyAwaited(wire)' /\ OnlyAwaited(rxbuf)'
    BY <2>1, <2>2 DEF NoReply, OnlyAwaited
  <2>5. InStep'
    BY <2>2, <2>3, <2>4 DEF InStep
  <2>6. \A q \in Requests : outcome'[q] = IF q = r THEN "waiting" ELSE outcome[q]
    BY <1>2 DEF Execute, IInv, TypeOK
  <2>7. OwnReply'
    BY <2>6 DEF IInv, OwnReply, Unanswered
  <2>8. Shape'
    BY <1>1, <1>2, <2>1, <2>4, <2>6, RequestsAreCommands DEF Execute, IInv, Shape
  <2>9. QED
    BY <2>5, <2>7, <2>8 DEF IInv
<1>3. CASE ExecuteUnwritten(r) \/ Refuse(r)
  <2>1. \A q \in Requests : outcome'[q] = IF q = r THEN "failed" ELSE outcome[q]
    BY <1>3 DEF ExecuteUnwritten, Refuse, IInv, TypeOK
  <2>2. pc' = "idle" /\ cur' = None
    BY <1>1, <1>3 DEF ExecuteUnwritten, Refuse
  <2>3. OwnReply' /\ \A q \in Requests : outcome'[q] = "waiting" <=> cur' = q
    BY <1>1, <2>1, <2>2, RequestsAreCommands DEF IInv, OwnReply, Unanswered, Shape
  <2>4. CASE ExecuteUnwritten(r)
    BY <2>2, <2>3, <2>4, CloseInv DEF ExecuteUnwritten
  <2>5. CASE Refuse(r)
    <3>1. UNCHANGED <<pc, fd, rxbuf, cur, clock, wire, inbox, peer, mode>>
      BY <2>5 DEF Refuse
    <3>2. InStep'
      BY <3>1 DEF IInv, InStep, NoReply, OnlyAwaited, Awaited
    <3>3. Shape'
      BY <2>3, <3>1 DEF IInv, Shape, NoReply
    <3>4. QED
      BY <2>3, <3>2, <3>3 DEF IInv
  <2>6. QED
    BY <1>3, <2>4, <2>5
<1>4. QED
  BY <1>2, <1>3

LEMMA InvReceive ==
  ASSUME IInv, TypeOK', Receive
  PROVE  IInv'
<1>1. PICK n \in 1 .. Len(wire) : /\ rxbuf' = SubSeq(wire, 1, n)
                                 /\ wire' = SubSeq(wire, n + 1, Len(wire))
  BY DEF Receive
<1>2. wire \in Seq(Line) /\ OnlyAwaited(wire)
  BY DEF IInv, InStep, TypeOK
<1>3. /\ OnlyAwaited(rxbuf') /\ OnlyAwaited(wire')
      /\ NoReply(rxbuf') \/ NoReply(wire')
      /\ NoReply(wire) => NoReply(rxbuf') /\ NoReply(wire')
  BY <1>1, <1>2, SplitLines
<1>4. UNCHANGED <<pc, fd, cur, outcome, inbox, peer, mode>> /\ rxbuf = <<>> /\ Len(wire) \in Nat
  BY <1>2 DEF Receive
<1>5. Awaited' = Awaited
  BY <1>4 DEF Awaited
<1>6. OnlyAwaited(rxbuf)' /\ OnlyAwaited(wire)'
  BY <1>3, <1>5 DEF OnlyAwaited
<1>7. InStep'
  BY <1>3, <1>4, <1>5, <1>6 DEF IInv, InStep
<1>8. wire # <<>>
  BY <1>1, <1>2
<1>9. Shape'
  BY <1>3, <1>4, <1>8 DEF IInv, Shape
<1>10. QED
  BY <1>4, <1>7, <1>9 DEF IInv, OwnReply

\* Consuming the first buffered line, in any of the three ways to accept it.
LEMMA InvReadLine ==
  ASSUME IInv, TypeOK', ReadGreeting \/ SkipEvent \/ Negotiated \/ ReadReply
  PROVE  IInv'
<1>1. /\ rxbuf \in Seq(Line) /\ rxbuf # <<>> /\ rxbuf' = Tail(rxbuf)
      /\ wire' = wire /\ fd' = fd /\ peer' = peer /\ mode' = mode
  BY DEF ReadGreeting, SkipEvent, Negotiated, ReadReply, IInv, TypeOK
<1>2. /\ Head(rxbuf) \in Line
      /\ NoReply(rxbuf) => NoReply(rxbuf') /\ ~IsReply(Head(rxbuf))
      /\ OnlyAwaited(rxbuf) => OnlyAwaited(rxbuf')
      /\ OnlyAwaited(rxbuf) /\ IsReply(Head(rxbuf)) =>
           NoReply(rxbuf') /\ Head(rxbuf).of = Awaited
  BY <1>1, TailLines
<1>3. OnlyAwaited(rxbuf) /\ OnlyAwaited(wire)
  BY DEF IInv, InStep
<1>4. fd = "open"
  BY <1>1 DEF IInv, Shape, TypeOK
<1>5. CASE ReadGreeting
  <2>1. inbox = <<>> /\ NoReply(wire) /\ NoReply(rxbuf) /\ cur' = cur /\ cur = None
    BY <1>5 DEF ReadGreeting, IInv, InStep, Shape
  <2>2. inbox' = <<Caps>> /\ pc' = "negotiating" /\ outcome' = outcome
    BY <1>5, <2>1 DEF ReadGreeting
  <2>3. Awaited' = Caps
    BY <2>2 DEF Awaited
  <2>4. NoReply(rxbuf') /\ NoReply(wire')
    BY <1>1, <1>2, <2>1
  <2>5. OnlyAwaited(rxbuf)' /\ OnlyAwaited(wire)'
    BY <2>4 DEF NoReply, OnlyAwaited
  <2>6. InStep'
    BY <2>2, <2>3, <2>4, <2>5 DEF InStep
  <2>7. Shape'
    BY <1>1, <1>4, <2>1, <2>2, <2>4 DEF IInv, Shape
  <2>8. QED
    BY <2>2, <2>6, <2>7 DEF IInv, OwnReply
<1>6. CASE SkipEvent
  <2>1. UNCHANGED <<pc, cur, outcome, inbox>> /\ pc \in {"negotiating", "executing"}
    BY <1>6 DEF SkipEvent
  <2>2. Awaited' = Awaited
    BY <2>1 DEF Awaited
  <2>3. OnlyAwaited(rxbuf)' /\ OnlyAwaited(wire)'
    BY <1>1, <1>2, <1>3, <2>2 DEF OnlyAwaited
  <2>4. InStep'
    BY <1>1, <1>2, <2>1, <2>2, <2>3 DEF IInv, InStep
  <2>5. Shape'
    BY <1>1, <1>2, <1>4, <2>1 DEF IInv, Shape
  <2>6. QED
    BY <2>1, <2>4, <2>5 DEF IInv, OwnReply
<1>7. CASE Negotiated \/ ReadReply
  <2>1. IsReply(Head(rxbuf)) /\ pc' = "idle" /\ inbox' = inbox
    BY <1>7 DEF Negotiated, ReadReply, EndCall, IsReply, ReplyKinds
  <2>2. NoReply(rxbuf') /\ Head(rxbuf).of = Awaited /\ ~NoReply(rxbuf)
    BY <1>2, <1>3, <2>1
  <2>3. NoReply(wire') /\ inbox' = <<>> /\ mode = "command"
    BY <1>1, <2>1, <2>2 DEF IInv, InStep, Shape
  <2>4. OnlyAwaited(rxbuf)' /\ OnlyAwaited(wire)'
    BY <2>2, <2>3 DEF NoReply, OnlyAwaited
  <2>5. InStep'
    BY <2>1, <2>2, <2>3, <2>4 DEF InStep
  <2>6. /\ cur' = None /\ OwnReply'
        /\ \A r \in Requests : outcome'[r] = "waiting" <=> cur' = r
    <3>1. CASE Negotiated
      BY <3>1 DEF Negotiated, IInv, Shape, OwnReply
    <3>2. CASE ReadReply
      <4>1. cur \in Requests /\ Head(rxbuf).of = cur
        BY <3>2, <2>2 DEF ReadReply, Awaited, IInv, Shape, TypeOK
      <4>2. \A r \in Requests : outcome'[r] = IF r = cur THEN cur ELSE outcome[r]
        BY <3>2, <4>1, RequestsAreCommands DEF ReadReply, EndCall, IInv, TypeOK
      <4>3. cur' = None
        BY <3>2 DEF ReadReply, EndCall
      <4>4. QED
        BY <4>1, <4>2, <4>3, RequestsAreCommands DEF IInv, OwnReply, Shape, Unanswered
    <3>3. QED
      BY <1>7, <3>1, <3>2
  <2>7. Shape'
    BY <1>1, <1>4, <2>1, <2>2, <2>3, <2>6 DEF IInv, Shape
  <2>8. QED
    BY <2>5, <2>6, <2>7 DEF IInv
<1>8. QED
  BY <1>5, <1>6, <1>7

\* What the monitor does: only its answer to the awaited command is a reply.
LEMMA InvPeer ==
  ASSUME IInv, TypeOK', Peer
  PROVE  IInv'
<1>1. UNCHANGED <<pc, fd, rxbuf, cur, outcome>> /\ Awaited' = Awaited
  BY DEF Peer, Listen, Greet, Serve, Chatter, Exit, Monitor, Awaited
<1>2. wire \in Seq(Line) /\ OnlyAwaited(wire) /\ OnlyAwaited(rxbuf)
  BY DEF IInv, InStep, TypeOK
<1>3. OwnReply'
  BY <1>1 DEF IInv, OwnReply
<1>4. OnlyAwaited(rxbuf)'
  BY <1>1, <1>2 DEF OnlyAwaited
<1>5. CASE Listen
  <2>1. OnlyAwaited(wire)' /\ wire' = wire
    BY <1>1, <1>2, <1>5 DEF Listen, OnlyAwaited
  <2>2. QED
    BY <1>1, <1>3, <1>4, <1>5, <2>1 DEF Listen, IInv, InStep, Shape
<1>6. CASE Greet \/ Chatter
  <2>1. PICK kind \in OtherKinds : wire' = Append(wire, Other(kind))
    BY <1>6 DEF Greet, Chatter, OtherKinds
  <2>2. (NoReply(wire') <=> NoReply(wire)) /\ OnlyAwaited(wire')
    BY <1>2, <2>1, OtherIsLine, AppendOther
  <2>3. OnlyAwaited(wire)'
    BY <1>1, <2>2 DEF OnlyAwaited
  <2>4. inbox' = inbox /\ mode' = mode /\ peer \in {"accepted", "greeted"} /\ peer' = "greeted"
    BY <1>6 DEF Greet, Chatter
  <2>5. fd = "open"
    BY <2>4 DEF IInv, Shape, TypeOK
  <2>6. QED
    BY <1>1, <1>3, <1>4, <2>2, <2>3, <2>4, <2>5 DEF IInv, InStep, Shape
<1>7. CASE Serve
  <2>1. PICK kind \in ReplyKinds :
          wire' = Append(wire, [kind |-> kind, of |-> Head(inbox)])
    BY <1>7 DEF Serve
  <2>2. inbox = <<Awaited>> /\ NoReply(wire) /\ NoReply(rxbuf)
        /\ pc \notin {"idle", "greeting"}
    BY <1>7 DEF Serve, IInv, InStep
  <2>3. Head(inbox) = Awaited /\ inbox' = <<>>
    BY <1>7, <2>2 DEF Serve
  <2>4. [kind |-> kind, of |-> Awaited] \in Line
    BY <2>2 DEF Line, IInv, TypeOK, Shape, Awaited
  <2>5. OnlyAwaited(wire') 
    BY <1>2, <2>1, <2>2, <2>3, <2>4, AppendAwaited
  <2>6. OnlyAwaited(wire)'
    BY <1>1, <2>5 DEF OnlyAwaited
  <2>7. InStep'
    BY <1>1, <1>4, <2>2, <2>3, <2>6 DEF InStep
  <2>8. fd = "open" /\ peer' = peer
    BY <1>7 DEF Serve, Monitor, IInv, Shape, TypeOK
  <2>9. mode' = "command"
    BY <1>7, <2>2, <2>3, <2>8 DEF Serve, Awaited, IInv, Shape, TypeOK
  <2>10. QED
    BY <1>1, <1>3, <2>2, <2>7, <2>8, <2>9 DEF IInv, Shape
<1>8. CASE Exit
  <2>1. OnlyAwaited(wire)' /\ wire' = wire /\ inbox' = <<>> /\ mode' = mode
    BY <1>1, <1>2, <1>8 DEF Exit, OnlyAwaited
  <2>2. QED
    BY <1>1, <1>3, <1>4, <1>8, <2>1 DEF Exit, IInv, InStep, Shape
<1>9. QED
  BY <1>5, <1>6, <1>7, <1>8 DEF Peer

LEMMA InvNext == IInv /\ [Next]_vars => IInv'
<1> SUFFICES ASSUME IInv, [Next]_vars PROVE IInv'
  OBVIOUS
<1>1. TypeOK'
  BY NextType DEF IInv
<1>2. CASE Client
  BY <1>1, <1>2, InvSession, InvExecute, InvReceive, InvReadLine, InvFailures
     DEF Client, ReadLine
<1>3. CASE Peer
  BY <1>1, <1>3, InvPeer
<1>4. CASE Expire \/ UNCHANGED vars
  <2>1. UNCHANGED <<pc, fd, rxbuf, cur, outcome, wire, inbox, peer, mode>>
    BY <1>4 DEF Expire, vars
  <2>2. InStep'
    BY <2>1 DEF IInv, InStep, NoReply, OnlyAwaited, Awaited
  <2>3. OwnReply' /\ Shape'
    BY <2>1 DEF IInv, OwnReply, Shape, NoReply
  <2>4. QED
    BY <1>1, <2>2, <2>3 DEF IInv
<1>5. QED
  BY <1>2, <1>3, <1>4 DEF Next

THEOREM Invariant == Spec => []IInv
  BY InvInit, InvNext, PTL DEF Spec

\* No execute() is ever answered with another command's reply (qmp.cpp,
\* ReplyStatus): for every number of commands, of reconnections and of events.
THEOREM RepliesMatch == Spec => []OwnReply
<1>1. IInv => OwnReply
  BY DEF IInv
<1>2. QED
  BY <1>1, Invariant, PTL

\* A session kept after a call has no reply under way in either direction.
THEOREM KeptSessions == Spec => []KeptSessionInSync
<1>1. IInv => KeptSessionInSync
  BY DEF IInv, InStep, KeptSessionInSync, NoReply
<1>2. QED
  BY <1>1, Invariant, PTL

\* qmp_capabilities precedes every command of every session.
THEOREM Negotiation == Spec => []NegotiatedFirst
<1>1. IInv => NegotiatedFirst
  <2> SUFFICES ASSUME IInv, NEW i \in 1 .. Len(inbox), inbox[i] \in Requests
               PROVE  mode = "command"
    BY DEF NegotiatedFirst
  <2>1. inbox = <<Awaited>> /\ pc \notin {"idle", "greeting"}
    BY DEF IInv, InStep, TypeOK
  <2>2. inbox[i] = Awaited
    BY <2>1
  <2>3. pc = "executing"
    BY <2>1, <2>2, RequestsAreCommands DEF Awaited, IInv, TypeOK
  <2>4. QED
    BY <2>1, <2>3 DEF IInv, Shape, TypeOK
<1>2. QED
  BY <1>1, Invariant, PTL

--------------------------------------------------------------------------------
(* QmpLink implements RequestReply: a call that sends a command is Send,   *)
(* the consumption of its reply is Answer, every failure is Fail.          *)

LEMMA OneWaits == IInv => \A q \in Requests : outcome[q] = "waiting" => cur = q
  BY DEF IInv, Shape

LEMMA FailImplemented ==
  ASSUME IInv, EndCall("failed")
  PROVE  [Abstract!Next]_outcome
<1>1. CASE cur = None
  BY <1>1 DEF EndCall
<1>2. CASE cur # None
  <2>1. cur \in Requests /\ outcome[cur] = "waiting"
    BY <1>2 DEF IInv, TypeOK, Shape
  <2>2. Abstract!Fail(cur)
    BY <1>2, <2>1, OneWaits DEF EndCall, Abstract!Fail
  <2>3. QED
    BY <2>1, <2>2 DEF Abstract!Next
<1>3. QED
  BY <1>1, <1>2

LEMMA StepImplemented == IInv /\ [Next]_vars => [Abstract!Next]_outcome
<1> SUFFICES ASSUME IInv, [Next]_vars PROVE [Abstract!Next]_outcome
  OBVIOUS
<1>1. CASE UNCHANGED outcome
  BY <1>1
<1>2. ASSUME NEW r \in Requests, Execute(r) \/ ExecuteUnwritten(r) \/ Refuse(r)
      PROVE  [Abstract!Next]_outcome
  <2>1. pc = "idle" /\ outcome[r] = "unsent"
    BY <1>2 DEF Execute, ExecuteUnwritten, Refuse
  <2>2. \A q \in Requests : outcome[q] # "waiting"
    BY <2>1, OneWaits, RequestsAreCommands DEF IInv, Shape
  <2>3. Abstract!Send(r) \/ Abstract!Fail(r)
    BY <1>2, <2>1, <2>2
       DEF Execute, ExecuteUnwritten, Refuse, Abstract!Send, Abstract!Fail
  <2>4. QED
    BY <2>3 DEF Abstract!Next
<1>3. CASE ReadReply
  <2>1. cur \in Requests /\ outcome[cur] = "waiting"
    BY <1>3 DEF ReadReply, IInv, TypeOK, Shape
  <2>2. rxbuf \in Seq(Line) /\ rxbuf # <<>> /\ IsReply(Head(rxbuf)) /\ OnlyAwaited(rxbuf)
    BY <1>3 DEF ReadReply, IInv, TypeOK, InStep
  <2>3. Head(rxbuf).of = cur
    BY <1>3, <2>2, TailLines DEF ReadReply, Awaited
  <2>4. Abstract!Answer(cur)
    BY <1>3, <2>1, <2>3, RequestsAreCommands DEF ReadReply, EndCall, Abstract!Answer
  <2>5. QED
    BY <2>1, <2>4 DEF Abstract!Next
<1>4. CASE GreetingUnwritten \/ Desync \/ TimeOut \/ PeerClosed
  BY <1>4, FailImplemented DEF GreetingUnwritten, Desync, TimeOut, PeerClosed
<1>5. Connect \/ ConnectRefused \/ Disconnect \/ Receive \/ ReadGreeting
        \/ SkipEvent \/ Negotiated \/ Expire \/ Peer => UNCHANGED outcome
  BY DEF Connect, ConnectRefused, Disconnect, Receive, ReadGreeting, SkipEvent,
         Negotiated, Expire, Peer, Listen, Greet, Serve, Chatter, Exit, Monitor
<1>6. QED
  BY <1>1, <1>2, <1>3, <1>4, <1>5 DEF Next, Client, ReadLine, vars

\* What the callers of QmpClient rely on: the link behaves as RequestReply.
THEOREM Refinement == Spec => ImplementsRequestReply
<1>1. Init => Abstract!Init
  BY DEF Init, Abstract!Init
<1>2. IInv /\ [Next]_vars => [Abstract!Next]_outcome
  BY StepImplemented
<1>3. QED
  BY <1>1, <1>2, Invariant, PTL DEF Spec, ImplementsRequestReply, Abstract!Spec

================================================================================
