--------------------------- MODULE BleBridge_proofs ---------------------------
(***************************************************************************)
(* IInv is an invariant of BleBridge: whole lines in order for the device, *)
(* unbroken runs and leftovers first for the clients, for any number of    *)
(* clients, pieces and lines and any sizes of inbuf and of the socket.     *)
(***************************************************************************)
EXTENDS BleBridge, SequenceTheorems, FiniteSetTheorems, TLAPS

Phases == {"top", "device", "receive", "deliver", "stream", "ended", "killed"}

LEMMA Sizes ==
  ASSUME TypeOK
  PROVE  /\ MaxClients \in Nat /\ MaxPieces \in Nat /\ MaxSent \in Nat
         /\ InbufCap \in Nat /\ SocketCap \in Nat
         /\ Clients \subseteq Nat /\ NoClient \notin Clients /\ NoClient \in Nat
         /\ connected \in Nat /\ connected <= MaxClients
         /\ accepted \in Nat /\ accepted <= connected
         /\ Len(sent) \in Nat /\ Len(sent) <= MaxSent
         /\ drained \in Nat /\ drained <= Len(sent)
         /\ streaming \in Nat /\ streaming <= drained
         /\ Len(inbuf) \in Nat /\ Len(delivered) \in Nat /\ Len(streamed) \in Nat
         /\ unread \in Nat /\ unread <= SocketCap
<1>1. /\ MaxClients \in Nat /\ MaxPieces \in Nat /\ MaxSent \in Nat
      /\ InbufCap \in Nat /\ SocketCap \in Nat
  BY BridgeConstants
<1>2. Clients \subseteq Nat /\ NoClient \notin Clients /\ NoClient \in Nat
  BY <1>1 DEF Clients, NoClient
<1>3. /\ Len(sent) \in Nat /\ Len(inbuf) \in Nat /\ Len(delivered) \in Nat
      /\ Len(streamed) \in Nat
  BY LenProperties DEF TypeOK
<1>4. /\ connected \in 0 .. MaxClients /\ accepted \in 0 .. connected
      /\ drained \in 0 .. Len(sent) /\ streaming \in 0 .. drained /\ Len(sent) <= MaxSent
      /\ unread \in 0 .. SocketCap
  BY DEF TypeOK
<1> QED
  BY <1>1, <1>2, <1>3, <1>4

LEMMA GotSome ==
  ASSUME TypeOK, NEW c
  PROVE  Got(c) \in Nat
<1>1. IsFiniteSet(1 .. Len(delivered))
  BY FS_Interval, Sizes
<1>2. {j \in 1 .. Len(delivered) : From(j) = c} \in SUBSET (1 .. Len(delivered))
  OBVIOUS
<1>3. IsFiniteSet({j \in 1 .. Len(delivered) : From(j) = c})
  BY <1>1, <1>2, FS_Subset
<1> QED
  BY <1>3, FS_CardinalityType DEF Got

--------------------------------------------------------------------------------
(* What a step that does not disturb a part of IInv keeps of it.           *)

LEMMA InStepStays ==
  ASSUME InStep, link' = "connected" => link = "connected",
         UNCHANGED <<accepted, wire, wrote, delivered, clientFd, inbuf>>
  PROVE  InStep'
<1>1. Got(clientFd)' = Got(clientFd)
  BY DEF Got, From
<1> QED
  BY <1>1 DEF InStep, Numbered

LEMMA SessionsStay ==
  ASSUME Sessions, accepted' = accepted,
         UNCHANGED <<clientFd, delivered, sent, streamed, streaming>>
  PROVE  Sessions'
BY DEF Sessions, UpTo, From

LEMMA LeftoversStay ==
  ASSUME Leftovers,
         phase' \in {"top", "device"} /\ clientFd # NoClient =>
           phase \in {"top", "device"} \/ \A m \in 1 .. Len(sent) : ~(drained < m),
         UNCHANGED <<sent, drained, streaming, clientFd>>
  PROVE  Leftovers'
BY DEF Leftovers

LEMMA StreamsStay ==
  ASSUME DeviceGetsPrefixes, StreamedInOrder, UNCHANGED <<delivered, sent, streamed>>
  PROVE  DeviceGetsPrefixes' /\ StreamedInOrder'
<1>1. DeviceGetsPrefixes'
  BY DEF DeviceGetsPrefixes, From
<1>2. StreamedInOrder'
  BY DEF StreamedInOrder, UnbrokenRuns, LeftoversFirst
<1> QED
  BY <1>1, <1>2

\* Frame, NoneWaits, Received, TickEnds and a kill: the loop goes on.
LEMMA LoopGoesOn ==
  ASSUME IInv, UNCHANGED <<interrupted, bus, bridge, peers>>,
         phase' \in Phases,
         phase' \in {"receive", "deliver", "stream"} => clientFd # NoClient,
         phase' = "stream" => drained = Len(sent),
         phase' \in {"top", "device"} /\ clientFd # NoClient =>
           phase \in {"top", "device"} \/ drained = Len(sent)
  PROVE  IInv'
<1>1. UNCHANGED <<interrupted, link, delivered, sent, drained, clientFd, inbuf, streaming,
                  unread, streamed, accepted, connected, closed, wrote, wire>>
  BY DEF bus, bridge, session, peers
<1>2. TypeOK'
  BY <1>1 DEF IInv, TypeOK, Phases
<1>3. OneCentral'
  BY <1>1 DEF IInv, OneCentral
<1>4. InStep'
  BY <1>1, InStepStays DEF IInv
<1>5. Sessions'
  BY <1>1, SessionsStay DEF IInv
<1>6. Leftovers'
  <2>1. drained = Len(sent) => \A m \in 1 .. Len(sent) : ~(drained < m)
    BY Sizes DEF IInv
  <2> QED
    BY <1>1, <2>1, LeftoversStay DEF IInv
<1>7. DeviceGetsPrefixes' /\ StreamedInOrder'
  BY <1>1, StreamsStay DEF IInv
<1> QED
  BY <1>2, <1>3, <1>4, <1>5, <1>6, <1>7 DEF IInv

\* ClientConnects, ClientReads, ClientCloses and Interrupt: nothing is under way.
LEMMA NothingMoves ==
  ASSUME IInv,
         UNCHANGED <<phase, link, delivered, sent, drained, clientFd, inbuf, streaming,
                     streamed, accepted, wrote, wire>>,
         interrupted' \in BOOLEAN, unread' \in 0 .. SocketCap,
         connected' \in 0 .. MaxClients, connected <= connected',
         closed' \subseteq 1 .. connected'
  PROVE  IInv'
<1>1. TypeOK'
  <2>1. accepted \in 0 .. connected'
    BY Sizes DEF IInv
  <2> QED
    BY <2>1 DEF IInv, TypeOK
<1>2. OneCentral'
  BY DEF IInv, OneCentral
<1>3. InStep'
  BY InStepStays DEF IInv
<1>4. Sessions'
  BY SessionsStay DEF IInv
<1>5. Leftovers'
  BY LeftoversStay DEF IInv
<1>6. DeviceGetsPrefixes' /\ StreamedInOrder'
  BY StreamsStay DEF IInv
<1> QED
  BY <1>1, <1>2, <1>3, <1>4, <1>5, <1>6 DEF IInv

--------------------------------------------------------------------------------
(* The client is dropped: ServeEnds, ClientGone, a runaway, a failed send. *)

LEMMA Dropping ==
  ASSUME IInv, DropClient, clientFd # NoClient, phase' \in {"top", "ended"},
         wire' = wire \/ wire' = [wire EXCEPT ![clientFd] = <<>>],
         UNCHANGED <<interrupted, delivered, sent, drained, streamed, accepted,
                     connected, closed, wrote>>
  PROVE  IInv'
<1>1. /\ clientFd' = NoClient /\ inbuf' = <<>> /\ link' = "advertising"
      /\ streaming' = drained /\ unread' = 0
  BY DEF DropClient
<1>2. /\ clientFd \in Clients /\ clientFd \in Nat /\ clientFd <= accepted
      /\ accepted \in Nat /\ drained \in Nat /\ streaming \in Nat /\ streaming <= drained
  BY Sizes DEF IInv, TypeOK, OneCentral
<1>3. TypeOK'
  <2>1. <<>> \in Seq(Piece)
    BY EmptySeq
  <2>2. wire' \in [Clients -> Seq(Piece)]
    BY <2>1 DEF IInv, TypeOK
  <2>3. streaming' \in 0 .. drained /\ unread' \in 0 .. SocketCap
    BY <1>1, Sizes DEF IInv
  <2>4. TypeOK
    BY DEF IInv
  <2> QED
    BY <1>1, <2>1, <2>2, <2>3, <2>4 DEF TypeOK
<1>4. OneCentral'
  <2>1. NoClient <= accepted
    BY <1>2 DEF NoClient
  <2> QED
    BY <1>1, <2>1 DEF OneCentral
<1>5. InStep'
  <2>1. \A c \in Clients : c > accepted => wire'[c] = wire[c]
    BY <1>2, Sizes DEF IInv, TypeOK
  <2> QED
    BY <1>1, <2>1 DEF IInv, InStep, Numbered
<1>6. Sessions'
  <2>1. \A c : UpTo(c) => UpTo(c)'
    BY <1>1 DEF UpTo
  <2>2. \A i \in 1 .. Len(streamed) :
          /\ UpTo(streamed[i].to) /\ streamed[i].line <= drained
          /\ streamed[i].to # NoClient
    <3> SUFFICES ASSUME NEW i \in 1 .. Len(streamed)
                 PROVE  /\ UpTo(streamed[i].to) /\ streamed[i].line <= drained
                        /\ streamed[i].to # NoClient
      OBVIOUS
    <3>1. streamed[i] \in [line : 1 .. MaxSent, to : Clients]
      BY ElementOfSeq DEF IInv, TypeOK
    <3>2. UpTo(streamed[i].to) /\ streamed[i].line <= streaming
      BY DEF IInv, Sessions
    <3>3. streamed[i].line \in Nat /\ streamed[i].to \in Clients /\ NoClient \notin Clients
      <4>1. streamed[i].line \in 1 .. MaxSent /\ streamed[i].to \in Clients
        BY <3>1
      <4>2. TypeOK
        BY DEF IInv
      <4>3. NoClient \notin Clients /\ MaxSent \in Nat
        BY <4>2, Sizes
      <4>4. QED
        BY <4>1, <4>3
    <3> QED
      BY <1>2, <3>2, <3>3
  <2> QED
    BY <1>1, <2>1, <2>2 DEF IInv, Sessions, UpTo, From
<1>7. Leftovers'
  <2>1. \A n \in 1 .. Len(sent) : sent[n] \in Nat
    BY ElementOfSeq, Sizes DEF IInv, TypeOK
  <2>2. \A m, n \in 1 .. Len(sent) :
          drained < m => sent[n] <= sent[m] /\ ~(sent[m] < sent[n])
    BY <2>1 DEF IInv, Leftovers
  <2> QED
    BY <1>1, <2>2 DEF Leftovers
<1>8. DeviceGetsPrefixes' /\ StreamedInOrder'
  BY StreamsStay DEF IInv
<1> QED
  BY <1>3, <1>4, <1>5, <1>6, <1>7, <1>8 DEF IInv

--------------------------------------------------------------------------------
(* The client is sent the next line.                                       *)

LEMMA Streaming ==
  ASSUME IInv, phase = "stream", streaming < drained,
         streaming' = streaming + 1,
         streamed' = Append(streamed, [line |-> streaming', to |-> clientFd]),
         unread' \in 0 .. SocketCap,
         UNCHANGED <<phase, interrupted, bus, clientFd, inbuf, accepted, peers>>
  PROVE  IInv'
<1> DEFINE e == [line |-> streaming + 1, to |-> clientFd]
<1>1. UNCHANGED <<phase, interrupted, link, delivered, sent, drained, clientFd, inbuf,
                  accepted, connected, closed, wrote, wire>>
  BY DEF bus, peers
<1>2. /\ clientFd \in Clients /\ clientFd \in Nat /\ clientFd # NoClient
      /\ clientFd <= accepted /\ drained = Len(sent)
      /\ drained \in Nat /\ streaming \in Nat /\ streaming < drained /\ drained <= MaxSent
      /\ Clients \subseteq Nat /\ MaxSent \in Nat /\ Len(streamed) \in Nat
  BY Sizes DEF IInv, TypeOK, OneCentral
<1>3. e \in [line : 1 .. MaxSent, to : Clients]
  BY <1>2
<1>4. /\ streamed \in Seq([line : 1 .. MaxSent, to : Clients])
      /\ streamed' = Append(streamed, e)
  BY DEF IInv, TypeOK
<1>5. /\ streamed' \in Seq([line : 1 .. MaxSent, to : Clients])
      /\ Len(streamed') = Len(streamed) + 1
      /\ \A i \in 1 .. Len(streamed) : streamed'[i] = streamed[i]
      /\ streamed'[Len(streamed) + 1] = e
  BY <1>3, <1>4, AppendProperties
<1>6. e.line = streaming + 1 /\ e.to = clientFd
  OBVIOUS
<1> HIDE DEF e
<1>7. \A i \in 1 .. Len(streamed) :
        /\ streamed[i].line \in Nat /\ streamed[i].line <= streaming
        /\ streamed[i].to \in Nat /\ streamed[i].to <= clientFd /\ streamed[i].to <= accepted
        /\ i = Len(streamed) /\ streamed[i].to = clientFd => streamed[i].line = streaming
  <2> SUFFICES ASSUME NEW i \in 1 .. Len(streamed)
               PROVE  /\ streamed[i].line \in Nat /\ streamed[i].line <= streaming
                      /\ streamed[i].to \in Nat /\ streamed[i].to <= clientFd
                      /\ streamed[i].to <= accepted
                      /\ i = Len(streamed) /\ streamed[i].to = clientFd =>
                           streamed[i].line = streaming
    OBVIOUS
  <2>1. streamed[i] \in [line : 1 .. MaxSent, to : Clients]
    BY <1>4, ElementOfSeq
  <2>2. streamed[i].line \in 1 .. MaxSent /\ streamed[i].to \in Clients
    BY <2>1
  <2>3. /\ UpTo(streamed[i].to) /\ streamed[i].line <= streaming
        /\ i = Len(streamed) /\ streamed[i].to = clientFd => streamed[i].line = streaming
    BY DEF IInv, Sessions
  <2>4. streamed[i].to <= clientFd /\ streamed[i].to <= accepted
    <3>1. streamed[i].to \in 1 .. accepted /\ streamed[i].to <= clientFd
      BY <1>2, <2>3 DEF UpTo
    <3>2. accepted \in Nat
      BY Sizes DEF IInv
    <3>3. QED
      BY <3>1, <3>2
  <2>5. streamed[i].line \in Nat
    BY <1>2, <2>2
  <2>6. streamed[i].to \in Nat
    BY <1>2, <2>2
  <2> QED
    BY <2>3, <2>4, <2>5, <2>6
<1>8. 1 .. Len(streamed') = (1 .. Len(streamed)) \cup {Len(streamed) + 1}
  BY <1>2, <1>5
<1>9. TypeOK'
  <2>1. streaming' \in 0 .. drained
    BY <1>2
  <2> QED
    BY <1>1, <1>5, <2>1 DEF IInv, TypeOK
<1>10. OneCentral'
  BY <1>1 DEF IInv, OneCentral
<1>11. InStep'
  BY <1>1, InStepStays DEF IInv
<1>12. Sessions'
  <2>1. \A c : UpTo(c)' <=> UpTo(c)
    BY <1>1 DEF UpTo
  <2>2. \A i \in 1 .. Len(streamed') :
          /\ UpTo(streamed'[i].to)
          /\ streamed'[i].line <= streaming + 1
          /\ i = Len(streamed') => streamed'[i].line = streaming + 1
    <3> SUFFICES ASSUME NEW i \in 1 .. Len(streamed')
                 PROVE  /\ UpTo(streamed'[i].to)
                        /\ streamed'[i].line <= streaming + 1
                        /\ i = Len(streamed') => streamed'[i].line = streaming + 1
      OBVIOUS
    <3>1. CASE i \in 1 .. Len(streamed)
      <4>1. UpTo(streamed[i].to) /\ streamed'[i] = streamed[i]
        BY <1>5, <3>1 DEF IInv, Sessions
      <4>2. i # Len(streamed) + 1
        BY <1>2, <3>1
      <4> QED
        BY <1>2, <1>5, <1>7, <3>1, <4>1, <4>2
    <3>2. CASE i = Len(streamed) + 1
      <4>1. UpTo(clientFd)
        BY <1>2, Sizes DEF UpTo, Clients, IInv
      <4> QED
        BY <1>2, <1>5, <1>6, <3>2, <4>1
    <3> QED
      BY <1>8, <3>1, <3>2
  <2>3. \A i \in 1 .. Len(delivered) : UpTo(From(i))
    BY DEF IInv, Sessions
  <2>4. \A n \in 1 .. Len(sent) : UpTo(sent[n])
    BY DEF IInv, Sessions
  <2> QED
    BY <1>1, <2>1, <2>2, <2>3, <2>4 DEF Sessions, UpTo, From
<1>13. Leftovers'
  BY <1>1, <1>2 DEF IInv, Leftovers
<1>14. StreamedInOrder'
  <2>1. UnbrokenRuns'
    <3> SUFFICES ASSUME NEW i \in 1 .. Len(streamed'), NEW j \in 1 .. Len(streamed'), j = i + 1
                 PROVE  IF streamed'[i].to = streamed'[j].to
                        THEN streamed'[j].line = streamed'[i].line + 1
                        ELSE /\ streamed'[i].line < streamed'[j].line
                             /\ streamed'[i].to < streamed'[j].to
      BY DEF UnbrokenRuns
    <3>1. CASE j \in 1 .. Len(streamed)
      <4>1. i \in 1 .. Len(streamed)
        BY <1>2, <3>1
      <4> QED
        BY <1>5, <3>1, <4>1 DEF IInv, StreamedInOrder, UnbrokenRuns
    <3>2. CASE j = Len(streamed) + 1
      <4>1. i = Len(streamed) /\ i \in 1 .. Len(streamed)
        BY <1>2, <1>5, <3>2
      <4>2. streamed'[i] = streamed[i] /\ streamed'[j] = e
        BY <1>5, <3>2, <4>1
      <4> QED
        BY <1>2, <1>6, <1>7, <4>1, <4>2
    <3> QED
      BY <1>8, <3>1, <3>2
  <2>2. LeftoversFirst'
    <3> SUFFICES ASSUME NEW i \in 1 .. Len(streamed'), NEW n \in 1 .. Len(sent),
                        sent[streamed'[i].line] < sent[n], sent[n] < streamed'[i].to
                 PROVE  FALSE
      BY <1>1 DEF LeftoversFirst
    <3>1. CASE i \in 1 .. Len(streamed)
      BY <1>5, <3>1 DEF IInv, StreamedInOrder, LeftoversFirst
    <3>2. CASE i = Len(streamed) + 1
      <4>1. streaming + 1 \in 1 .. Len(sent) /\ streaming < streaming + 1
        BY <1>2
      <4>2. sent[streaming + 1] < sent[n] /\ sent[n] < clientFd
        BY <1>5, <1>6, <3>2
      <4>3. sent[n] = clientFd
        BY <4>1, <4>2 DEF IInv, Leftovers
      <4> QED
        BY <1>2, <4>2, <4>3
    <3> QED
      BY <1>8, <3>1, <3>2
  <2> QED
    BY <2>1, <2>2 DEF StreamedInOrder
<1>15. DeviceGetsPrefixes'
  BY <1>1 DEF IInv, DeviceGetsPrefixes, From
<1> QED
  BY <1>9, <1>10, <1>11, <1>12, <1>13, <1>14, <1>15 DEF IInv

LEMMA StreamKeeps ==
  ASSUME IInv, Stream
  PROVE  IInv'
<1>1. unread' \in 0 .. SocketCap
  <2>1. unread \in Nat /\ SocketCap \in Nat /\ unread < SocketCap /\ unread' = unread + 1
    BY Sizes DEF Stream, IInv
  <2> QED
    BY <2>1
<1> QED
  BY <1>1, Streaming DEF Stream

LEMMA StreamToClosedKeeps ==
  ASSUME IInv, StreamToClosed
  PROVE  IInv'
<1>1. phase = "stream" /\ streaming < drained /\ clientFd # NoClient
  BY DEF StreamToClosed, IInv, OneCentral
<1>2. UNCHANGED <<interrupted, delivered, sent, drained, accepted, connected, closed,
                  wrote, wire>>
  BY DEF StreamToClosed, peers
<1>3. CASE /\ streaming' = streaming + 1
           /\ streamed' = Append(streamed, [line |-> streaming', to |-> clientFd])
           /\ UNCHANGED <<phase, link, clientFd, inbuf, unread>>
  <2>1. unread' \in 0 .. SocketCap
    BY <1>3 DEF IInv, TypeOK
  <2> QED
    BY <1>1, <1>2, <1>3, <2>1, Streaming DEF bus, peers
<1>4. CASE phase' = "top" /\ DropClient /\ UNCHANGED streamed
  BY <1>1, <1>2, <1>4, Dropping
<1>5. CASE phase' = "killed" /\ UNCHANGED <<link, session, streamed>>
  <2>1. phase' \in Phases /\ phase' \notin {"top", "device", "receive", "deliver", "stream"}
    BY <1>5 DEF Phases
  <2>2. UNCHANGED <<interrupted, bus, bridge, peers>>
    BY <1>2, <1>5 DEF bus, bridge, peers
  <2> QED
    BY <2>1, <2>2, LoopGoesOn
<1> QED
  BY <1>3, <1>4, <1>5 DEF StreamToClosed

LEMMA DrainKeeps ==
  ASSUME IInv, Drain
  PROVE  IInv'
<1>1. /\ phase = "deliver" /\ phase' = "stream" /\ drained' = Len(sent)
      /\ UNCHANGED <<interrupted, link, delivered, sent, clientFd, inbuf, streaming,
                     unread, streamed, accepted, connected, closed, wrote, wire>>
  BY DEF Drain, bridge, session, peers
<1>2. /\ Len(sent) \in Nat /\ drained \in Nat /\ drained <= Len(sent)
      /\ streaming \in Nat /\ streaming <= drained
  BY Sizes DEF IInv
<1>3. TypeOK'
  <2>1. drained' \in 0 .. Len(sent) /\ streaming \in 0 .. drained'
    BY <1>1, <1>2
  <2> QED
    BY <1>1, <2>1 DEF IInv, TypeOK
<1>4. OneCentral'
  BY <1>1 DEF IInv, OneCentral
<1>5. InStep'
  BY <1>1, InStepStays DEF IInv
<1>6. Sessions'
  BY <1>1, SessionsStay DEF IInv
<1>7. Leftovers'
  BY <1>1, <1>2 DEF IInv, Leftovers
<1>8. DeviceGetsPrefixes' /\ StreamedInOrder'
  BY <1>1, StreamsStay DEF IInv
<1> QED
  BY <1>3, <1>4, <1>5, <1>6, <1>7, <1>8 DEF IInv

--------------------------------------------------------------------------------
(* The listen queue and the lines of the client.                           *)

LEMMA AcceptKeeps ==
  ASSUME IInv, Accept
  PROVE  IInv'
<1>1. /\ phase = "device" /\ phase' = "receive" /\ accepted < connected
      /\ accepted' = accepted + 1
      /\ IF clientFd = NoClient
         THEN clientFd' = accepted' /\ link' = "connected"
         ELSE UNCHANGED <<clientFd, link>>
      /\ UNCHANGED <<interrupted, delivered, sent, drained, inbuf, streaming,
                     unread, streamed, connected, closed, wrote, wire>>
  BY DEF Accept, peers
<1>2. PICK n \in Clients : n = accepted + 1
  BY <1>1, Sizes DEF IInv, Clients
<1>3. /\ n \in Nat /\ accepted \in Nat /\ n = accepted + 1 /\ accepted' = n /\ n <= connected
      /\ Clients \subseteq Nat /\ n # NoClient /\ connected \in Nat
  <2>1. TypeOK
    BY DEF IInv
  <2>2. /\ Clients \subseteq Nat /\ NoClient \notin Clients
        /\ accepted \in Nat /\ connected \in Nat
    BY <2>1, Sizes
  <2>3. accepted < connected /\ accepted' = accepted + 1
    BY <1>1
  <2>4. QED
    BY <1>2, <2>2, <2>3
<1>4. /\ clientFd' \in Clients /\ clientFd' # NoClient /\ clientFd' <= accepted'
      /\ clientFd' \in Nat
  <2>1. clientFd # NoClient => clientFd \in Clients /\ clientFd <= accepted
    BY DEF IInv, TypeOK, OneCentral
  <2>2. CASE clientFd = NoClient
    BY <1>1, <1>2, <1>3, <2>2
  <2>3. CASE clientFd # NoClient
    <3>1. clientFd' = clientFd /\ clientFd \in Nat
      BY <1>1, <1>3, <2>1, <2>3
    <3> QED
      BY <1>3, <2>1, <2>3, <3>1
  <2> QED
    BY <2>2, <2>3
<1>5. TypeOK'
  <2>1. accepted' \in 0 .. connected
    BY <1>3
  <2>2. link' \in {"advertising", "connected"}
    BY <1>1 DEF IInv, TypeOK
  <2> QED
    BY <1>1, <1>4, <2>1, <2>2 DEF IInv, TypeOK
<1>6. OneCentral'
  BY <1>1, <1>4 DEF OneCentral
<1>7. \A c : UpTo(c) => c \in 1 .. accepted' /\ c <= clientFd'
  BY <1>1, <1>3, <1>4 DEF UpTo
<1>8. \A i \in 1 .. Len(delivered) : From(i) \in 1 .. accepted
  BY DEF IInv, Sessions, UpTo
<1>9. InStep'
  <2>1. \A c \in Clients : c > accepted' => Numbered(wire[c], c, 0) /\ wrote[c] = Len(wire[c])
    BY <1>3 DEF IInv, InStep
  <2>2. CASE clientFd = NoClient
    <3>1. Got(n) = 0
      <4>1. \A j \in 1 .. Len(delivered) : From(j) # n
        BY <1>3, <1>8
      <4>2. {j \in 1 .. Len(delivered) : From(j) = n} = {}
        BY <4>1
      <4> QED
        BY <4>2, FS_EmptySet DEF Got
    <3>2. clientFd' = n /\ link' = "connected" /\ inbuf' = <<>> /\ Len(<<>>) = 0
      BY <1>1, <1>3, <2>2, EmptySeq DEF IInv, OneCentral
    <3>3. Got(n)' = 0
      BY <1>1, <3>1 DEF Got, From
    <3>4. Numbered(wire[n], n, 0) /\ wrote[n] = Len(wire[n]) /\ Len(wire[n]) \in Nat
      BY <1>2, <1>3, LenProperties DEF IInv, InStep, TypeOK
    <3>5. /\ Numbered(<<>>, n, 2 * 0)
          /\ Numbered(wire[n], n, 2 * 0 + Len(<<>>))
          /\ wrote[n] = 2 * 0 + Len(<<>>) + Len(wire[n])
      BY <3>2, <3>4 DEF Numbered
    <3>6. Got(clientFd)' = 0
      BY <3>2, <3>3 DEF Got, From
    <3> QED
      BY <1>1, <2>1, <3>2, <3>5, <3>6 DEF InStep, Numbered
  <2>3. CASE clientFd # NoClient
    <3>1. Got(clientFd)' = Got(clientFd)
      BY <1>1, <2>3 DEF Got, From
    <3> QED
      BY <1>1, <2>1, <2>3, <3>1 DEF IInv, InStep, Numbered
  <2> QED
    BY <2>2, <2>3
<1>10. Sessions'
  <2>1. /\ \A i \in 1 .. Len(delivered) : UpTo(From(i))
        /\ \A m \in 1 .. Len(sent) : UpTo(sent[m])
        /\ \A i \in 1 .. Len(streamed) : UpTo(streamed[i].to) /\ streamed[i].line <= streaming
    BY DEF IInv, Sessions

  <2>2. \A i \in 1 .. Len(streamed) :
          i = Len(streamed) /\ streamed[i].to = clientFd' => streamed[i].line = streaming
    <3>1. CASE clientFd = NoClient
      <4>1. \A i \in 1 .. Len(streamed) : streamed[i].to # n
        BY <1>3, <2>1 DEF UpTo
      <4> QED
        BY <1>1, <1>3, <3>1, <4>1
    <3>2. CASE clientFd # NoClient
      BY <1>1, <3>2 DEF IInv, Sessions
    <3> QED
      BY <3>1, <3>2
  <2>3. \A c : UpTo(c) => UpTo(c)'
    BY <1>7 DEF UpTo
  <2> QED
    BY <1>1, <2>1, <2>2, <2>3 DEF Sessions, UpTo, From
<1>11. Leftovers'
  <2>1. \A n1 \in 1 .. Len(sent) : sent[n1] # NoClient
    BY DEF IInv, Sessions, UpTo, NoClient
  <2>2. \A m, n1 \in 1 .. Len(sent) :
          streaming < m /\ sent[m] < sent[n1] => sent[n1] = clientFd'
    BY <1>1, <2>1 DEF IInv, Leftovers
  <2> QED
    BY <1>1, <2>2 DEF IInv, Leftovers
<1>12. DeviceGetsPrefixes' /\ StreamedInOrder'
  BY <1>1, StreamsStay DEF IInv
<1> QED
  BY <1>5, <1>6, <1>9, <1>10, <1>11, <1>12 DEF IInv

\* The device has its turn: all that was sent before is of the present client or of
\* one before it, and drained unless it is of the present one.
LEMMA DeviceSendsKeeps ==
  ASSUME IInv, DeviceSends
  PROVE  IInv'
<1>1. /\ phase = "device" /\ Len(sent) < MaxSent /\ link = "connected"
      /\ sent' = Append(sent, clientFd)
      /\ UNCHANGED <<phase, interrupted, link, delivered, drained, clientFd, inbuf, streaming,
                     unread, streamed, accepted, connected, closed, wrote, wire>>
  BY DEF DeviceSends, bridge, session, peers
<1>2. /\ clientFd \in Clients /\ clientFd # NoClient /\ clientFd \in Nat /\ clientFd >= 1
      /\ clientFd <= accepted /\ accepted \in Nat
      /\ Len(sent) \in Nat /\ Len(sent) < MaxSent /\ MaxSent \in Nat
      /\ drained \in Nat /\ drained <= Len(sent) /\ streaming \in Nat /\ streaming <= drained
  <2>1. clientFd # NoClient /\ clientFd \in Clients /\ clientFd <= accepted
    BY <1>1 DEF IInv, OneCentral, TypeOK
  <2>2. clientFd \in Nat /\ clientFd >= 1
    BY <2>1, Sizes DEF IInv, Clients
  <2> QED
    BY <1>1, <2>1, <2>2, Sizes DEF IInv
<1>3. /\ sent' \in Seq(Clients) /\ Len(sent') = Len(sent) + 1
      /\ \A n \in 1 .. Len(sent) : sent'[n] = sent[n]
      /\ sent'[Len(sent) + 1] = clientFd
  <2>1. sent \in Seq(Clients)
    BY DEF IInv, TypeOK
  <2> QED
    BY <1>1, <1>2, <2>1, AppendProperties
<1>4. 1 .. Len(sent') = (1 .. Len(sent)) \cup {Len(sent) + 1}
  BY <1>2, <1>3
<1>5. \A n \in 1 .. Len(sent') :
        sent'[n] \in Nat /\ sent'[n] <= clientFd /\ sent'[n] <= accepted /\ UpTo(sent'[n])
  <2>1. \A n \in 1 .. Len(sent) : UpTo(sent[n])
    BY DEF IInv, Sessions
  <2>2. UpTo(clientFd)
    BY <1>2 DEF UpTo
  <2>3. \A n \in 1 .. Len(sent') : UpTo(sent'[n])
    BY <1>3, <1>4, <2>1, <2>2
  <2>4. \A c : UpTo(c) => c \in Nat /\ c <= clientFd /\ c <= accepted
    BY <1>2 DEF UpTo
  <2> QED
    BY <2>3, <2>4
<1>6. TypeOK'
  <2>1. Len(sent') <= MaxSent /\ drained \in 0 .. Len(sent')
    BY <1>2, <1>3
  <2> QED
    BY <1>1, <1>3, <2>1 DEF IInv, TypeOK
<1>7. OneCentral'
  BY <1>1 DEF IInv, OneCentral
<1>8. InStep'
  BY <1>1, InStepStays DEF IInv
<1>9. Sessions'
  BY <1>1, <1>5 DEF IInv, Sessions, UpTo, From
<1>10. Leftovers'
  <2> SUFFICES ASSUME NEW m \in 1 .. Len(sent'), NEW n \in 1 .. Len(sent')
               PROVE  /\ drained < m => sent'[n] <= sent'[m] /\ sent'[m] = clientFd
                      /\ streaming < m /\ sent'[m] < sent'[n] => sent'[n] = clientFd
    BY <1>1 DEF Leftovers
  <2>1. drained < m => sent'[m] = clientFd
    BY <1>1, <1>2, <1>3, <1>4 DEF IInv, Leftovers
  <2>2. drained < m => sent'[n] <= sent'[m]
    BY <1>5, <2>1
  <2>3. streaming < m /\ sent'[m] < sent'[n] => sent'[n] = clientFd
    <3>1. CASE n = Len(sent) + 1
      BY <1>3, <3>1
    <3>2. CASE m = Len(sent) + 1
      BY <1>2, <1>3, <1>5, <3>2
    <3>3. CASE m \in 1 .. Len(sent) /\ n \in 1 .. Len(sent)
      BY <1>3, <3>3 DEF IInv, Leftovers
    <3> QED
      BY <1>4, <3>1, <3>2, <3>3
  <2> QED
    BY <2>1, <2>2, <2>3
<1>11. StreamedInOrder'
  <2>1. UnbrokenRuns'
    BY <1>1 DEF IInv, StreamedInOrder, UnbrokenRuns
  <2>2. LeftoversFirst'
    <3> SUFFICES ASSUME NEW i \in 1 .. Len(streamed), NEW n \in 1 .. Len(sent'),
                        sent'[streamed[i].line] < sent'[n], sent'[n] < streamed[i].to
                 PROVE  FALSE
      BY <1>1 DEF LeftoversFirst
    <3>1. /\ streamed[i].line \in 1 .. MaxSent /\ streamed[i].line <= streaming
          /\ streamed[i].to \in 1 .. accepted /\ streamed[i].to <= clientFd
      <4>1. streamed[i] \in [line : 1 .. MaxSent, to : Clients]
        BY ElementOfSeq DEF IInv, TypeOK
      <4>2. streamed[i].line <= streaming /\ UpTo(streamed[i].to)
        BY DEF IInv, Sessions
      <4>3. streamed[i].line \in 1 .. MaxSent
        BY <4>1
      <4> QED
        BY <1>2, <4>2, <4>3 DEF UpTo
    <3>2. streamed[i].line \in 1 .. Len(sent)
      BY <1>2, <3>1
    <3>3. CASE n \in 1 .. Len(sent)
      BY <1>3, <3>2, <3>3 DEF IInv, StreamedInOrder, LeftoversFirst
    <3>4. CASE n = Len(sent) + 1
      BY <1>2, <1>3, <3>1, <3>4
    <3> QED
      BY <1>4, <3>3, <3>4
  <2> QED
    BY <2>1, <2>2 DEF StreamedInOrder
<1>12. DeviceGetsPrefixes'
  BY <1>1 DEF IInv, DeviceGetsPrefixes, From
<1> QED
  BY <1>6, <1>7, <1>8, <1>9, <1>10, <1>11, <1>12 DEF IInv

LEMMA DeviceDropsLinkKeeps ==
  ASSUME IInv, DeviceDropsLink
  PROVE  IInv'
<1>1. /\ link' = "advertising"
      /\ UNCHANGED <<phase, interrupted, delivered, sent, drained, clientFd, inbuf, streaming,
                     unread, streamed, accepted, connected, closed, wrote, wire>>
  BY DEF DeviceDropsLink, bridge, session, peers
<1>2. TypeOK'
  BY <1>1 DEF IInv, TypeOK
<1>3. OneCentral'
  BY <1>1 DEF IInv, OneCentral
<1>4. InStep'
  BY <1>1, InStepStays DEF IInv
<1>5. Sessions'
  BY <1>1, SessionsStay DEF IInv
<1>6. Leftovers'
  BY <1>1, LeftoversStay DEF IInv
<1>7. DeviceGetsPrefixes' /\ StreamedInOrder'
  BY <1>1, StreamsStay DEF IInv
<1> QED
  BY <1>2, <1>3, <1>4, <1>5, <1>6, <1>7 DEF IInv

LEMMA ReceiveKeeps ==
  ASSUME IInv, Receive
  PROVE  IInv'
<1> DEFINE got == inbuf \o wire[clientFd]
<1>1. /\ phase = "receive"
      /\ wire' = [wire EXCEPT ![clientFd] = <<>>]
      /\ IF Len(got) > InbufCap
         THEN phase' = "top" /\ DropClient
         ELSE inbuf' = got /\ UNCHANGED <<phase, clientFd, link, streaming, unread>>
      /\ UNCHANGED <<interrupted, delivered, sent, drained, streamed, accepted, connected,
                     closed, wrote>>
  BY DEF Receive
<1>2. PICK c \in Clients : c = clientFd
  BY <1>1 DEF IInv, OneCentral, TypeOK
<1>3. /\ clientFd # NoClient /\ c \in Nat /\ c <= accepted /\ accepted \in Nat
      /\ inbuf \in Seq(Piece) /\ wire[c] \in Seq(Piece) /\ wire \in [Clients -> Seq(Piece)]
      /\ Len(inbuf) \in Nat /\ Len(wire[c]) \in Nat
  BY <1>1, <1>2, Sizes, LenProperties DEF IInv, OneCentral, TypeOK
<1>4. CASE Len(got) > InbufCap
  BY <1>1, <1>3, <1>4, Dropping
<1>5. CASE ~(Len(got) > InbufCap)
  <2>1. inbuf' = inbuf \o wire[c] /\ UNCHANGED <<phase, clientFd, link, streaming, unread>>
    BY <1>1, <1>2, <1>5
  <2>2. /\ inbuf' \in Seq(Piece) /\ Len(inbuf') = Len(inbuf) + Len(wire[c])
        /\ \A i \in 1 .. Len(inbuf) + Len(wire[c]) :
             inbuf'[i] = IF i <= Len(inbuf) THEN inbuf[i] ELSE wire[c][i - Len(inbuf)]
    BY <1>3, <2>1, ConcatProperties
  <2>3. /\ wire' \in [Clients -> Seq(Piece)] /\ wire'[c] = <<>>
        /\ \A d \in Clients : d # c => wire'[d] = wire[d]
    <3>1. <<>> \in Seq(Piece)
      BY EmptySeq
    <3> QED
      BY <1>1, <1>2, <1>3, <3>1
  <2>4. TypeOK'
    BY <1>1, <2>1, <2>2, <2>3 DEF IInv, TypeOK
  <2>5. OneCentral'
    BY <1>1, <1>3, <2>1 DEF IInv, OneCentral
  <2>6. InStep'
    <3>1. \A d \in Clients : d > accepted => Numbered(wire'[d], d, 0) /\ wrote[d] = Len(wire'[d])
      <4>1. \A d \in Clients : d > accepted => d # c
        BY <1>3
      <4> QED
        BY <2>3, <4>1 DEF IInv, InStep
    <3>2. ASSUME link = "connected", NEW g, g = 2 * Got(c)
          PROVE  /\ Numbered(inbuf', c, g)
                 /\ Numbered(wire'[c], c, g + Len(inbuf'))
                 /\ wrote[c] = g + Len(inbuf') + Len(wire'[c])
      <4>1. /\ Numbered(inbuf, c, g) /\ Numbered(wire[c], c, g + Len(inbuf))
            /\ wrote[c] = g + Len(inbuf) + Len(wire[c])
        BY <1>2, <3>2 DEF IInv, InStep
      <4>2. g \in Nat
        <5>1. Got(c) \in Nat
          BY GotSome DEF IInv
        <5> QED
          BY <3>2, <5>1
      <4>3. Numbered(inbuf', c, g)
        <5> SUFFICES ASSUME NEW i \in 1 .. Len(inbuf) + Len(wire[c])
                     PROVE  inbuf'[i] = <<c, g + i>>
          BY <2>2 DEF Numbered
        <5>1. CASE i <= Len(inbuf)
          <6>1. i \in 1 .. Len(inbuf)
            BY <1>3, <5>1
          <6> QED
            BY <2>2, <4>1, <5>1, <6>1 DEF Numbered
        <5>2. CASE ~(i <= Len(inbuf))
          <6>1. i - Len(inbuf) \in 1 .. Len(wire[c])
            BY <1>3, <5>2
          <6>2. inbuf'[i] = wire[c][i - Len(inbuf)]
            BY <2>2, <5>2
          <6>3. wire[c][i - Len(inbuf)] = <<c, g + Len(inbuf) + (i - Len(inbuf))>>
            BY <4>1, <6>1 DEF Numbered
          <6>4. g + Len(inbuf) + (i - Len(inbuf)) = g + i
            BY <1>3, <4>2
          <6> QED
            BY <6>2, <6>3, <6>4
        <5> QED
          BY <5>1, <5>2
      <4>4. Len(<<>>) = 0 /\ Numbered(<<>>, c, g + Len(inbuf'))
        BY EmptySeq DEF Numbered
      <4>5. wrote[c] = g + Len(inbuf') + 0
        BY <1>3, <2>2, <4>1, <4>2
      <4> QED
        BY <2>3, <4>3, <4>4, <4>5
    <3>3. Got(clientFd)' = Got(c)
      BY <1>1, <1>2, <2>1 DEF Got, From
    <3>4. link' = "connected" =>
            /\ Numbered(inbuf', clientFd', 2 * Got(clientFd)')
            /\ Numbered(wire'[clientFd'], clientFd', 2 * Got(clientFd)' + Len(inbuf'))
            /\ wrote'[clientFd'] = 2 * Got(clientFd)' + Len(inbuf') + Len(wire'[clientFd'])
      BY <1>1, <1>2, <2>1, <3>2, <3>3
    <3> QED
      BY <1>1, <3>1, <3>4 DEF InStep, Numbered
  <2>7. Sessions'
    BY <1>1, <2>1, SessionsStay DEF IInv
  <2>8. Leftovers'
    BY <1>1, <2>1, LeftoversStay DEF IInv
  <2>9. DeviceGetsPrefixes' /\ StreamedInOrder'
    BY <1>1, StreamsStay DEF IInv
  <2> QED
    BY <2>4, <2>5, <2>6, <2>7, <2>8, <2>9 DEF IInv
<1> QED
  BY <1>4, <1>5

LEMMA ClientWritesKeeps ==
  ASSUME IInv, NEW c \in Clients, ClientWrites(c)
  PROVE  IInv'
<1>1. /\ c \in Held
      /\ wrote' = [wrote EXCEPT ![c] = @ + 1]
      /\ wire' = [wire EXCEPT ![c] = Append(@, <<c, wrote'[c]>>)]
      /\ UNCHANGED <<phase, interrupted, link, delivered, sent, drained, clientFd, inbuf,
                     streaming, unread, streamed, accepted, connected, closed>>
  BY DEF ClientWrites, bus, bridge, session
<1>2. /\ wrote \in [Clients -> Nat] /\ wire \in [Clients -> Seq(Piece)] /\ Clients \subseteq Nat
      /\ accepted \in Nat /\ Len(inbuf) \in Nat
  BY Sizes DEF IInv, TypeOK
<1>3. PICK w \in Nat : w = wrote[c]
  BY <1>2
<1>4. /\ wrote' \in [Clients -> Nat] /\ wrote'[c] = w + 1
      /\ \A d \in Clients : d # c => wrote'[d] = wrote[d]
  BY <1>1, <1>2, <1>3
<1>5. <<c, w + 1>> \in Piece
  BY <1>3 DEF Piece
<1>6. /\ wire' \in [Clients -> Seq(Piece)] /\ wire'[c] = Append(wire[c], <<c, w + 1>>)
      /\ \A d \in Clients : d # c => wire'[d] = wire[d]
  <2>1. wire' = [wire EXCEPT ![c] = Append(wire[c], <<c, w + 1>>)]
    BY <1>1, <1>2, <1>4
  <2>2. Append(wire[c], <<c, w + 1>>) \in Seq(Piece)
    BY <1>2, <1>5, AppendProperties
  <2> QED
    BY <1>2, <2>1, <2>2
<1>7. /\ Len(wire[c]) \in Nat /\ Len(wire'[c]) = Len(wire[c]) + 1
      /\ \A i \in 1 .. Len(wire[c]) : wire'[c][i] = wire[c][i]
      /\ wire'[c][Len(wire[c]) + 1] = <<c, w + 1>>
  BY <1>2, <1>5, <1>6, AppendProperties, LenProperties
<1>8. ASSUME NEW k \in Nat, Numbered(wire[c], c, k), wrote[c] = k + Len(wire[c])
      PROVE  Numbered(wire'[c], c, k) /\ wrote'[c] = k + Len(wire'[c])
  <2>1. 1 .. Len(wire'[c]) = (1 .. Len(wire[c])) \cup {Len(wire[c]) + 1}
    BY <1>7
  <2>2. w + 1 = k + (Len(wire[c]) + 1)
    BY <1>3, <1>7, <1>8
  <2>3. \A i \in 1 .. Len(wire[c]) : wire'[c][i] = <<c, k + i>>
    BY <1>7, <1>8 DEF Numbered
  <2>4. wire'[c][Len(wire[c]) + 1] = <<c, k + (Len(wire[c]) + 1)>>
    BY <1>7, <2>2
  <2>5. Numbered(wire'[c], c, k)
    BY <2>1, <2>3, <2>4 DEF Numbered
  <2> QED
    BY <1>4, <1>7, <2>2, <2>5
<1>9. TypeOK'
  BY <1>1, <1>4, <1>6 DEF IInv, TypeOK
<1>10. OneCentral'
  BY <1>1 DEF IInv, OneCentral
<1>11. InStep'
  <2>1. ASSUME NEW d \in Clients, d > accepted
        PROVE  Numbered(wire'[d], d, 0) /\ wrote'[d] = Len(wire'[d])
    <3>1. Numbered(wire[d], d, 0) /\ wrote[d] = Len(wire[d])
      BY <2>1 DEF IInv, InStep
    <3>2. CASE d = c
      BY <1>7, <1>8, <3>1, <3>2
    <3>3. CASE d # c
      BY <1>4, <1>6, <3>1, <3>3
    <3> QED
      BY <3>2, <3>3
  <2>2. ASSUME link = "connected", NEW g \in Nat, g = 2 * Got(clientFd)
        PROVE  /\ Numbered(inbuf, clientFd, g)
               /\ Numbered(wire'[clientFd], clientFd, g + Len(inbuf))
               /\ wrote'[clientFd] = g + Len(inbuf) + Len(wire'[clientFd])
    <3>1. /\ Numbered(inbuf, clientFd, g) /\ Numbered(wire[clientFd], clientFd, g + Len(inbuf))
          /\ wrote[clientFd] = g + Len(inbuf) + Len(wire[clientFd])
      BY <2>2 DEF IInv, InStep
    <3>2. CASE clientFd = c
      <4>1. PICK k \in Nat : k = g + Len(inbuf)
        BY <1>2
      <4>2. Numbered(wire'[c], c, k) /\ wrote'[c] = k + Len(wire'[c])
        BY <1>8, <3>1, <3>2, <4>1
      <4> QED
        BY <3>1, <3>2, <4>1, <4>2
    <3>3. CASE clientFd # c
      <4>1. clientFd \in Clients
        BY <2>2 DEF IInv, OneCentral, TypeOK
      <4> QED
        BY <1>4, <1>6, <3>1, <3>3, <4>1
    <3> QED
      BY <3>2, <3>3
  <2>3. 2 * Got(clientFd) \in Nat
    <3>1. Got(clientFd) \in Nat
      BY GotSome DEF IInv
    <3> QED
      BY <3>1
  <2>4. Got(clientFd)' = Got(clientFd)
    BY <1>1 DEF Got, From
  <2> DEFINE g == 2 * Got(clientFd)
  <2>5. /\ link' = link /\ inbuf' = inbuf /\ clientFd' = clientFd /\ accepted' = accepted
        /\ (2 * Got(clientFd))' = g
    BY <1>1, <2>4
  <2>6. link = "connected" =>
          /\ Numbered(inbuf, clientFd, g) /\ Numbered(wire'[clientFd], clientFd, g + Len(inbuf))
          /\ wrote'[clientFd] = g + Len(inbuf) + Len(wire'[clientFd])
    BY <2>2, <2>3
  <2> HIDE DEF g
  <2> QED
    BY <2>1, <2>5, <2>6 DEF InStep, Numbered
<1>12. Sessions'
  BY <1>1, SessionsStay DEF IInv
<1>13. Leftovers'
  BY <1>1, LeftoversStay DEF IInv
<1>14. DeviceGetsPrefixes' /\ StreamedInOrder'
  BY <1>1, StreamsStay DEF IInv
<1> QED
  BY <1>9, <1>10, <1>11, <1>12, <1>13, <1>14 DEF IInv

LEMMA Pair ==
  ASSUME NEW S, NEW s \in Seq(S), Len(s) = 2
  PROVE  s = <<s[1], s[2]>>
OBVIOUS

\* inbuf starts with a whole line, the next one of the client, or has none.
LEMMA FirstNewline ==
  ASSUME NEW c, NEW g \in Nat, inbuf \in Seq(Piece), Numbered(inbuf, c, 2 * g),
         NEW i \in Newlines, \A j \in Newlines : i <= j
  PROVE  /\ i = 2 /\ Len(inbuf) >= 2
         /\ SubSeq(inbuf, 1, i) = LineOf(c, g + 1)
<1>1. Len(inbuf) \in Nat /\ i \in 1 .. Len(inbuf) /\ EndsLine(inbuf[i])
  BY LenProperties DEF Newlines
<1>2. \A j \in 1 .. Len(inbuf) : EndsLine(inbuf[j]) <=> (2 * g + j) % 2 = 0
  <2> SUFFICES ASSUME NEW j \in 1 .. Len(inbuf)
               PROVE  EndsLine(inbuf[j]) <=> (2 * g + j) % 2 = 0
    OBVIOUS
  <2>1. inbuf[j] = <<c, 2 * g + j>>
    BY DEF Numbered
  <2>2. inbuf[j][2] = 2 * g + j
    BY <2>1
  <2> QED
    BY <2>2 DEF EndsLine
<1>3. i # 1
  <2>1. (2 * g + 1) % 2 # 0
    OBVIOUS
  <2> QED
    BY <1>1, <1>2, <2>1
<1>4. Len(inbuf) >= 2 /\ 2 \in 1 .. Len(inbuf)
  BY <1>1, <1>3
<1>5. i = 2
  <2>1. (2 * g + 2) % 2 = 0
    OBVIOUS
  <2>2. 2 \in Newlines
    BY <1>2, <1>4, <2>1 DEF Newlines
  <2> QED
    BY <1>1, <1>3, <2>2
<1>6. SubSeq(inbuf, 1, 2) = <<inbuf[1], inbuf[2]>>
  <2>1. \A j \in 1 .. 2 : inbuf[j] \in Piece
    BY <1>1, <1>4, ElementOfSeq
  <2>2. /\ SubSeq(inbuf, 1, 2) \in Seq(Piece)
        /\ Len(SubSeq(inbuf, 1, 2)) = IF 1 <= 2 THEN 2 - 1 + 1 ELSE 0
        /\ \A j \in 1 .. 2 - 1 + 1 : SubSeq(inbuf, 1, 2)[j] = inbuf[1 + j - 1]
    BY <2>1, SubSeqProperties
  <2>3. /\ Len(SubSeq(inbuf, 1, 2)) = 2
        /\ SubSeq(inbuf, 1, 2)[1] = inbuf[1] /\ SubSeq(inbuf, 1, 2)[2] = inbuf[2]
    BY <2>2
  <2>4. SubSeq(inbuf, 1, 2) = <<SubSeq(inbuf, 1, 2)[1], SubSeq(inbuf, 1, 2)[2]>>
    BY <2>2, <2>3, Pair
  <2> QED
    BY <2>3, <2>4
<1>7. inbuf[1] = <<c, 2 * (g + 1) - 1>> /\ inbuf[2] = <<c, 2 * (g + 1)>>
  <2>1. 2 * g + 1 = 2 * (g + 1) - 1 /\ 2 * g + 2 = 2 * (g + 1)
    OBVIOUS
  <2>2. inbuf[1] = <<c, 2 * g + 1>> /\ inbuf[2] = <<c, 2 * g + 2>>
    BY <1>1, <1>4 DEF Numbered
  <2> QED
    BY <2>1, <2>2
<1> QED
  BY <1>4, <1>5, <1>6, <1>7 DEF LineOf

LEMMA DeliverKeeps ==
  ASSUME IInv, Deliver
  PROVE  IInv'
<1>1. PICK i \in Newlines :
        /\ \A j \in Newlines : i <= j
        /\ inbuf' = SubSeq(inbuf, i + 1, Len(inbuf))
        /\ delivered' = IF link = "connected" THEN Append(delivered, SubSeq(inbuf, 1, i))
                                              ELSE delivered
  BY DEF Deliver
<1>2. /\ phase = "deliver"
      /\ UNCHANGED <<phase, interrupted, link, sent, drained, clientFd, streaming,
                     unread, streamed, accepted, connected, closed, wrote, wire>>
  BY DEF Deliver, peers
<1>3. PICK c \in Clients : c = clientFd
  BY <1>2 DEF IInv, OneCentral, TypeOK
<1>4. /\ c # NoClient /\ c \in Nat /\ c <= accepted /\ accepted \in Nat /\ c >= 1
      /\ Len(inbuf) \in Nat /\ inbuf \in Seq(Piece) /\ Len(delivered) \in Nat
      /\ delivered \in Seq(Seq(Piece)) /\ i \in 1 .. Len(inbuf)
      /\ \A j \in 1 .. Len(inbuf) : inbuf[j] \in Piece
  <2>1. c # NoClient /\ c \in Nat /\ c <= accepted /\ accepted \in Nat /\ c >= 1
    BY <1>2, <1>3, Sizes DEF IInv, OneCentral, Clients
  <2>2. /\ Len(inbuf) \in Nat /\ inbuf \in Seq(Piece) /\ Len(delivered) \in Nat
        /\ delivered \in Seq(Seq(Piece)) /\ i \in 1 .. Len(inbuf)
    BY <1>1, Sizes DEF IInv, TypeOK, Newlines
  <2> QED
    BY <2>1, <2>2, ElementOfSeq
<1>5. /\ inbuf' \in Seq(Piece) /\ Len(inbuf') = Len(inbuf) - i
      /\ \A j \in 1 .. Len(inbuf) - i : inbuf'[j] = inbuf[i + j]
  <2>1. i + 1 \in Int /\ Len(inbuf) \in Int /\ i \in Int
    BY <1>4
  <2>2. \A j \in i + 1 .. Len(inbuf) : inbuf[j] \in Piece
    BY <1>4
  <2>3. /\ SubSeq(inbuf, i + 1, Len(inbuf)) \in Seq(Piece)
        /\ Len(SubSeq(inbuf, i + 1, Len(inbuf))) =
             IF i + 1 <= Len(inbuf) THEN Len(inbuf) - (i + 1) + 1 ELSE 0
        /\ \A j \in 1 .. Len(inbuf) - (i + 1) + 1 :
             SubSeq(inbuf, i + 1, Len(inbuf))[j] = inbuf[(i + 1) + j - 1]
    BY <2>1, <2>2, SubSeqProperties
  <2>4. Len(inbuf) - (i + 1) + 1 = Len(inbuf) - i
    BY <1>4
  <2>5. \A j \in 1 .. Len(inbuf) - i : (i + 1) + j - 1 = i + j
    BY <1>4
  <2>6. \A j \in 1 .. Len(inbuf) - i : SubSeq(inbuf, i + 1, Len(inbuf))[j] = inbuf[i + j]
    BY <2>3, <2>4, <2>5
  <2>7. Len(SubSeq(inbuf, i + 1, Len(inbuf))) = Len(inbuf) - i
    BY <1>4, <2>3
  <2> QED
    BY <1>1, <2>3, <2>6, <2>7
<1>6. OneCentral'
  BY <1>2, <1>3, <1>4 DEF IInv, OneCentral
<1>7. Leftovers'
  BY <1>2, LeftoversStay DEF IInv
<1>8. StreamedInOrder'
  BY <1>2 DEF IInv, StreamedInOrder, UnbrokenRuns, LeftoversFirst
<1>9. CASE link # "connected"
  <2>1. delivered' = delivered
    BY <1>1, <1>9
  <2>2. TypeOK'
    BY <1>2, <1>5, <2>1 DEF IInv, TypeOK
  <2>3. InStep'
    BY <1>2, <1>9 DEF IInv, InStep, Numbered
  <2>4. Sessions'
    BY <1>2, <2>1, SessionsStay DEF IInv
  <2>5. DeviceGetsPrefixes'
    BY <2>1 DEF IInv, DeviceGetsPrefixes, From
  <2> QED
    BY <1>6, <1>7, <1>8, <2>2, <2>3, <2>4, <2>5 DEF IInv
<1>10. CASE link = "connected"
  <2>1. PICK g \in Nat : g = Got(c)
    BY GotSome DEF IInv
  <2>2. /\ Numbered(inbuf, c, 2 * g) /\ Numbered(wire[c], c, 2 * g + Len(inbuf))
        /\ wrote[c] = 2 * g + Len(inbuf) + Len(wire[c])
    BY <1>3, <1>10, <2>1 DEF IInv, InStep
  <2> DEFINE line == LineOf(c, g + 1)
             n == Len(delivered) + 1
  <2>3. i = 2 /\ Len(inbuf) >= 2 /\ SubSeq(inbuf, 1, i) = line
    BY <1>1, <1>4, <2>2, FirstNewline
  <2>4. line[1][1] = c
    BY DEF LineOf
  <2>5. line \in Seq(Piece)
    <3>1. <<c, 2 * (g + 1) - 1>> \in Piece /\ <<c, 2 * (g + 1)>> \in Piece
      <4>1. 2 * (g + 1) - 1 \in Nat \ {0} /\ 2 * (g + 1) \in Nat \ {0}
        OBVIOUS
      <4> QED
        BY <4>1 DEF Piece
    <3> QED
      BY <3>1 DEF LineOf
  <2>6. delivered' = Append(delivered, line)
    BY <1>1, <1>10, <2>3
  <2> HIDE DEF line
  <2>7. /\ delivered' \in Seq(Seq(Piece)) /\ Len(delivered') = n
        /\ \A j \in 1 .. Len(delivered) : delivered'[j] = delivered[j]
        /\ delivered'[n] = line
    BY <1>4, <2>5, <2>6, AppendProperties
  <2>8. 1 .. n = (1 .. Len(delivered)) \cup {n} /\ n \notin 1 .. Len(delivered) /\ n \in Nat
    BY <1>4
  <2>9. /\ \A j \in 1 .. Len(delivered) : From(j)' = From(j)
        /\ delivered'[n][1][1] = c
    BY <2>4, <2>7 DEF From
  <2>10. Cardinality({j \in 1 .. n : delivered'[j][1][1] = c}) = g + 1
    <3> DEFINE D == {j \in 1 .. Len(delivered) : From(j) = c}
    <3>1. IsFiniteSet(D)
      <4>1. IsFiniteSet(1 .. Len(delivered)) /\ D \in SUBSET (1 .. Len(delivered))
        BY <1>4, FS_Interval
      <4> QED
        BY <4>1, FS_Subset
    <3>2. {j \in 1 .. n : delivered'[j][1][1] = c} = D \cup {n} /\ n \notin D
      BY <2>8, <2>9 DEF From
    <3>3. Cardinality(D) = g
      BY <2>1 DEF Got
    <3> HIDE DEF D, n
    <3> QED
      BY <3>1, <3>2, <3>3, FS_AddElement
  <2>11. TypeOK'
    BY <1>2, <1>5, <2>7 DEF IInv, TypeOK
  <2>12. InStep'
    <3>1. Got(clientFd)' = g + 1
      BY <1>2, <1>3, <2>7, <2>10 DEF Got, From
    <3>2. /\ Numbered(inbuf', c, 2 * (g + 1))
          /\ Numbered(wire[c], c, 2 * (g + 1) + Len(inbuf'))
          /\ wrote[c] = 2 * (g + 1) + Len(inbuf') + Len(wire[c])
      <4>1. 2 * g + Len(inbuf) = 2 * (g + 1) + Len(inbuf')
        BY <1>4, <1>5, <2>3
      <4>2. ASSUME NEW j \in 1 .. Len(inbuf')
            PROVE  inbuf'[j] = <<c, 2 * (g + 1) + j>>
        <5>1. 2 + j \in 1 .. Len(inbuf) /\ j \in 1 .. Len(inbuf) - i
          BY <1>4, <1>5, <2>3, <4>2
        <5>2. inbuf'[j] = inbuf[2 + j]
          BY <1>5, <2>3, <5>1
        <5>3. inbuf[2 + j] = <<c, 2 * g + (2 + j)>>
          BY <2>2, <5>1 DEF Numbered
        <5>4. 2 * g + (2 + j) = 2 * (g + 1) + j
          BY <1>4, <5>1
        <5> QED
          BY <5>2, <5>3, <5>4
      <4>3. Numbered(inbuf', c, 2 * (g + 1))
        BY <4>2 DEF Numbered
      <4>4. 2 * g + Len(inbuf) + Len(wire[c]) = 2 * (g + 1) + Len(inbuf') + Len(wire[c])
        BY <4>1
      <4> QED
        BY <2>2, <4>1, <4>3, <4>4
    <3>3. /\ Numbered(inbuf', clientFd', 2 * Got(clientFd)')
          /\ Numbered(wire'[clientFd'], clientFd', 2 * Got(clientFd)' + Len(inbuf'))
          /\ wrote'[clientFd'] = 2 * Got(clientFd)' + Len(inbuf') + Len(wire'[clientFd'])
      BY <1>2, <1>3, <3>1, <3>2
    <3>4. \A d \in Clients : d > accepted => Numbered(wire[d], d, 0) /\ wrote[d] = Len(wire[d])
      BY DEF IInv, InStep
    <3> QED
      BY <1>2, <3>3, <3>4 DEF InStep, Numbered
  <2>13. \A j \in 1 .. Len(delivered) : UpTo(From(j))
    BY DEF IInv, Sessions
  <2>14. Sessions'
    <3>1. UpTo(c)
      BY <1>3, <1>4 DEF UpTo
    <3>2. \A j \in 1 .. n : UpTo(delivered'[j][1][1])
      BY <2>8, <2>9, <2>13, <3>1 DEF From
    <3>3. \A j \in 1 .. Len(delivered') : (UpTo(From(j)))'
      BY <1>2, <2>7, <3>2 DEF From, UpTo
    <3>4. \A m \in 1 .. Len(sent) : UpTo(sent[m])
      BY DEF IInv, Sessions
    <3>5. \A m \in 1 .. Len(streamed) :
            /\ UpTo(streamed[m].to)
            /\ streamed[m].line <= streaming
            /\ m = Len(streamed) /\ streamed[m].to = clientFd => streamed[m].line = streaming
      BY DEF IInv, Sessions
    <3> QED
      BY <1>2, <3>3, <3>4, <3>5 DEF Sessions, UpTo
  <2>15. DeviceGetsPrefixes'
    <3> SUFFICES ASSUME NEW k \in 1 .. n
                 PROVE  LET nth == Cardinality({j \in 1 .. k : From(j)' = From(k)'})
                        IN /\ delivered'[k] = LineOf(From(k)', nth)
                           /\ \A j \in 1 .. k : From(j)' <= From(k)'
      BY <2>7 DEF DeviceGetsPrefixes, From
    <3>1. CASE k \in 1 .. Len(delivered)
      <4>1. \A j \in 1 .. k : j \in 1 .. Len(delivered)
        BY <1>4, <3>1
      <4>2. /\ From(k)' = From(k) /\ \A j \in 1 .. k : From(j)' = From(j)
            /\ delivered'[k] = delivered[k]
        BY <2>7, <2>9, <3>1, <4>1
      <4>3. {j \in 1 .. k : From(j)' = From(k)'} = {j \in 1 .. k : From(j) = From(k)}
        BY <4>2
      <4>4. /\ delivered[k] = LineOf(From(k), Cardinality({j \in 1 .. k : From(j) = From(k)}))
            /\ \A j \in 1 .. k : From(j) <= From(k)
        BY <3>1 DEF IInv, DeviceGetsPrefixes
      <4> QED
        BY <4>2, <4>3, <4>4
    <3>2. CASE k = n
      <4>1. From(k)' = c /\ delivered'[k] = line
        BY <2>7, <2>9, <3>2 DEF From
      <4>2. {j \in 1 .. k : From(j)' = From(k)'} = {j \in 1 .. n : delivered'[j][1][1] = c}
        BY <3>2, <4>1 DEF From
      <4>3. \A j \in 1 .. k : From(j)' <= c
        <5>1. \A j \in 1 .. Len(delivered) : From(j) <= c
          BY <1>3, <1>4, <2>13 DEF UpTo
        <5> QED
          BY <1>4, <2>8, <2>9, <3>2, <4>1, <5>1
      <4> QED
        BY <2>10, <4>1, <4>2, <4>3 DEF line
    <3> QED
      BY <2>8, <3>1, <3>2
  <2> QED
    BY <1>6, <1>7, <1>8, <2>11, <2>12, <2>14, <2>15 DEF IInv
<1> QED
  BY <1>9, <1>10

--------------------------------------------------------------------------------
(* The theorems.                                                           *)

LEMMA AtStart == Init => IInv
<1> SUFFICES ASSUME Init
             PROVE  IInv
  OBVIOUS
<1>1. Len(<<>>) = 0 /\ \A S : <<>> \in Seq(S)
  BY EmptySeq
<1>2. /\ 0 \in 0 .. MaxClients /\ 0 \in 0 .. SocketCap /\ 0 <= MaxSent
      /\ 0 \in 0 .. 0 /\ 1 .. 0 = {}
  BY BridgeConstants
<1>3. TypeOK
  BY <1>1, <1>2 DEF Init, TypeOK
<1>4. OneCentral
  BY DEF Init, OneCentral, NoClient
<1>5. InStep
  BY <1>1, <1>2 DEF Init, InStep, Numbered
<1>6. Sessions /\ Leftovers /\ DeviceGetsPrefixes /\ StreamedInOrder
  BY <1>1, <1>2
     DEF Init, Sessions, Leftovers, DeviceGetsPrefixes, StreamedInOrder, UnbrokenRuns,
         LeftoversFirst
<1> QED
  BY <1>3, <1>4, <1>5, <1>6 DEF IInv

LEMMA TurnsKeep ==
  ASSUME IInv, Frame \/ NoneWaits \/ Received \/ TickEnds
  PROVE  IInv'
<1>1. UNCHANGED <<interrupted, bus, bridge, peers>>
  BY DEF Frame, NoneWaits, Received, TickEnds
<1>2. CASE Frame
  BY <1>1, <1>2, LoopGoesOn DEF Frame, Phases
<1>3. CASE NoneWaits
  <2>1. phase = "device" /\ phase' \in {"top", "receive"}
    BY <1>3 DEF NoneWaits
  <2>2. phase' = "receive" => clientFd # NoClient
    BY <1>3 DEF NoneWaits
  <2> QED
    BY <1>1, <2>1, <2>2, LoopGoesOn DEF Phases
<1>4. CASE Received
  <2>1. phase' = "deliver" /\ clientFd # NoClient
    BY <1>4 DEF Received, IInv, OneCentral
  <2> QED
    BY <1>1, <2>1, LoopGoesOn DEF Phases
<1>5. CASE TickEnds
  <2>1. phase' = "top" /\ drained = Len(sent)
    BY <1>5 DEF TickEnds, IInv, OneCentral
  <2> QED
    BY <1>1, <2>1, LoopGoesOn DEF Phases
<1> QED
  BY <1>2, <1>3, <1>4, <1>5

LEMMA EndsKeep ==
  ASSUME IInv, ServeEnds \/ ClientGone
  PROVE  IInv'
<1>1. CASE ServeEnds
  <2>1. /\ phase' = "ended"
        /\ UNCHANGED <<interrupted, delivered, sent, drained, streamed, accepted, peers>>
    BY <1>1 DEF ServeEnds
  <2>2. CASE clientFd = NoClient
    <3>1. UNCHANGED <<interrupted, bus, bridge, peers>>
      BY <1>1, <2>2 DEF ServeEnds, bus, bridge
    <3> QED
      BY <2>1, <3>1, LoopGoesOn DEF Phases
  <2>3. CASE clientFd # NoClient
    <3>1. DropClient
      BY <1>1, <2>3 DEF ServeEnds
    <3> QED
      BY <2>1, <2>3, <3>1, Dropping DEF peers
  <2> QED
    BY <2>2, <2>3
<1>2. CASE ClientGone
  <2>1. clientFd # NoClient
    BY <1>2 DEF ClientGone, IInv, OneCentral
  <2> QED
    BY <1>2, <2>1, Dropping DEF ClientGone, peers
<1> QED
  BY <1>1, <1>2

LEMMA PeersKeep ==
  ASSUME IInv, ClientConnects \/ ClientReads \/ Interrupt \/ \E c \in Clients : ClientCloses(c)
  PROVE  IInv'
<1>1. UNCHANGED <<phase, link, delivered, sent, drained, clientFd, inbuf, streaming,
                  streamed, accepted, wrote, wire>>
  BY DEF ClientConnects, ClientReads, Interrupt, ClientCloses, bus, bridge, session, peers
<1>2. /\ interrupted \in BOOLEAN /\ unread \in 0 .. SocketCap /\ closed \subseteq 1 .. connected
      /\ connected \in 0 .. MaxClients /\ connected \in Nat /\ MaxClients \in Nat
      /\ SocketCap \in Nat
  BY Sizes DEF IInv, TypeOK
<1>3. CASE ClientConnects
  <2>1. connected < MaxClients /\ connected' = connected + 1
        /\ UNCHANGED <<interrupted, unread, closed>>
    BY <1>3 DEF ClientConnects, bridge, session
  <2>2. /\ connected' \in 0 .. MaxClients /\ connected <= connected'
        /\ closed' \subseteq 1 .. connected'
    BY <1>2, <2>1
  <2> QED
    BY <1>1, <1>2, <2>1, <2>2, NothingMoves
<1>4. CASE ClientReads
  <2>1. unread > 0 /\ unread' = unread - 1 /\ UNCHANGED <<interrupted, connected, closed>>
    BY <1>4 DEF ClientReads, peers
  <2>2. unread' \in 0 .. SocketCap
    BY <1>2, <2>1
  <2> QED
    BY <1>1, <1>2, <2>1, <2>2, NothingMoves
<1>5. CASE Interrupt
  <2>1. interrupted' = TRUE /\ UNCHANGED <<unread, connected, closed>>
    BY <1>5 DEF Interrupt, bridge, session, peers
  <2> QED
    BY <1>1, <1>2, <2>1, NothingMoves
<1>6. CASE \E c \in Clients : ClientCloses(c)
  <2>1. PICK c \in Clients : ClientCloses(c)
    BY <1>6
  <2>2. /\ c \in 1 .. connected /\ closed' = closed \cup {c}
        /\ UNCHANGED <<interrupted, unread, connected>>
    BY <2>1 DEF ClientCloses, Held, bridge, session
  <2>3. closed' \subseteq 1 .. connected'
    BY <1>2, <2>2
  <2> QED
    BY <1>1, <1>2, <2>2, <2>3, NothingMoves
<1> QED
  BY <1>3, <1>4, <1>5, <1>6

\* The inductive invariant of the tick and the bus (ble_bridge_tick, drop_client,
\* sim_ble_host_drain, sim_ble_device_send).
THEOREM Invariant == Spec => []IInv
<1>1. ASSUME IInv, [Next]_vars
      PROVE  IInv'
  <2>1. CASE Frame \/ NoneWaits \/ Received \/ TickEnds
    BY <1>1, <2>1, TurnsKeep
  <2>2. CASE ServeEnds \/ ClientGone
    BY <1>1, <2>2, EndsKeep
  <2>3. CASE DeviceSends
    BY <1>1, <2>3, DeviceSendsKeeps
  <2>4. CASE DeviceDropsLink
    BY <1>1, <2>4, DeviceDropsLinkKeeps
  <2>5. CASE Accept
    BY <1>1, <2>5, AcceptKeeps
  <2>6. CASE Receive
    BY <1>1, <2>6, ReceiveKeeps
  <2>7. CASE Deliver
    BY <1>1, <2>7, DeliverKeeps
  <2>8. CASE Drain
    BY <1>1, <2>8, DrainKeeps
  <2>9. CASE Stream
    BY <1>1, <2>9, StreamKeeps
  <2>10. CASE StreamToClosed
    BY <1>1, <2>10, StreamToClosedKeeps
  <2>11. CASE ClientConnects \/ ClientReads \/ Interrupt \/ \E c \in Clients : ClientCloses(c)
    BY <1>1, <2>11, PeersKeep
  <2>12. CASE \E c \in Clients : ClientWrites(c)
    BY <1>1, <2>12, ClientWritesKeeps
  <2>13. CASE UNCHANGED vars
    <3>1. UNCHANGED <<interrupted, bus, bridge, peers>> /\ phase' = phase
      BY <2>13 DEF vars
    <3>2. phase \in Phases
      BY <1>1 DEF IInv, TypeOK, Phases
    <3> QED
      BY <1>1, <3>1, <3>2, LoopGoesOn DEF IInv, OneCentral
  <2> QED
    BY <1>1, <2>1, <2>2, <2>3, <2>4, <2>5, <2>6, <2>7, <2>8, <2>9, <2>10, <2>11, <2>12, <2>13
       DEF Next, Device, Tick, Peers
<1> QED
  BY <1>1, AtStart, PTL DEF Spec

\* Type correctness: the tick touches a client only while it has one, and takes off
\* the listen queue only those that wait.
THEOREM TypeCorrect == Spec => []TypeOK
<1>1. IInv => TypeOK
  BY DEF IInv
<1> QED
  BY <1>1, Invariant, PTL

\* The device gets whole lines of one client each, client after client and each from
\* its first line, however recv cuts them and whenever a client or the link goes
\* (ble_bridge_tick, drop_client, sim_ble_device_drop_link).
THEOREM DeviceReadsPrefixes == Spec => []DeviceGetsPrefixes
<1>1. IInv => DeviceGetsPrefixes
  BY DEF IInv
<1> QED
  BY <1>1, Invariant, PTL

\* What the clients get of the device is in order, nothing twice and nothing left
\* out to one client, and leftovers go to the next client that has one full tick.
THEOREM ClientsGetInOrder == Spec => []StreamedInOrder
<1>1. IInv => StreamedInOrder
  BY DEF IInv
<1> QED
  BY <1>1, Invariant, PTL

===============================================================================
