------------------------- MODULE NativeFirmware_proofs -------------------------
(***************************************************************************)
(* Proofs about NativeFirmware, for any number of connections, commands    *)
(* and loop iterations, and any settings.  Each of the three components    *)
(* has its part of the inductive invariant, and each of its operations is  *)
(* shown to keep that part on its own.                                     *)
(***************************************************************************)
EXTENDS NativeFirmware, SequenceTheorems, TLAPS

--------------------------------------------------------------------------------
(* The settings.                                                           *)

LEMMA PutIsReal ==
  ASSUME NEW h \in Handles, NEW k \in Keys, NEW v \in Values
  PROVE  [handle |-> h, key |-> k, value |-> v] # NoPut
  BY DEF NoPut

LEMMA EmptySettings == Empty \in Settings
  BY DEF Empty, Settings

\* What save() leaves of a copy is settings, and nothing that is not in the copy but
\* the first digits of a value.
LEMMA FilesAreSettings ==
  ASSUME NEW copy \in Settings, NEW written \in Files(copy)
  PROVE  written \in Settings
<1>1. \A value : Cut(value) \subseteq Values \cup {Absent}
  BY Zenon DEF Cut
<1>2. PICK last \in Keys : \E end \in Cut(copy[last]) :
        written = [k \in Keys |-> IF k < last THEN copy[k] ELSE IF k = last THEN end ELSE Absent]
  BY Zenon DEF Files
<1>3. PICK end \in Cut(copy[last]) :
        written = [k \in Keys |-> IF k < last THEN copy[k] ELSE IF k = last THEN end ELSE Absent]
  BY <1>2
<1>4. end \in Values \cup {Absent}
  BY <1>1
<1>5. QED
  BY <1>3, <1>4 DEF Settings

LEMMA PrefInitHolds == PrefInit => PrefInv
  BY EmptySettings
     DEF PrefInit, PrefInv, PrefTypeOK, StoredSurvives, CopiesAgree, Changed, Empty

LEMMA BeginAllKeeps ==
  ASSUME PrefInv, put = NoPut, NEW readOnly, BeginAll(readOnly)
  PROVE  PrefInv'
<1>1. PrefTypeOK'
  BY DEF PrefInv, PrefTypeOK, BeginAll
<1>2. StoredSurvives'
  BY DEF PrefInv, StoredSurvives, BeginAll
<1>3. CopiesAgree'
  BY DEF PrefInv, PrefTypeOK, StoredSurvives, CopiesAgree, Changed, BeginAll
<1>4. QED
  BY <1>1, <1>2, <1>3 DEF PrefInv

LEMMA PutKeeps ==
  ASSUME PrefInv, put = NoPut,
         NEW h \in Handles, NEW k \in Keys, NEW v \in Values, Put(h, k, v)
  PROVE  PrefInv' /\ put' # NoPut
<1>1. /\ put' = [handle |-> h, key |-> k, value |-> v] /\ put' # NoPut
      /\ put'.handle = h /\ put'.key = k /\ put'.value = v
  BY PutIsReal DEF Put
<1>2. kv \in [Handles -> Settings] /\ kv' = [kv EXCEPT ![h][k] = v]
  BY DEF PrefInv, PrefTypeOK, Put
<1>3. PrefTypeOK'
  <2>1. kv' \in [Handles -> Settings]
    BY <1>2 DEF Settings
  <2>2. QED
    BY <1>1, <2>1, EmptySettings DEF PrefInv, PrefTypeOK, Put
<1>4. StoredSurvives'
  BY <1>1 DEF StoredSurvives
<1>5. CopiesAgree'
  <2>1. \A g \in Handles : \A q \in Keys : g # h \/ q # k => kv'[g][q] = kv[g][q]
    BY <1>2 DEF Settings
  <2>2. kv'[h][k] = v
    BY <1>2 DEF Settings
  <2>3. QED
    BY <1>1, <2>1, <2>2 DEF PrefInv, PrefTypeOK, CopiesAgree, Changed, Put
<1>6. QED
  BY <1>1, <1>3, <1>4, <1>5 DEF PrefInv

LEMMA PutFailsKeeps ==
  ASSUME PrefInv, put = NoPut,
         NEW h \in Handles, NEW k \in Keys, NEW v \in Values, PutFails(h, k, v)
  PROVE  PrefInv' /\ put' = NoPut
<1>1. kv \in [Handles -> Settings] /\ kv' = [kv EXCEPT ![h][k] = v]
  BY DEF PrefInv, PrefTypeOK, PutFails
<1>2. /\ stale \in [Handles -> SUBSET Keys]
      /\ stale' = [stale EXCEPT ![h] = stale[h] \cup {k}]
  BY DEF PrefInv, PrefTypeOK, PutFails
<1>3. PrefTypeOK'
  <2>1. kv' \in [Handles -> Settings]
    BY <1>1 DEF Settings
  <2>2. stale' \in [Handles -> SUBSET Keys]
    BY <1>2
  <2>3. QED
    BY <2>1, <2>2 DEF PrefInv, PrefTypeOK, PutFails
<1>4. StoredSurvives'
  BY DEF PrefInv, StoredSurvives, PutFails
<1>5. CopiesAgree'
  <2>1. \A g \in Handles : \A q \in Keys : g # h \/ q # k => kv'[g][q] = kv[g][q]
    BY <1>1 DEF Settings
  <2>2. /\ \A g \in Handles : stale[g] \subseteq stale'[g]
        /\ k \in stale'[h]
    BY <1>2
  <2>3. QED
    BY <2>1, <2>2 DEF PrefInv, PrefTypeOK, CopiesAgree, Changed, PutFails
<1>6. QED
  BY <1>3, <1>4, <1>5 DEF PrefInv, PutFails

LEMMA SavedKeeps ==
  ASSUME PrefInv, Saved
  PROVE  PrefInv' /\ put # NoPut /\ put' = NoPut
<1> DEFINE h == put.handle
           k == put.key
           old == stale[h] \ {k}
<1>1. /\ h \in writable /\ h \in Handles /\ k \in Keys /\ put.value \in Values
      /\ kv[h][k] = put.value
  BY DEF PrefInv, PrefTypeOK, CopiesAgree, Saved
<1>w. PICK written \in Files(kv[h]) :
        /\ file' = written
        /\ spoiled' = old \cup {q \in Keys : written[q] # kv[h][q]}
        /\ stale' = [g \in Handles |-> IF g = h THEN old ELSE stale[g] \cup {k}]
  BY DEF Saved
<1>2. /\ stored' = [stored EXCEPT ![k] = kv[h][k]]
      /\ put' = NoPut /\ put # NoPut /\ kv' = kv /\ writable' = writable
  BY <1>1 DEF Saved
<1>3. /\ kv \in [Handles -> Settings] /\ stored \in [Keys -> Values \cup {Absent}]
      /\ stale \in [Handles -> SUBSET Keys]
  BY DEF PrefInv, PrefTypeOK, Settings
<1>4. PrefTypeOK'
  <2>1. stored' \in Settings
    BY <1>1, <1>2, <1>3 DEF Settings
  <2>2. stale' \in [Handles -> SUBSET Keys] /\ spoiled' \subseteq Keys
    BY <1>1, <1>w, <1>3
  <2>3. file' \in Settings
    BY <1>1, <1>w, <1>3, FilesAreSettings
  <2>4. QED
    BY <1>2, <1>3, <2>1, <2>2, <2>3 DEF PrefInv, PrefTypeOK
<1>5. ASSUME NEW g \in writable, NEW q \in Keys, q \notin stale'[g]
      PROVE  kv[g][q] = stored'[q]
  <2>1. g \in Handles
    BY DEF PrefInv, PrefTypeOK
  <2>2. CASE q = k
    <3>1. g = h
      BY <1>w, <1>5, <2>1, <2>2
    <3>2. QED
      BY <1>2, <1>3, <2>2, <3>1
  <2>3. CASE q # k
    <3>1. q \notin stale[g]
      BY <1>w, <1>5, <2>1, <2>3
    <3>2. kv[g][q] = stored[q]
      BY <2>3, <3>1 DEF PrefInv, CopiesAgree, Changed
    <3>3. QED
      BY <1>2, <1>3, <2>3, <3>2
  <2>4. QED
    BY <2>2, <2>3
<1>6. StoredSurvives'
  <2>1. ASSUME NEW q \in Keys, q \notin spoiled'
        PROVE  file'[q] = stored'[q]
    <3>1. file'[q] = kv[h][q]
      BY <1>w, <2>1
    <3>2. q \notin stale'[h]
      BY <1>1, <1>w, <2>1
    <3>3. QED
      BY <1>1, <1>5, <3>1, <3>2
  <2>2. QED
    BY <2>1 DEF StoredSurvives
<1>7. CopiesAgree'
  BY <1>2, <1>5 DEF CopiesAgree
<1>8. QED
  BY <1>2, <1>4, <1>6, <1>7 DEF PrefInv

LEMMA MemoryLostKeeps ==
  ASSUME PrefInv, MemoryLost
  PROVE  PrefInv' /\ put' = NoPut
<1>1. file' \in Settings /\ spoiled' \subseteq Keys
  <2>1. CASE put = NoPut
    BY <2>1 DEF PrefInv, PrefTypeOK, MemoryLost
  <2>2. CASE put # NoPut
    <3>1. kv[put.handle] \in Settings
      BY <2>2 DEF PrefInv, PrefTypeOK, CopiesAgree
    <3>2. QED
      BY <2>2, <3>1, EmptySettings, FilesAreSettings DEF MemoryLost
  <2>3. QED
    BY <2>1, <2>2
<1>2. StoredSurvives'
  BY DEF PrefInv, StoredSurvives, MemoryLost
<1>3. QED
  BY <1>1, <1>2, EmptySettings DEF PrefInv, PrefTypeOK, CopiesAgree, MemoryLost

LEMMA SettingsKept ==
  ASSUME PrefInv, UNCHANGED prefVars
  PROVE  PrefInv'
  BY DEF PrefInv, PrefTypeOK, StoredSurvives, CopiesAgree, Changed, prefVars

--------------------------------------------------------------------------------
(* The server.                                                             *)

Connections == [to : {"us", "answered", "reset", "other", "nobody"}, sent : 0 .. Parts,
                lengthy : BOOLEAN, closed : BOOLEAN, late : BOOLEAN]

\* The connections are as many as were made, and what waits or was handled is one.
LEMMA HttpShape ==
  ASSUME HttpTypeOK
  PROVE  /\ made \in Nat /\ made <= MaxConns /\ MaxConns \in Nat
         /\ conn \in [1 .. made -> Connections] /\ DOMAIN conn = 1 .. made
         /\ conn \in Seq(Connections) /\ Len(conn) = made
         /\ \A i \in DOMAIN backlog : backlog[i] \in 1 .. made
         /\ \A i \in DOMAIN handled :
              handled[i].conn \in 1 .. made /\ handled[i].parts \in 1 .. Parts
<1>1. made \in Nat /\ made <= MaxConns /\ MaxConns \in Nat
  BY HttpConstants DEF HttpTypeOK
<1>2. conn \in [1 .. made -> Connections]
  BY DEF HttpTypeOK, Connections
<1>3. conn \in Seq(Connections) /\ Len(conn) = made
  BY <1>1, <1>2
<1>4. \A i \in DOMAIN backlog : backlog[i] \in 1 .. made
  BY DEF HttpTypeOK
<1>5. \A i \in DOMAIN handled :
        handled[i].conn \in 1 .. made /\ handled[i].parts \in 1 .. Parts
  <2> DEFINE Request == [conn : 1 .. made, parts : 1 .. Parts]
  <2>1. handled \in Seq(Request)
    BY DEF HttpTypeOK
  <2>2. \A r \in Request : r.conn \in 1 .. made /\ r.parts \in 1 .. Parts
    OBVIOUS
  <2> HIDE DEF Request
  <2>3. QED
    BY <2>1, <2>2
<1>6. QED
  BY <1>1, <1>2, <1>3, <1>4, <1>5

LEMMA HttpInitHolds == HttpInit => HttpInv
<1> SUFFICES ASSUME HttpInit PROVE HttpInv
  OBVIOUS
<1>1. HttpTypeOK
  <2>1. conn \in [1 .. made -> Connections]
    BY DEF HttpInit
  <2>2. backlog \in Seq(1 .. made) /\ handled \in Seq([conn : 1 .. made, parts : 1 .. Parts])
    BY EmptySeq DEF HttpInit
  <2>3. made \in 0 .. MaxConns /\ current \in 0 .. made /\ taken \in 0 .. Parts
    BY HttpConstants DEF HttpInit, Parts
  <2>4. QED
    BY <2>1, <2>2, <2>3 DEF HttpInit, HttpTypeOK, Connections
<1>2. InOrder /\ RequestsHandled
  BY DEF HttpInit, InOrder, RequestsHandled
<1>3. QED
  BY <1>1, <1>2 DEF HttpInv

\* What keeps the requests that were handled, and what of them it must not touch.
LEMMA HandledKept ==
  ASSUME HttpInv, UNCHANGED handled,
         \A i \in DOMAIN handled : conn'[handled[i].conn] = conn[handled[i].conn]
  PROVE  RequestsHandled'
  BY DEF HttpInv, RequestsHandled

\* A listener that closes resets what waits at it, and the process that dies with
\* it, what it serves; a new one may be opened.
LEMMA ClosingKeeps ==
  ASSUME HttpInv, NEW cs,
         \/ cs = Waiting /\ UNCHANGED <<current, taken>>
         \/ cs = Waiting \cup ({current} \ {0}) /\ current' = 0 /\ taken' = 0,
         Reset(cs), backlog' = <<>>, UNCHANGED <<foreign, made, handled>>,
         listening' \in BOOLEAN, status' \in {-1, 0, 1},
         listening' => status' # -1 /\ ~foreign
  PROVE  HttpInv'
<1> USE HttpShape
<1>1. HttpTypeOK'
  <2>1. conn' \in [1 .. made -> Connections]
    <3>1. conn \in [1 .. made -> Connections]
      BY DEF HttpInv
    <3>2. \A c \in 1 .. made : [conn[c] EXCEPT !.to = "reset"] \in Connections
      BY <3>1 DEF Connections
    <3>3. QED
      BY <3>1, <3>2 DEF Reset
  <2>2. backlog' \in Seq(1 .. made)
    BY EmptySeq
  <2>3. current' \in 0 .. made /\ taken' \in 0 .. Parts
    BY DEF HttpInv, HttpTypeOK, Parts
  <2>4. QED
    BY <2>1, <2>2, <2>3 DEF HttpInv, HttpTypeOK, Connections
<1>2. \A i \in DOMAIN handled : handled[i].conn \notin cs
  BY DEF HttpInv, InOrder, Waiting
<1>3. /\ \A i \in DOMAIN handled : conn'[handled[i].conn] = conn[handled[i].conn]
      /\ current' # 0 => current' = current /\ taken' = taken /\ conn'[current] = conn[current]
  <2>1. \A c \in DOMAIN conn : c \notin cs => conn'[c] = conn[c]
    BY DEF Reset
  <2>2. \A i \in DOMAIN handled : handled[i].conn \in DOMAIN conn
    BY DEF HttpInv
  <2>3. current # 0 => current \in DOMAIN conn /\ current \notin Waiting
    BY DEF HttpInv, HttpTypeOK, InOrder, Waiting
  <2>4. current' # 0 => current' = current /\ taken' = taken /\ current # 0 /\ cs = Waiting
    OBVIOUS
  <2>5. current' # 0 => conn'[current] = conn[current]
    BY <2>1, <2>3, <2>4
  <2>6. QED
    BY <1>2, <2>1, <2>2, <2>4, <2>5
<1>4. InOrder'
  BY <1>3 DEF HttpInv, InOrder
<1>5. QED
  BY <1>1, <1>3, <1>4, HandledKept DEF HttpInv

LEMMA ServerClosesKeeps ==
  ASSUME HttpInv, Stop \/ BootReset \/ Begin
  PROVE  HttpInv'
<1>1. /\ Reset(Waiting) /\ backlog' = <<>> /\ UNCHANGED <<foreign, made, handled, current, taken>>
      /\ listening' \in BOOLEAN /\ status' \in {-1, 0, 1}
      /\ listening' => status' # -1 /\ ~foreign
  <2>1. CASE Stop
    BY <2>1 DEF HttpInv, HttpTypeOK, Stop, serving
  <2>2. CASE BootReset
    BY <2>2 DEF BootReset, serving
  <2>3. CASE Begin
    <3>1. listening' = ~foreign /\ status' = (IF foreign THEN 0 ELSE 1)
      BY <2>3 DEF Begin
    <3>2. listening' \in BOOLEAN
      BY <3>1, Zenon
    <3>3. status' \in {-1, 0, 1} /\ status' # -1
      BY <3>1
    <3>4. listening' => ~foreign
      BY <3>1, Zenon
    <3>5. QED
      BY <2>3, <3>2, <3>3, <3>4 DEF Begin, serving
  <2>4. QED
    BY <2>1, <2>2, <2>3
<1>2. QED
  BY <1>1, ClosingKeeps

LEMMA ProcessDiesKeeps ==
  ASSUME HttpInv, ProcessDies
  PROVE  HttpInv'
  BY ClosingKeeps DEF ProcessDies

\* A new connection is the last one, wherever it ends up.
LEMMA ConnectKeeps ==
  ASSUME HttpInv, NEW sent \in 0 .. Parts, NEW lengthy \in BOOLEAN, NEW closed \in BOOLEAN,
         Connect(sent, lengthy, closed)
  PROVE  HttpInv'
<1> DEFINE new == Connection(Reached, sent, lengthy, closed)
<1>1. new \in Connections /\ (listening => new.to = "us")
  BY DEF Connection, Connections, Reached
<1>2. /\ conn' = Append(conn, new) /\ made' = made + 1 /\ made < MaxConns
      /\ backlog' = IF listening THEN Append(backlog, made') ELSE backlog
      /\ UNCHANGED <<listening, status, stopped, foreign, current, taken, handled>>
  BY DEF Connect, listener, serving
<1> HIDE DEF new
<1>3. /\ made \in Nat /\ made' \in 1 .. MaxConns
      /\ conn \in Seq(Connections) /\ Len(conn) = made
  BY <1>2, HttpShape DEF HttpInv
<1>4. /\ conn' \in [1 .. made' -> Connections]
      /\ conn'[made'] = new
      /\ \A c \in 1 .. made : conn'[c] = conn[c]
  <2>1. /\ conn' \in Seq(Connections) /\ Len(conn') = made'
        /\ conn'[made'] = new
        /\ \A c \in 1 .. made : conn'[c] = conn[c]
    BY <1>1, <1>2, <1>3, AppendProperties
  <2>2. QED
    BY <2>1, LenProperties
<1>5. HttpTypeOK'
  <2>1. backlog' \in Seq(1 .. made')
    <3>1. backlog \in Seq(1 .. made')
      <4>1. backlog \in Seq(1 .. made) /\ 1 .. made \subseteq 1 .. made'
        BY <1>2, <1>3 DEF HttpInv, HttpTypeOK
      <4>2. QED
        BY <4>1, SeqMonotonic
    <3>2. made' \in 1 .. made'
      BY <1>3
    <3>3. QED
      BY <1>2, <3>1, <3>2, AppendProperties
  <2>2. handled' \in Seq([conn : 1 .. made', parts : 1 .. Parts])
    <3> DEFINE Request(n) == [conn : 1 .. n, parts : 1 .. Parts]
    <3>1. Request(made) \subseteq Request(made')
      BY <1>2, <1>3
    <3>2. handled \in Seq(Request(made))
      BY DEF HttpInv, HttpTypeOK
    <3>3. handled \in Seq(Request(made'))
      <4> HIDE DEF Request
      <4>1. QED
        BY <3>1, <3>2, SeqMonotonic
    <3>4. QED
      BY <1>2, <3>3
  <2>3. QED
    BY <1>2, <1>3, <1>4, <2>1, <2>2 DEF HttpInv, HttpTypeOK, Connections
<1>6. InOrder'
  <2>1. \A i \in DOMAIN backlog' :
          \/ i \in DOMAIN backlog /\ backlog'[i] = backlog[i] /\ backlog[i] \in 1 .. made
          \/ /\ listening /\ i = Len(backlog) + 1 /\ backlog'[i] = made'
             /\ \A j \in DOMAIN backlog' : i < j => FALSE
    <3>1. backlog \in Seq(1 .. made) /\ backlog \in Seq(Nat)
      BY <1>3, SeqMonotonic DEF HttpInv, HttpTypeOK
    <3>2. CASE listening
      <4>1. /\ Len(backlog') = Len(backlog) + 1
            /\ \A i \in 1 .. Len(backlog) : backlog'[i] = backlog[i]
            /\ backlog'[Len(backlog) + 1] = made'
            /\ DOMAIN backlog' = 1 .. Len(backlog')
            /\ DOMAIN backlog = 1 .. Len(backlog) /\ Len(backlog) \in Nat
        BY <1>2, <1>3, <3>1, <3>2, AppendProperties, LenProperties
      <4>2. QED
        <5> SUFFICES ASSUME NEW i \in 1 .. Len(backlog')
                     PROVE  \/ i \in DOMAIN backlog /\ backlog'[i] = backlog[i] /\ backlog[i] \in 1 .. made
                            \/ i = Len(backlog) + 1 /\ backlog'[i] = made'
          BY <3>2, <4>1
        <5>1. CASE i \in 1 .. Len(backlog)
          BY <3>1, <4>1, <5>1, ElementOfSeq
        <5>2. CASE i = Len(backlog) + 1
          BY <4>1, <5>2
        <5>3. QED
          BY <4>1, <5>1, <5>2
    <3>3. CASE ~listening
      BY <1>2, <3>1, <3>3, ElementOfSeq, LenProperties
    <3>4. QED
      BY <3>2, <3>3
  <2>2. \A i \in DOMAIN backlog' : current < backlog'[i] /\ conn'[backlog'[i]].to = "us"
    BY <1>1, <1>2, <1>3, <1>4, <2>1 DEF HttpInv, HttpTypeOK, InOrder
  <2>3. \A i, j \in DOMAIN backlog' : i < j => backlog'[i] < backlog'[j]
    BY <1>2, <1>3, <2>1 DEF HttpInv, InOrder
  <2>4. current # 0 => conn'[current].to = "us" /\ taken <= conn'[current].sent
    BY <1>2, <1>3, <1>4 DEF HttpInv, HttpTypeOK, InOrder
  <2>5. \A i \in DOMAIN handled :
          /\ conn'[handled[i].conn].to # "us"
          /\ current # 0 => handled[i].conn < current
          /\ \A j \in DOMAIN backlog' : handled[i].conn < backlog'[j]
    BY <1>2, <1>3, <1>4, <2>1, HttpShape DEF HttpInv, InOrder
  <2>6. QED
    BY <1>2, <2>2, <2>3, <2>4, <2>5 DEF InOrder
<1>7. \A i \in DOMAIN handled : conn'[handled[i].conn] = conn[handled[i].conn]
  BY <1>4, HttpShape DEF HttpInv
<1>8. QED
  BY <1>2, <1>5, <1>6, <1>7, HandledKept DEF HttpInv

\* A client that writes or closes touches no connection that was handled.
LEMMA ClientKeeps ==
  ASSUME HttpInv, ClientSends \/ ClientCloses
  PROVE  HttpInv'
<1>1. PICK c \in 1 .. made :
        /\ conn[c].to = "us"
        /\ \/ ~conn[c].closed /\ conn[c].sent < Parts /\ conn' = [conn EXCEPT ![c].sent = @ + 1]
           \/ conn' = [conn EXCEPT ![c].closed = TRUE]
        /\ UNCHANGED <<listening, status, foreign, made, backlog, current, taken, handled>>
  BY HttpShape DEF HttpInv, ClientSends, ClientCloses, listener, serving
<1>2. conn \in [1 .. made -> Connections] /\ conn[c].sent \in 0 .. Parts
  BY HttpShape DEF HttpInv, Connections
<1>3. /\ conn' \in [1 .. made -> Connections]
      /\ \A d \in 1 .. made : d # c => conn'[d] = conn[d]
      /\ conn'[c].to = "us" /\ conn'[c].sent >= conn[c].sent
  <2>1. conn[c] \in Connections
    BY <1>2
  <2>2. CASE ~conn[c].closed /\ conn[c].sent < Parts /\ conn' = [conn EXCEPT ![c].sent = @ + 1]
    <3>1. conn[c].sent + 1 \in 0 .. Parts
      BY <1>2, <2>2 DEF Parts
    <3>2. [conn[c] EXCEPT !.sent = @ + 1] \in Connections
      BY <2>1, <3>1 DEF Connections
    <3>3. conn' = [conn EXCEPT ![c] = [conn[c] EXCEPT !.sent = @ + 1]]
      BY <2>2
    <3>4. [conn[c] EXCEPT !.sent = @ + 1].to = conn[c].to
          /\ [conn[c] EXCEPT !.sent = @ + 1].sent = conn[c].sent + 1
      BY <2>1 DEF Connections
    <3>5. QED
      BY <1>1, <1>2, <3>2, <3>3, <3>4
  <2>3. CASE conn' = [conn EXCEPT ![c].closed = TRUE]
    <3>1. [conn[c] EXCEPT !.closed = TRUE] \in Connections
      BY <2>1 DEF Connections
    <3>2. conn' = [conn EXCEPT ![c] = [conn[c] EXCEPT !.closed = TRUE]]
      BY <2>3
    <3>3. [conn[c] EXCEPT !.closed = TRUE].to = conn[c].to
          /\ [conn[c] EXCEPT !.closed = TRUE].sent = conn[c].sent
      BY <2>1 DEF Connections
    <3>4. QED
      BY <1>1, <1>2, <3>1, <3>2, <3>3
  <2>4. QED
    BY <1>1, <2>2, <2>3
<1>4. HttpTypeOK'
  BY <1>1, <1>3 DEF HttpInv, HttpTypeOK, Connections
<1>5. \A i \in DOMAIN handled : conn'[handled[i].conn] = conn[handled[i].conn]
  BY <1>1, <1>3, HttpShape DEF HttpInv, InOrder
<1>6. InOrder'
  <2>1. \A i \in DOMAIN backlog : conn'[backlog[i]].to = "us"
    BY <1>1, <1>3, HttpShape DEF HttpInv, InOrder
  <2>2. current # 0 => conn'[current].to = "us" /\ taken <= conn'[current].sent
    <3>1. current # 0 => current \in 1 .. made /\ conn[current].sent \in Nat
      BY <1>2, HttpShape DEF HttpInv, HttpTypeOK, Connections
    <3>2. taken \in Nat /\ conn'[c].sent \in Nat
      <4>1. conn'[c] \in Connections
        BY <1>1, <1>3
      <4>2. QED
        BY <4>1 DEF HttpInv, HttpTypeOK, Connections, Parts
    <3>3. QED
      BY <1>1, <1>2, <1>3, <3>1, <3>2 DEF HttpInv, InOrder
  <2>3. QED
    BY <1>1, <1>5, <2>1, <2>2 DEF HttpInv, InOrder
<1>7. QED
  BY <1>1, <1>4, <1>5, <1>6, HandledKept DEF HttpInv

LEMMA PortChangesKeeps ==
  ASSUME HttpInv, PortChanges
  PROVE  HttpInv'
  BY DEF HttpInv, HttpTypeOK, InOrder, RequestsHandled, PortChanges, listener, serving

LEMMA AcceptKeeps ==
  ASSUME HttpInv, current = 0, Accept
  PROVE  HttpInv'
<1>1. /\ backlog \in Seq(1 .. made) /\ backlog # <<>>
      /\ UNCHANGED <<listening, status, foreign, made, conn, handled>>
      /\ current' = Head(backlog) /\ backlog' = Tail(backlog) /\ taken' = 0
  BY DEF HttpInv, HttpTypeOK, Accept, listener
<1>2. /\ Len(backlog) \in Nat /\ 1 \in DOMAIN backlog
      /\ DOMAIN backlog' = 1 .. Len(backlog) - 1
      /\ \A i \in DOMAIN backlog' : i + 1 \in DOMAIN backlog /\ backlog'[i] = backlog[i + 1]
      /\ current' = backlog[1]
      /\ current' \in 1 .. made /\ backlog' \in Seq(1 .. made)
  <2>1. Len(backlog) \in Nat /\ Len(backlog) # 0 /\ DOMAIN backlog = 1 .. Len(backlog)
    BY <1>1, EmptySeq, LenProperties
  <2>2. /\ current' = backlog[1] /\ current' \in 1 .. made /\ backlog' \in Seq(1 .. made)
        /\ Len(backlog') = Len(backlog) - 1
        /\ \A i \in 1 .. Len(backlog') : backlog'[i] = backlog[i + 1]
    <3>1. /\ Head(backlog) \in 1 .. made /\ Tail(backlog) \in Seq(1 .. made)
          /\ Len(Tail(backlog)) = Len(backlog) - 1
          /\ \A i \in 1 .. Len(Tail(backlog)) : Tail(backlog)[i] = backlog[i + 1]
      BY <1>1, HeadTailProperties
    <3>2. Head(backlog) = backlog[1]
      BY <1>1
    <3>3. QED
      BY <1>1, <3>1, <3>2
  <2>3. DOMAIN backlog' = 1 .. Len(backlog) - 1
    BY <2>2, LenProperties
  <2>4. QED
    BY <2>1, <2>2, <2>3
<1>3. HttpTypeOK'
  BY <1>1, <1>2 DEF HttpInv, HttpTypeOK, Parts
<1>4. InOrder'
  <2>1. \A i \in DOMAIN backlog' : 1 < i + 1
    BY <1>2
  <2>2. \A i \in DOMAIN backlog' : current' < backlog'[i] /\ conn[backlog'[i]].to = "us"
    BY <1>2, <2>1 DEF HttpInv, InOrder
  <2>3. \A i, j \in DOMAIN backlog' : i < j => backlog'[i] < backlog'[j]
    BY <1>2 DEF HttpInv, InOrder
  <2>4. conn[current'].to = "us" /\ taken' <= conn[current'].sent
    <3>1. conn[current'] \in Connections
      BY <1>2, HttpShape DEF HttpInv
    <3>2. QED
      BY <1>1, <1>2, <3>1 DEF HttpInv, InOrder, Connections, Parts
  <2>5. \A i \in DOMAIN handled :
          /\ conn[handled[i].conn].to # "us"
          /\ handled[i].conn < current'
          /\ \A j \in DOMAIN backlog' : handled[i].conn < backlog'[j]
    BY <1>2 DEF HttpInv, InOrder
  <2>6. QED
    BY <1>1, <2>2, <2>3, <2>4, <2>5 DEF InOrder
<1>5. RequestsHandled'
  BY <1>1, HandledKept
<1>6. QED
  BY <1>3, <1>4, <1>5 DEF HttpInv

LEMMA ReceiveKeeps ==
  ASSUME HttpInv, Receive
  PROVE  HttpInv'
<1>1. /\ current \in 1 .. made /\ conn[current].sent \in 0 .. Parts /\ taken \in 0 .. Parts
  BY HttpShape DEF HttpInv, HttpTypeOK, Receive, Connections
<1>2. taken' \in 0 .. Parts /\ taken' <= conn[current].sent
  BY <1>1 DEF Receive, Parts
<1>3. QED
  BY <1>2 DEF HttpInv, HttpTypeOK, InOrder, RequestsHandled, Receive, listener

\* What becomes of a connection that is answered; the others stay as they are.
LEMMA AnsweredIsClosed ==
  ASSUME HttpInv, current # 0, Answered
  PROVE  /\ current \in 1 .. made
         /\ conn' \in [1 .. made -> Connections]
         /\ \A c \in 1 .. made : c # current => conn'[c] = conn[c]
         /\ conn'[current].to = "answered"
         /\ conn'[current].sent = conn[current].sent
         /\ conn'[current].lengthy = conn[current].lengthy
         /\ conn'[current].closed = conn[current].closed
         /\ ~Complete => conn[current].closed \/ conn'[current].late
<1>1. current \in 1 .. made /\ conn \in [1 .. made -> Connections]
  BY HttpShape DEF HttpInv, HttpTypeOK
<1> DEFINE late == ~Complete /\ ~conn[current].closed
           new == [conn[current] EXCEPT !.to = "answered", !.late = late]
<1>2. conn' = [conn EXCEPT ![current] = new]
  BY DEF Answered
<1>3. late \in BOOLEAN
  BY Zenon
<1>4. ~Complete => conn[current].closed \/ late
  BY Zenon
<1> HIDE DEF late
<1>5. conn[current] \in Connections
  BY <1>1
<1>6. /\ new \in Connections
      /\ new.to = "answered" /\ new.late = late /\ new.sent = conn[current].sent
      /\ new.lengthy = conn[current].lengthy /\ new.closed = conn[current].closed
  BY <1>3, <1>5 DEF Connections
<1> HIDE DEF new
<1>7. conn'[current] = new
  BY <1>1, <1>2
<1>8. /\ conn' \in [1 .. made -> Connections]
      /\ \A c \in 1 .. made : c # current => conn'[c] = conn[c]
  BY <1>1, <1>2, <1>6
<1>9. ~Complete => conn[current].closed \/ conn'[current].late
  BY <1>4, <1>6, <1>7
<1>10. QED
  BY <1>1, <1>6, <1>7, <1>8, <1>9

\* The requests that were handled before are not the one that is answered.
LEMMA EarlierKept ==
  ASSUME HttpInv, current # 0, Answered
  PROVE  /\ \A i \in DOMAIN handled : conn'[handled[i].conn] = conn[handled[i].conn]
         /\ \A i \in DOMAIN backlog : conn'[backlog[i]] = conn[backlog[i]]
<1>1. /\ \A i \in DOMAIN handled :
           handled[i].conn \in 1 .. made /\ handled[i].conn # current
      /\ \A i \in DOMAIN backlog : backlog[i] \in 1 .. made /\ backlog[i] # current
  <2>1. HttpTypeOK /\ InOrder
    BY DEF HttpInv
  <2>2. /\ \A i \in DOMAIN handled : handled[i].conn \in 1 .. made
        /\ \A i \in DOMAIN backlog : backlog[i] \in 1 .. made
        /\ current \in Int /\ made \in Nat
    BY <2>1, HttpShape DEF HttpTypeOK
  <2>3. /\ \A i \in DOMAIN handled : handled[i].conn < current
        /\ \A i \in DOMAIN backlog : current < backlog[i]
    BY <2>1 DEF InOrder
  <2> HIDE DEF HttpInv
  <2>4. QED
    BY <2>2, <2>3
<1>2. QED
  BY <1>1, AnsweredIsClosed

LEMMA CloseEmptyKeeps ==
  ASSUME HttpInv, CloseEmpty
  PROVE  HttpInv'
<1>1. current # 0 /\ Answered /\ UNCHANGED handled
  BY DEF CloseEmpty
<1>2. HttpTypeOK'
  BY <1>1, AnsweredIsClosed DEF HttpInv, HttpTypeOK, Connections, Answered, listener, Parts
<1>3. InOrder'
  <2>1. InOrder /\ current' = 0 /\ backlog' = backlog /\ handled' = handled
    BY <1>1 DEF HttpInv, Answered, listener
  <2>2. /\ \A i \in DOMAIN handled : conn'[handled[i].conn] = conn[handled[i].conn]
        /\ \A i \in DOMAIN backlog : conn'[backlog[i]] = conn[backlog[i]]
    BY <1>1, EarlierKept
  <2>3. \A i \in DOMAIN backlog : 0 < backlog[i]
    BY HttpShape DEF HttpInv, HttpTypeOK
  <2>4. QED
    BY <2>1, <2>2, <2>3 DEF InOrder
<1>4. RequestsHandled'
  BY <1>1, EarlierKept, HandledKept
<1>5. QED
  BY <1>2, <1>3, <1>4 DEF HttpInv

LEMMA HandleKeeps ==
  ASSUME HttpInv, Handle
  PROVE  /\ HttpInv'
         /\ Len(handled) \in Nat
         /\ DOMAIN handled' = 1 .. Len(handled) + 1 /\ DOMAIN handled = 1 .. Len(handled)
         /\ \A i \in DOMAIN handled : handled'[i] = handled[i]
         /\ handled'[Len(handled) + 1] = [conn |-> current, parts |-> taken]
<1> DEFINE Request == [conn : 1 .. made, parts : 1 .. Parts]
           r == [conn |-> current, parts |-> taken]
           n == Len(handled)
<1>1. current # 0 /\ Answered /\ taken > 0 /\ (Complete \/ GivesUp) /\ handled' = Append(handled, r)
  BY DEF Handle
<1>2. handled \in Seq(Request) /\ r \in Request
  <2>1. taken \in 1 .. Parts
    BY <1>1 DEF HttpInv, HttpTypeOK, Parts
  <2>2. QED
    BY <1>1, <2>1, AnsweredIsClosed DEF HttpInv, HttpTypeOK
<1>3. r.conn = current /\ r.parts = taken
  OBVIOUS
<1>4. \A q \in Request : q.conn \in 1 .. made
  OBVIOUS
<1> HIDE DEF Request, r
<1>5. /\ handled' \in Seq(Request) /\ n \in Nat
      /\ DOMAIN handled' = 1 .. n + 1 /\ DOMAIN handled = 1 .. n
      /\ \A i \in 1 .. n : handled'[i] = handled[i]
      /\ handled'[n + 1] = r
  BY <1>1, <1>2, AppendProperties, LenProperties
<1>6. HttpTypeOK'
  BY <1>1, <1>5, AnsweredIsClosed
     DEF HttpInv, HttpTypeOK, Connections, Answered, listener, Parts, Request
<1>7. \A i \in 1 .. n + 1 : i \in 1 .. n \/ i = n + 1
  BY <1>5
<1>8. InOrder'
  <2>1. \A i \in DOMAIN handled' :
          /\ conn'[handled'[i].conn].to # "us"
          /\ \A j \in DOMAIN backlog : handled'[i].conn < backlog[j]
    BY <1>1, <1>3, <1>5, <1>7, EarlierKept, AnsweredIsClosed DEF HttpInv, InOrder
  <2>2. backlog' = backlog /\ current' = 0
    BY <1>1 DEF Answered
  <2>3. /\ \A i \in DOMAIN backlog : current' < backlog[i] /\ conn'[backlog[i]].to = "us"
        /\ \A i, j \in DOMAIN backlog : i < j => backlog[i] < backlog[j]
    BY <1>1, <2>2, EarlierKept, HttpShape DEF HttpInv, InOrder
  <2>4. QED
    BY <2>1, <2>2, <2>3 DEF InOrder
<1>9. RequestsHandled'
  <2>1. \A i, j \in DOMAIN handled' : i < j => handled'[i].conn < handled'[j].conn
    BY <1>1, <1>3, <1>5, <1>7 DEF HttpInv, InOrder, RequestsHandled
  <2>2. ASSUME NEW i \in DOMAIN handled'
        PROVE  LET c == conn'[handled'[i].conn]
               IN  \/ handled'[i].parts = Parts \/ c.late \/ ~c.lengthy
                   \/ (c.closed /\ c.sent < Parts)
    <3>1. CASE i \in 1 .. n
      BY <1>1, <1>5, <3>1, EarlierKept DEF HttpInv, RequestsHandled
    <3>2. CASE i = n + 1
      <4>1. CASE Complete
        BY <1>1, <1>3, <1>5, <3>2, <4>1, AnsweredIsClosed DEF Complete
      <4>2. CASE ~Complete
        <5>1. taken = conn[current].sent /\ taken \in 0 .. Parts /\ taken # Parts
          BY <1>1, <4>2 DEF HttpInv, HttpTypeOK, GivesUp, Complete, Parts
        <5>2. conn'[current].sent < Parts
          BY <1>1, <5>1, AnsweredIsClosed DEF Parts
        <5>3. QED
          BY <1>1, <1>3, <1>5, <3>2, <4>2, <5>2, AnsweredIsClosed
      <4>3. QED
        BY <4>1, <4>2
    <3>3. QED
      BY <1>5, <1>7, <3>1, <3>2
  <2>3. QED
    BY <2>1, <2>2 DEF RequestsHandled
<1>10. QED
  BY <1>5, <1>6, <1>8, <1>9 DEF HttpInv, r

LEMMA ServerKept ==
  ASSUME HttpInv, UNCHANGED httpVars
  PROVE  HttpInv'
  BY DEF HttpInv, HttpTypeOK, InOrder, RequestsHandled, httpVars, listener, serving

--------------------------------------------------------------------------------
(* The firmware and its host: every action keeps the parts of the two shims *)

\* What a command is made of.
LEMMA IdleFields == Idle.op = "none" /\ Idle.stages = 0 /\ \A n \in Nat : Idle \in Cmds(n)
  BY DEF Idle, Cmds, Ops

LEMMA OpNames ==
  /\ {"none", "boot", "post", "steps", "serve"} \subseteq Ops
  /\ Lines \subseteq Ops /\ Levels \subseteq Ops
  /\ \A line \in Lines : line \notin Levels \cup {"none", "boot", "post", "steps", "serve"}
  /\ \A level \in Levels : level \notin Lines \cup {"none", "boot", "post", "steps", "serve"}
  BY FirmwareConstants DEF Ops

LEMMA CommandFields ==
  ASSUME NEW n \in Nat, NEW stages \in {0, 1},
         NEW op \in Ops
  PROVE  /\ Command(op, stages) \in Cmds(n)
         /\ Command(op, stages).op = op /\ Command(op, stages).stages = stages
         /\ Command(op, stages).conn = 0
<1> DEFINE named == [Idle EXCEPT !.op = op]
<1>1. Idle \in Cmds(n) /\ Idle.conn = 0
  BY DEF Idle, Cmds, Ops
<1>2. named \in Cmds(n) /\ named.op = op /\ named.conn = 0
  BY <1>1 DEF Cmds
<1>3. Command(op, stages) = [named EXCEPT !.stages = stages]
  BY DEF Command
<1> HIDE DEF named
<1>4. QED
  BY <1>2, <1>3 DEF Cmds

LEMMA RefusedFields ==
  LET refused == [Command("post", 0) EXCEPT !.ok = FALSE]
  IN  refused.op = "post" /\ refused.stages = 0 /\ refused.ok = FALSE
<1>1. Command("post", 0) \in Cmds(0) /\ Command("post", 0).op = "post"
      /\ Command("post", 0).stages = 0
  BY CommandFields, OpNames
<1>2. QED
  BY <1>1 DEF Cmds

LEMMA MoreConnections ==
  ASSUME NEW n \in Nat, NEW c \in Cmds(n)
  PROVE  c \in Cmds(n + 1)
  BY DEF Cmds

LEMMA InitHolds == Init => IInv
<1> SUFFICES ASSUME Init PROVE IInv
  OBVIOUS
<1>1. HttpInv /\ PrefInv
  BY HttpInitHolds, PrefInitHolds DEF Init
<1>2. TypeOK
  <2>1. left \in 0 .. Steps
    BY FirmwareConstants DEF Init
  <2>2. cmd \in Cmds(made)
    BY IdleFields DEF Init, HttpInit
  <2>3. bus \subseteq Lines \cup Levels /\ seen \in BOOLEAN
    BY DEF Init
  <2>4. QED
    BY <1>1, <2>1, <2>2, <2>3 DEF Init, TypeOK, HttpInit, PrefInit, HttpInv, PrefInv
<1>3. Control
  BY DEF Init, Control, HttpInit, Idle
<1>4. PressRuns /\ PostRuns
  BY FirmwareConstants DEF Init, PressRuns, PostRuns, Idle
<1>5. QED
  BY <1>1, <1>2, <1>3, <1>4 DEF IInv

LEMMA ServerStep ==
  ASSUME IInv, Next
  PROVE  HttpInv'
<1>0. HttpInv
  BY DEF IInv
<1>1. CASE Boot \/ Setup
  BY <1>0, <1>1, ServerClosesKeeps DEF Boot, Setup
<1>2. CASE ReleaseLine \/ RunSteps \/ PostRefused \/ PostTimesOut \/ Serve \/ ServeTick
  BY <1>0, <1>2, ServerKept DEF ReleaseLine, RunSteps, PostRefused, PostTimesOut, Serve, ServeTick
<1>3. CASE Post
  <2>1. PICK fits \in BOOLEAN : Connect(IF fits THEN Parts ELSE 0, TRUE, TRUE)
    BY <1>3 DEF Post
  <2>2. (IF fits THEN Parts ELSE 0) \in 0 .. Parts
    BY DEF Parts
  <2>3. QED
    BY <1>0, <2>1, <2>2, ConnectKeeps
<1>4. ASSUME NEW line \in Lines, Press(line)
      PROVE  HttpInv'
  BY <1>0, <1>4, ServerKept DEF Press
<1>5. ASSUME NEW level \in Levels, SetLevel(level)
      PROVE  HttpInv'
  BY <1>0, <1>5, ServerKept DEF SetLevel
<1>6. CASE Iterate
  <2>1. current = 0
    BY <1>6 DEF IInv, TypeOK, Iterate
  <2>2. QED
    BY <1>0, <1>6, <2>1, AcceptKeeps, ServerKept DEF Iterate
<1>7. CASE Reading
  BY <1>0, <1>7, ReceiveKeeps, CloseEmptyKeeps DEF Reading
<1>8. CASE Respond
  BY <1>0, <1>8, HandleKeeps DEF Respond
<1>9. CASE Rest
  BY <1>0, <1>9, ServerClosesKeeps, ServerKept DEF Rest
<1>10. CASE SaveEnds
  BY <1>0, <1>10, ServerKept DEF SaveEnds
<1>11. CASE Kill
  BY <1>0, <1>11, ProcessDiesKeeps DEF Kill
<1>12. CASE Others
  <2>1. ASSUME NEW lengthy \in BOOLEAN, Connect(0, lengthy, FALSE)
        PROVE  HttpInv'
    <3>1. 0 \in 0 .. Parts /\ FALSE \in BOOLEAN
      BY DEF Parts
    <3>2. QED
      BY <1>0, <2>1, <3>1, ConnectKeeps
  <2>2. QED
    BY <1>0, <1>12, <2>1, ClientKeeps, PortChangesKeeps DEF Others, ClientConnects
<1>13. QED
  BY <1>1, <1>2, <1>3, <1>4, <1>5, <1>6, <1>7, <1>8, <1>9, <1>10, <1>11, <1>12 DEF Next

LEMMA SettingsStep ==
  ASSUME IInv, Next
  PROVE  PrefInv'
<1>0. PrefInv
  BY DEF IInv
<1>1. CASE \/ Boot \/ ReleaseLine \/ RunSteps \/ Post \/ PostRefused \/ PostTimesOut \/ Serve
           \/ ServeTick \/ Iterate \/ Reading \/ Others
  BY <1>0, <1>1, SettingsKept
     DEF Boot, ReleaseLine, RunSteps, Post, PostRefused, PostTimesOut, Serve, ServeTick,
         Iterate, Reading, Others
<1>2. CASE Setup
  <2>1. put = NoPut
    BY <1>2 DEF IInv, TypeOK, Setup
  <2>2. QED
    BY <1>0, <1>2, <2>1, BeginAllKeeps DEF Setup
<1>3. ASSUME NEW line \in Lines, Press(line)
      PROVE  PrefInv'
  BY <1>0, <1>3, SettingsKept DEF Press
<1>4. ASSUME NEW level \in Levels, SetLevel(level)
      PROVE  PrefInv'
  BY <1>0, <1>4, SettingsKept DEF SetLevel
<1>5. CASE Respond
  BY <1>0, <1>5, PutKeeps, PutFailsKeeps, SettingsKept, FirmwareConstants DEF Respond
<1>6. CASE Rest
  BY <1>0, <1>6, PutKeeps, SettingsKept, FirmwareConstants DEF Rest, PutRejected
<1>7. CASE SaveEnds
  BY <1>0, <1>7, SavedKeeps DEF SaveEnds
<1>8. CASE Kill
  BY <1>0, <1>8, MemoryLostKeeps DEF Kill
<1>9. QED
  BY <1>1, <1>2, <1>3, <1>4, <1>5, <1>6, <1>7, <1>8 DEF Next

--------------------------------------------------------------------------------
(* Where the thread is.                                                    *)

LEMMA CmdStep ==
  ASSUME IInv, Next
  PROVE  cmd' \in Cmds(made')
<1>0. made \in Nat /\ cmd \in Cmds(made)
  BY HttpShape DEF IInv, TypeOK
<1>1. CASE Boot
  BY <1>0, <1>1, CommandFields, OpNames DEF Boot, Start, BootReset
<1>2. CASE ReleaseLine
  BY <1>0, <1>2 DEF ReleaseLine, Cmds, httpVars
<1>3. CASE RunSteps
  BY <1>0, <1>3, CommandFields, OpNames DEF RunSteps, Start, httpVars
<1>4. CASE Post
  <2>1. PICK fits \in BOOLEAN :
          /\ made' = made + 1
          /\ cmd' = [op |-> "post", stages |-> 0, ok |-> fits /\ Reached # "nobody",
                     conn |-> made + 1, ahead |-> Len(backlog)]
    BY <1>4 DEF Post, Connect, Start
  <2>2. Len(backlog) \in Nat
    BY LenProperties DEF IInv, TypeOK, HttpTypeOK
  <2>3. (fits /\ Reached # "nobody") \in BOOLEAN
    BY Zenon
  <2>4. QED
    BY <1>0, <2>1, <2>2, <2>3, OpNames DEF Cmds
<1>5. CASE PostRefused \/ PostTimesOut
  <2>1. Command("post", 0) \in Cmds(made)
    BY <1>0, CommandFields, OpNames
  <2>2. [Command("post", 0) EXCEPT !.ok = FALSE] \in Cmds(made)
    BY <2>1 DEF Cmds
  <2>3. QED
    BY <1>5, <2>2 DEF PostRefused, PostTimesOut, Start, httpVars
<1>6. CASE Serve
  BY <1>0, <1>6, CommandFields, OpNames DEF Serve, Start, httpVars
<1>7. ASSUME NEW line \in Lines, Press(line)
      PROVE  cmd' \in Cmds(made')
  BY <1>0, <1>7, CommandFields, OpNames DEF Press, Start, httpVars
<1>8. ASSUME NEW level \in Levels, SetLevel(level)
      PROVE  cmd' \in Cmds(made')
  BY <1>0, <1>8, CommandFields, OpNames DEF SetLevel, Start, httpVars
<1>9. CASE Setup \/ ServeTick \/ Iterate \/ Reading \/ Respond \/ Rest \/ SaveEnds
  <2>1. UNCHANGED <<cmd, made>>
    BY <1>9
       DEF Setup, Begin, ServeTick, Iterate, Accept, Reading, Receive, CloseEmpty, Respond,
           Handle, Answered, Rest, Stop, SaveEnds, httpVars
  <2>2. QED
    BY <1>0, <2>1
<1>10. CASE Kill
  BY <1>0, <1>10, IdleFields DEF Kill, ProcessDies
<1>11. CASE Others
  <2>1. cmd' = cmd /\ made' \in {made, made + 1}
    BY <1>11 DEF Others, ClientConnects, Connect, ClientSends, ClientCloses, PortChanges, hostVars
  <2>2. QED
    BY <1>0, <2>1, MoreConnections
<1>12. QED
  BY <1>1, <1>2, <1>3, <1>4, <1>5, <1>6, <1>7, <1>8, <1>9, <1>10, <1>11 DEF Next

LEMMA ControlStep ==
  ASSUME IInv, Next, HttpInv', PrefInv'
  PROVE  TypeOK' /\ Control'
<1>0. /\ Steps \in Nat \ {0} /\ left \in 0 .. Steps
      /\ HttpTypeOK' /\ PrefTypeOK' /\ cmd' \in Cmds(made')
  BY CmdStep, FirmwareConstants DEF IInv, TypeOK, HttpInv, PrefInv
<1>1. CASE Boot
  <2>1. /\ cmd'.op = "boot" /\ left' = 0 /\ bus' = {} /\ seen' = FALSE /\ at' = "setup"
        /\ status' = -1 /\ put' = put /\ current' = current /\ current = 0 /\ put = NoPut
    BY <1>1, CommandFields, OpNames
       DEF Boot, Start, BootReset, prefVars, serving, IInv, TypeOK, Ready
  <2>2. TypeOK'
    <3>1. left' \in 0 .. Steps /\ bus' \subseteq Lines \cup Levels
      BY <1>0, <2>1
    <3>2. seen' \in BOOLEAN
      BY <2>1, Zenon
    <3>3. QED
      BY <1>0, <2>1, <3>1, <3>2 DEF TypeOK
  <2>3. Control'
    BY <2>1 DEF Control
  <2>4. QED
    BY <2>2, <2>3
<1>2. CASE Setup
  <2>1. /\ at = "setup" /\ at' = "host" /\ left' = Steps /\ listening' = ~foreign
        /\ status' = (IF foreign THEN 0 ELSE 1) /\ UNCHANGED <<cmd, bus, seen, current, put>>
        /\ current = 0 /\ put = NoPut /\ cmd.op = "boot"
    BY <1>2 DEF IInv, TypeOK, Control, Setup, Begin, BeginAll, serving
  <2>2. TypeOK'
    BY <1>0, <2>1 DEF IInv, TypeOK
  <2>3. status' = 1 => listening'
    <3>1. status' = 1 => ~foreign
      BY <2>1
    <3>2. QED
      BY <2>1, <3>1, Zenon
  <2>4. Control'
    BY <2>1, <2>3 DEF Control
  <2>5. QED
    BY <2>2, <2>4
<1>3. CASE ReleaseLine
  <2>1. /\ cmd'.op = cmd.op /\ at = "host" /\ left' = Steps /\ bus' \subseteq bus
        /\ UNCHANGED <<at, seen, current, put, status, stopped, listening>>
    BY <1>3 DEF IInv, TypeOK, Cmds, ReleaseLine, httpVars, prefVars, listener, serving
  <2>2. QED
    BY <1>0, <2>1 DEF IInv, TypeOK, Control
<1>4. CASE RunSteps \/ Post \/ PostRefused \/ PostTimesOut
  <2>1. /\ cmd'.op \in {"steps", "post"} /\ at = "host" /\ left' \in {0, Steps} /\ seen' = FALSE
        /\ UNCHANGED <<at, bus, current, put, status, stopped, listening>>
    <3>1. CASE RunSteps
      BY <3>1, CommandFields, OpNames
         DEF RunSteps, Ready, Start, httpVars, prefVars, listener, serving
    <3>2. CASE Post
      BY <3>2 DEF Post, Ready, Start, Connect, prefVars, listener, serving
    <3>3. CASE PostRefused \/ PostTimesOut
      <4>1. cmd'.op = "post"
        BY <3>3, CommandFields, OpNames DEF PostRefused, PostTimesOut, Start, Cmds
      <4>2. QED
        BY <3>3, <4>1
           DEF PostRefused, PostTimesOut, Ready, Start, httpVars, prefVars, listener, serving
    <3>4. QED
      BY <1>4, <3>1, <3>2, <3>3
  <2>2. left' \in 0 .. Steps
    BY <1>0, <2>1
  <2>3. seen' \in BOOLEAN
    BY <2>1, Zenon
  <2>4. QED
    BY <1>0, <2>1, <2>2, <2>3 DEF IInv, TypeOK, Control
<1>5. CASE Serve
  <2>1. /\ at = "host" /\ cmd.op = "boot"
        /\ \/ at' = "exited" /\ UNCHANGED <<cmd, left, seen>>
           \/ at' = at /\ status # 0 /\ left' = Steps /\ seen' = FALSE
        /\ UNCHANGED <<bus, current, put, status, stopped, listening>>
    BY <1>5 DEF Serve, Ready, Start, httpVars, prefVars, listener, serving
  <2>2. status # 0 => status = 1
    BY <2>1 DEF IInv, TypeOK, HttpTypeOK, Control
  <2>3. left' \in 0 .. Steps
    BY <1>0, <2>1
  <2>4. seen' \in BOOLEAN
    BY <2>1, Zenon DEF IInv, TypeOK
  <2>5. QED
    BY <1>0, <2>1, <2>2, <2>3, <2>4 DEF IInv, TypeOK, Control
<1>6. CASE ServeTick
  <2>1. /\ at = "host" /\ left' \in {0, Steps} /\ at' \in {"host", "exited"}
        /\ UNCHANGED <<cmd, bus, seen, current, put, status, stopped, listening>>
    BY <1>6 DEF ServeTick, httpVars, prefVars, listener, serving
  <2>2. left' \in 0 .. Steps
    BY <1>0, <2>1
  <2>3. QED
    BY <1>0, <2>1, <2>2 DEF IInv, TypeOK, Control
<1>7. ASSUME NEW op \in Lines \cup Levels, Press(op) \/ SetLevel(op)
      PROVE  TypeOK' /\ Control'
  <2>1. /\ cmd'.op \notin {"boot", "serve"} /\ at = "host" /\ left' = Steps /\ seen' = FALSE
        /\ UNCHANGED <<at, current, put, status, stopped, listening>>
        /\ bus' \subseteq bus \cup {op}
    BY <1>7, CommandFields, OpNames
       DEF Press, SetLevel, Ready, Start, httpVars, prefVars, listener, serving
  <2>2. left' \in 0 .. Steps
    BY <1>0, <2>1
  <2>3. seen' \in BOOLEAN
    BY <2>1, Zenon
  <2>4. QED
    BY <1>0, <2>1, <2>2, <2>3 DEF IInv, TypeOK, Control
<1>8. CASE Iterate
  <2>1. seen' \in BOOLEAN
    BY <1>8, Zenon DEF Iterate, IInv, TypeOK
  <2>2. /\ at = "host" /\ left > 0 /\ UNCHANGED <<cmd, left, bus, put>>
        /\ at' = "client" \/ (at' = "ui" /\ current' = current)
        /\ UNCHANGED <<listening, status, stopped>>
    BY <1>8 DEF Iterate, Accept, httpVars, prefVars, listener, serving
  <2>3. QED
    BY <1>0, <2>1, <2>2 DEF IInv, TypeOK, Control
<1>9. CASE Reading \/ Respond
  <2>1. /\ at = "client" /\ put = NoPut
        /\ \/ at' = "client" /\ current' = current /\ put' = NoPut
           \/ at' \in {"client", "ui"} /\ current' = 0
        /\ UNCHANGED <<cmd, left, bus, seen, listening, status, stopped>>
    BY <1>9
       DEF Reading, Respond, Receive, CloseEmpty, Handle, Answered, prefVars, listener
  <2>2. QED
    BY <1>0, <2>1 DEF IInv, TypeOK, Control
<1>10. CASE Rest \/ SaveEnds
  <2>1. /\ current' = current /\ current = 0
        /\ UNCHANGED <<cmd, bus, seen, status>>
        /\ (stopped' /\ ~listening') \/ UNCHANGED <<listening, stopped>>
        /\ at \in {"client", "ui"}
        /\ \/ at' = "ui" /\ left' = left
           \/ at' = "host" /\ left' = left - 1 /\ put' = NoPut
    <3>1. CASE Rest
      BY <3>1
         DEF IInv, Control, Rest, IterationEnds, Stop, Put, PutRejected, httpVars, prefVars,
             listener, serving
    <3>2. CASE SaveEnds
      BY <3>2
         DEF IInv, TypeOK, Control, SaveEnds, Saved, IterationEnds, httpVars, listener, serving
    <3>3. QED
      BY <1>10, <3>1, <3>2
  <2>2. left \in 1 .. Steps
    BY <1>0, <2>1 DEF IInv, Control
  <2>3. left' \in 0 .. Steps /\ (at' = "ui" => left' > 0)
    BY <1>0, <2>1, <2>2
  <2>4. QED
    BY <1>0, <2>1, <2>3 DEF IInv, TypeOK, Control
<1>11. CASE Kill
  <2>1. /\ at' = "off" /\ left' = 0 /\ bus' = {} /\ seen' = FALSE /\ current' = 0
        /\ put' = NoPut /\ status' = -1 /\ cmd'.op = "none"
    BY <1>11, IdleFields DEF Kill, ProcessDies, MemoryLost
  <2>2. left' \in 0 .. Steps /\ bus' \subseteq Lines \cup Levels
    BY <1>0, <2>1
  <2>3. seen' \in BOOLEAN
    BY <2>1, Zenon
  <2>4. QED
    BY <1>0, <2>1, <2>2, <2>3 DEF TypeOK, Control
<1>12. CASE Others
  <2>1. UNCHANGED <<hostVars, put, current, status, stopped, listening>>
    BY <1>12
       DEF Others, ClientConnects, Connect, ClientSends, ClientCloses, PortChanges, prefVars,
           listener, serving
  <2>2. QED
    BY <1>0, <2>1 DEF IInv, TypeOK, Control, hostVars
<1>13. QED
  BY <1>1, <1>2, <1>3, <1>4, <1>5, <1>6, <1>7, <1>8, <1>9, <1>10, <1>11, <1>12 DEF Next

--------------------------------------------------------------------------------
(* What the host reports is done.                                          *)

LEMMA PressStep ==
  ASSUME IInv, Next
  PROVE  PressRuns'
<1>0. /\ Steps # 0 /\ cmd.stages \in {0, 1} /\ cmd.op \in Ops
      /\ PressRuns /\ Control
  BY FirmwareConstants DEF IInv, TypeOK, Cmds
<1>1. CASE \/ Boot \/ RunSteps \/ Post \/ PostRefused \/ PostTimesOut
           \/ \E level \in Levels : SetLevel(level)
  <2>1. cmd'.stages = 0 /\ cmd'.op \notin Lines
    <3>1. CASE Boot \/ RunSteps \/ \E level \in Levels : SetLevel(level)
      BY <3>1, CommandFields, OpNames DEF Boot, RunSteps, SetLevel, Start
    <3>2. CASE Post
      BY <3>2, OpNames DEF Post, Start
    <3>3. CASE PostRefused \/ PostTimesOut
      BY <3>3, RefusedFields, OpNames DEF PostRefused, PostTimesOut, Start
    <3>4. QED
      BY <1>1, <3>1, <3>2, <3>3
  <2>2. bus' \subseteq Levels
    BY <1>0, <1>1 DEF PressRuns, Boot, RunSteps, Post, PostRefused, PostTimesOut, SetLevel, Ready
  <2>3. QED
    BY <2>1, <2>2 DEF PressRuns
<1>2. ASSUME NEW line \in Lines, Press(line)
      PROVE  PressRuns'
  <2>1. /\ cmd'.stages = 1 /\ cmd'.op = line /\ at' = "host" /\ left' = Steps
        /\ bus \subseteq Levels /\ bus' = bus \cup {line}
    BY <1>0, <1>2, CommandFields, OpNames DEF PressRuns, Press, Ready, Start
  <2>2. QED
    BY <2>1 DEF PressRuns
<1>3. CASE ReleaseLine
  <2>1. cmd'.stages = 0 /\ cmd'.op = cmd.op /\ bus' = bus \ {cmd.op} /\ seen' = seen
        /\ cmd.stages = 1 /\ left = 0
    BY <1>3 DEF ReleaseLine, IInv, TypeOK, Cmds
  <2>2. seen /\ bus \subseteq Levels \cup {cmd.op}
    BY <1>0, <2>1 DEF PressRuns
  <2>3. QED
    BY <2>1, <2>2 DEF PressRuns
<1>4. CASE Iterate
  <2>1. /\ UNCHANGED <<cmd, bus>> /\ at' \in {"client", "ui"}
        /\ seen' = (seen \/ cmd.op \in bus)
    BY <1>4 DEF Iterate
  <2>2. (seen => seen') /\ (cmd.op \in bus => seen')
    BY <2>1, Zenon
  <2>3. QED
    BY <1>0, <2>1, <2>2 DEF PressRuns
<1>5. CASE Kill
  BY <1>5, IdleFields, OpNames DEF Kill, PressRuns
<1>6. CASE Setup \/ Serve \/ ServeTick
  <2>1. /\ bus' = bus /\ cmd.stages # 1
        /\ (cmd' = cmd /\ seen' = seen) \/ cmd' = Command("serve", 0)
    BY <1>0, <1>6, OpNames
       DEF PressRuns, Control, Setup, Serve, ServeTick, Start, Ready
  <2>2. QED
    BY <1>0, <2>1, CommandFields, OpNames DEF PressRuns
<1>7. CASE Reading \/ Respond \/ Rest \/ SaveEnds \/ Others
  <2>1. /\ UNCHANGED <<cmd, bus, seen>>
        /\ \/ at \in {"client", "ui"} /\ at' \in {"client", "ui", "host"}
           \/ UNCHANGED <<at, left>>
    BY <1>7
       DEF IInv, TypeOK, Reading, Respond, Rest, SaveEnds, IterationEnds, Others, hostVars,
           Saved
  <2>2. QED
    BY <1>0, <2>1 DEF PressRuns
<1>8. QED
  BY <1>1, <1>2, <1>3, <1>4, <1>5, <1>6, <1>7 DEF Next

\* A post keeps its place while nothing accepts, serves or writes, and an iteration
\* that ends has accepted already.
LEMMA PostKept ==
  ASSUME PostRuns,
         UNCHANGED <<cmd, handled, backlog, current, listening, stopped>>,
         cmd.conn # 0 => conn'[cmd.conn] = conn[cmd.conn],
         AcceptsLeft' = AcceptsLeft
  PROVE  PostRuns'
  BY DEF PostRuns, PostHandled, PostWaits

LEMMA PostStep ==
  ASSUME IInv, Next, Control'
  PROVE  PostRuns'
<1>0. /\ PostRuns /\ Control /\ HttpInv /\ HttpTypeOK
      /\ Steps \in Nat \ {0} /\ left \in 0 .. Steps
      /\ cmd.stages \in {0, 1} /\ cmd.op \in Ops /\ cmd.conn \in 0 .. made /\ cmd.ahead \in Nat
  BY FirmwareConstants DEF IInv, TypeOK, HttpInv, Cmds
<1>1. CASE Boot \/ RunSteps \/ PostRefused \/ PostTimesOut \/ Serve \/ Kill
           \/ (\E line \in Lines : Press(line)) \/ \E level \in Levels : SetLevel(level)
  <2>1. cmd'.op # "post" \/ ~cmd'.ok
    <3>1. CASE Boot \/ RunSteps \/ Kill
      BY <3>1, CommandFields, IdleFields, OpNames DEF Boot, RunSteps, Kill, Start
    <3>2. CASE PostRefused \/ PostTimesOut
      BY <3>2, RefusedFields DEF PostRefused, PostTimesOut, Start
    <3>3. CASE Serve
      BY <3>3, CommandFields, OpNames DEF Serve, Start
    <3>4. CASE (\E line \in Lines : Press(line)) \/ \E level \in Levels : SetLevel(level)
      BY <3>4, CommandFields, OpNames DEF Press, SetLevel, Start
    <3>5. QED
      BY <1>1, <3>1, <3>2, <3>3, <3>4
  <2>2. QED
    BY <2>1 DEF PostRuns
<1>2. CASE Setup \/ ReleaseLine \/ ServeTick
  <2>1. cmd.op # "post"
    BY <1>0, <1>2, OpNames DEF IInv, PressRuns, Control, Setup, ReleaseLine, ServeTick
  <2>2. cmd'.op # "post"
    BY <1>2, <2>1 DEF Setup, ReleaseLine, ServeTick, IInv, TypeOK, Cmds
  <2>3. QED
    BY <2>2 DEF PostRuns
<1>3. CASE Post
  <2>1. PICK fits \in BOOLEAN :
          /\ Connect(IF fits THEN Parts ELSE 0, TRUE, TRUE)
          /\ Start([op |-> "post", stages |-> 0, ok |-> fits /\ Reached # "nobody",
                    conn |-> made + 1, ahead |-> Len(backlog)], Steps)
    BY <1>3 DEF Post
  <2>2. SUFFICES ASSUME cmd'.ok, ~stopped'
                 PROVE  PostRuns'
    BY DEF PostRuns
  <2>3. fits
    <3>1. cmd'.ok = (fits /\ Reached # "nobody")
      BY <2>1 DEF Start
    <3>2. QED
      BY <2>2, <3>1, Zenon
  <2>4. listening /\ listening' /\ UNCHANGED at /\ at = "host"
    BY <1>0, <1>3, <2>1, <2>2 DEF Post, Control, Connect, listener, Ready
  <2>5. /\ cmd'.conn = made + 1 /\ cmd'.ahead = Len(backlog) /\ left' = Steps
        /\ conn' = Append(conn, Connection("us", Parts, TRUE, TRUE))
        /\ backlog' = Append(backlog, made + 1)
    BY <2>1, <2>3, <2>4 DEF Start, Connect, Reached
  <2>6. /\ conn'[made + 1].sent = Parts /\ conn'[made + 1].lengthy /\ conn'[made + 1].closed
    <3>1. conn \in Seq(Connections) /\ Len(conn) = made
      BY <1>0, HttpShape
    <3>2. conn'[made + 1] = Connection("us", Parts, TRUE, TRUE)
      <4>1. Connection("us", Parts, TRUE, TRUE) \in Connections
        BY DEF Connection, Connections, Parts
      <4>2. QED
        BY <2>5, <3>1, <4>1, AppendProperties
    <3>3. QED
      BY <3>2 DEF Connection
  <2>7. PostWaits'
    <3>1. backlog \in Seq(1 .. made) /\ backlog \in Seq(Nat) /\ made \in Nat
      BY <1>0, HttpShape, SeqMonotonic DEF HttpTypeOK
    <3>2. /\ Len(backlog) \in Nat /\ DOMAIN backlog' = 1 .. Len(backlog) + 1
          /\ backlog'[Len(backlog) + 1] = made + 1
      BY <2>5, <3>1, AppendProperties, LenProperties
    <3>3. Len(backlog) + 1 + Steps <= cmd'.ahead + AcceptsLeft' + 1
      BY <1>0, <2>4, <2>5, <3>2 DEF AcceptsLeft
    <3>4. QED
      BY <2>5, <3>2, <3>3 DEF PostWaits
  <2>8. made + 1 # 0
    BY <1>0, HttpShape
  <2>9. QED
    BY <2>4, <2>5, <2>6, <2>7, <2>8 DEF PostRuns
<1>4. SUFFICES ASSUME \/ Iterate \/ Reading \/ Respond \/ Rest \/ SaveEnds \/ Others,
                      cmd'.op = "post", cmd'.ok, ~stopped'
               PROVE  PostRuns'
  BY <1>1, <1>2, <1>3 DEF Next, PostRuns
<1>5. /\ cmd' = cmd /\ ~stopped /\ listening' = listening /\ stopped' = stopped
  <2>1. cmd' = cmd /\ (stopped' = TRUE \/ (listening' = listening /\ stopped' = stopped))
    BY <1>4
       DEF Iterate, Accept, Reading, Receive, CloseEmpty, Respond, Handle, Answered, Rest,
           Stop, SaveEnds, Others, ClientConnects, Connect, ClientSends, ClientCloses,
           PortChanges, hostVars, httpVars, listener
  <2>2. stopped' # TRUE
    BY <1>4
  <2>3. listening' = listening /\ stopped' = stopped
    BY <2>1, <2>2
  <2>4. ~stopped
    BY <1>4, <2>3
  <2>5. QED
    BY <2>1, <2>3, <2>4
<1>6. /\ listening /\ cmd.conn \in 1 .. made
      /\ conn[cmd.conn].sent = Parts /\ conn[cmd.conn].lengthy /\ conn[cmd.conn].closed
      /\ PostHandled \/ PostWaits \/ current = cmd.conn
  BY <1>0, <1>4, <1>5, HttpShape DEF PostRuns
<1>7. CASE Iterate
  <2>1. at = "host" /\ left > 0 /\ left' = left /\ at' \in {"client", "ui"} /\ current = 0
    BY <1>7 DEF Iterate, IInv, TypeOK
  <2>2. AcceptsLeft' = AcceptsLeft - 1 /\ AcceptsLeft \in Nat
    BY <1>0, <2>1 DEF AcceptsLeft
  <2>3. conn' = conn /\ handled' = handled
    BY <1>7 DEF Iterate, Accept, httpVars, serving
  <2>4. CASE PostHandled
    BY <1>5, <1>6, <2>3, <2>4 DEF PostRuns, PostHandled
  <2>5. CASE PostWaits
    <3>1. PICK i \in DOMAIN backlog :
            backlog[i] = cmd.conn /\ i + Steps <= cmd.ahead + AcceptsLeft + 1
      BY <2>5 DEF PostWaits
    <3>2. backlog \in Seq(1 .. made) /\ backlog # <<>>
      BY <1>0, <3>1 DEF HttpTypeOK
    <3>3. /\ Len(backlog) \in Nat /\ DOMAIN backlog = 1 .. Len(backlog)
          /\ Len(Tail(backlog)) = Len(backlog) - 1
          /\ DOMAIN Tail(backlog) = 1 .. Len(backlog) - 1
          /\ \A k \in 1 .. Len(Tail(backlog)) : Tail(backlog)[k] = backlog[k + 1]
          /\ Head(backlog) = backlog[1]
      <4>1. Tail(backlog) \in Seq(1 .. made)
        BY <3>2, HeadTailProperties
      <4>2. Head(backlog) = backlog[1]
        BY <3>2
      <4>3. QED
        BY <3>2, <4>1, <4>2, HeadTailProperties, LenProperties
    <3>4. current' = Head(backlog) /\ backlog' = Tail(backlog)
      BY <1>6, <1>7, <3>2 DEF Iterate, Accept, NothingToAccept
    <3>5. CASE i = 1
      BY <1>5, <1>6, <2>3, <3>1, <3>3, <3>4, <3>5 DEF PostRuns
    <3>6. CASE i # 1
      <4>1. i - 1 \in DOMAIN backlog' /\ backlog'[i - 1] = cmd.conn
        BY <3>1, <3>3, <3>4, <3>6
      <4>2. (i - 1) + Steps <= cmd.ahead + AcceptsLeft' + 1
        BY <1>0, <2>2, <3>1, <3>3
      <4>3. QED
        BY <1>5, <1>6, <2>3, <4>1, <4>2 DEF PostRuns, PostWaits
    <3>7. QED
      BY <3>5, <3>6
  <2>6. QED
    BY <1>6, <2>1, <2>4, <2>5
<1>8. CASE Reading
  <2>1. /\ at = "client" /\ left' = left /\ at' \in {"client", "ui"}
        /\ backlog' = backlog /\ handled' = handled
    BY <1>8 DEF Reading, Receive, CloseEmpty, Answered
  <2>2. AcceptsLeft' = AcceptsLeft
    BY <2>1 DEF AcceptsLeft
  <2>3. CASE Receive
    <3>1. conn' = conn /\ current' = current
      BY <2>3 DEF Receive
    <3>2. QED
      BY <1>0, <1>5, <2>1, <2>2, <3>1, PostKept
  <2>4. CASE CloseEmpty
    <3>1. current # 0 /\ Answered /\ current # cmd.conn
      BY <1>6, <2>4 DEF CloseEmpty, GivesUp, Parts
    <3>2. conn'[cmd.conn] = conn[cmd.conn]
      BY <1>0, <1>6, <3>1, AnsweredIsClosed
    <3>3. QED
      BY <1>5, <1>6, <2>1, <2>2, <3>1, <3>2 DEF PostRuns, PostHandled, PostWaits
  <2>5. QED
    BY <1>8, <2>3, <2>4 DEF Reading
<1>9. CASE Respond
  <2>1. /\ at = "client" /\ left' = left /\ at' \in {"client", "ui"} /\ Handle
        /\ backlog' = backlog /\ current # 0 /\ Answered
    BY <1>9 DEF Respond, Handle, Answered
  <2>2. AcceptsLeft' = AcceptsLeft
    BY <2>1 DEF AcceptsLeft
  <2>3. /\ conn'[cmd.conn].sent = Parts /\ conn'[cmd.conn].lengthy /\ conn'[cmd.conn].closed
    BY <1>0, <1>6, <2>1, AnsweredIsClosed
  <2>4. CASE current = cmd.conn
    <3>1. taken = Parts
      BY <1>6, <2>1, <2>4 DEF Handle, Complete, GivesUp
    <3>2. PostHandled'
      BY <1>0, <1>5, <2>1, <2>4, <3>1, HandleKeeps, AnsweredIsClosed DEF PostHandled
    <3>3. QED
      BY <1>5, <1>6, <2>3, <3>2 DEF PostRuns
  <2>5. CASE current # cmd.conn /\ PostWaits
    BY <1>5, <1>6, <2>1, <2>2, <2>3, <2>5 DEF PostRuns, PostWaits
  <2>6. CASE current # cmd.conn /\ PostHandled
    <3>1. conn'[cmd.conn] = conn[cmd.conn]
      BY <1>0, <1>6, <2>1, <2>6, AnsweredIsClosed
    <3>2. PostHandled'
      BY <1>0, <1>5, <2>1, <2>6, <3>1, HandleKeeps DEF PostHandled
    <3>3. QED
      BY <1>5, <1>6, <2>3, <3>2 DEF PostRuns
  <2>7. QED
    BY <1>6, <2>4, <2>5, <2>6
<1>10. CASE Rest \/ SaveEnds
  <2>1. UNCHANGED httpVars
    BY <1>5, <1>10, <1>4 DEF Rest, SaveEnds, Stop
  <2>2. /\ at \in {"client", "ui"}
        /\ \/ left' = left /\ at' \in {"client", "ui"}
           \/ left' = left - 1 /\ at' = "host"
    BY <1>10 DEF Rest, SaveEnds, IterationEnds, Saved, IInv, TypeOK
  <2>3. AcceptsLeft' = AcceptsLeft
    BY <2>2 DEF AcceptsLeft
  <2>4. QED
    BY <1>0, <1>5, <2>1, <2>3, PostKept DEF httpVars, serving
<1>11. CASE Others
  <2>1. UNCHANGED <<at, left, current, handled>>
    BY <1>11
       DEF Others, ClientConnects, Connect, ClientSends, ClientCloses, PortChanges, hostVars,
           serving
  <2>2. AcceptsLeft' = AcceptsLeft
    BY <2>1 DEF AcceptsLeft
  <2>3. conn'[cmd.conn] = conn[cmd.conn]
    <3>1. conn \in Seq(Connections) /\ Len(conn) = made /\ DOMAIN conn = 1 .. made
      BY <1>0, HttpShape
    <3>2. CASE ClientConnects
      <4>1. PICK new \in Connections : conn' = Append(conn, new)
        <5>1. PICK lengthy \in BOOLEAN :
                conn' = Append(conn, Connection(Reached, 0, lengthy, FALSE))
          BY <3>2 DEF ClientConnects, Connect
        <5>2. Connection(Reached, 0, lengthy, FALSE) \in Connections
          BY DEF Connection, Connections, Reached, Parts
        <5>3. QED
          BY <5>1, <5>2
      <4>2. \A c \in 1 .. made : conn'[c] = conn[c]
        BY <3>1, <4>1, AppendProperties
      <4>3. QED
        BY <1>6, <4>2
    <3>3. CASE ClientSends \/ ClientCloses \/ PortChanges
      BY <1>6, <3>1, <3>3 DEF ClientSends, ClientCloses, PortChanges
    <3>4. QED
      BY <1>11, <3>2, <3>3 DEF Others
  <2>4. CASE ClientSends \/ ClientCloses \/ PortChanges
    <3>1. backlog' = backlog
      BY <2>4 DEF ClientSends, ClientCloses, PortChanges
    <3>2. QED
      BY <1>0, <1>5, <2>1, <2>2, <2>3, <3>1, PostKept
  <2>5. CASE ClientConnects
    <3>1. backlog \in Seq(Nat) /\ made \in Nat
      BY <1>0, HttpShape, SeqMonotonic DEF HttpTypeOK
    <3>2. backlog' = backlog \/ backlog' = Append(backlog, made + 1)
      BY <2>5 DEF ClientConnects, Connect
    <3>3. \A i \in DOMAIN backlog : i \in DOMAIN backlog' /\ backlog'[i] = backlog[i]
      <4>1. Len(backlog) \in Nat /\ DOMAIN backlog = 1 .. Len(backlog)
        BY <3>1, LenProperties
      <4>2. CASE backlog' = Append(backlog, made + 1)
        <5>1. made + 1 \in Nat
          BY <3>1
        <5>2. /\ DOMAIN backlog' = 1 .. Len(backlog) + 1
              /\ \A i \in 1 .. Len(backlog) : backlog'[i] = backlog[i]
          BY <3>1, <4>1, <4>2, <5>1, AppendProperties
        <5>3. QED
          BY <4>1, <5>2
      <4>3. QED
        BY <3>2, <4>2
    <3>4. PostHandled => PostHandled'
      BY <1>5, <2>1, <2>3 DEF PostHandled
    <3>5. PostWaits => PostWaits'
      BY <1>5, <2>2, <3>3 DEF PostWaits
    <3>6. QED
      BY <1>5, <1>6, <2>1, <2>3, <3>4, <3>5 DEF PostRuns
  <2>6. QED
    BY <1>11, <2>4, <2>5 DEF Others
<1>12. QED
  BY <1>4, <1>7, <1>8, <1>9, <1>10, <1>11

LEMMA Stutter ==
  ASSUME IInv, UNCHANGED vars
  PROVE  IInv'
<1>1. HttpInv' /\ PrefInv'
  BY ServerKept, SettingsKept DEF IInv, vars
<1>2. TypeOK' /\ Control'
  BY <1>1
     DEF IInv, TypeOK, Control, HttpInv, PrefInv, vars, hostVars, httpVars, prefVars,
         listener, serving
<1>3. PressRuns' /\ PostRuns'
  BY PostKept
     DEF IInv, PressRuns, AcceptsLeft, vars, hostVars, httpVars, listener, serving
<1>4. QED
  BY <1>1, <1>2, <1>3 DEF IInv

--------------------------------------------------------------------------------
(* The theorems.                                                           *)

\* Every state the firmware, its shims and their clients can reach satisfies the
\* inductive invariant.
THEOREM Invariant == Spec => []IInv
<1>1. IInv /\ Next => IInv'
  BY ServerStep, SettingsStep, ControlStep, PressStep, PostStep DEF IInv
<1>2. IInv /\ [Next]_vars => IInv'
  BY <1>1, Stutter
<1>3. QED
  BY InitHolds, <1>2, PTL DEF Spec

\* The thread, the command, the sockets and the settings have their types, and no
\* connection is being served but inside handleClient().
THEOREM TypeCorrect == Spec => []TypeOK
<1>1. IInv => TypeOK
  BY DEF IInv
<1>2. QED
  BY Invariant, <1>1, PTL

\* What a put has reported as stored is what the file holds, except the keys that a
\* handle with an older copy has overwritten and those lost to a crash in a save:
\* however many handles there are, and however often the process is killed.
THEOREM SettingsSurvive == Spec => []StoredSurvives
<1>1. IInv => StoredSurvives
  BY DEF IInv, PrefInv
<1>2. QED
  BY Invariant, <1>1, PTL

\* The host tells the truth: a press it reports was seen by the firmware and left
\* nothing down, a post it reports as delivered was handled whole, requests are
\* handled once and in their order, and serve has a bound server.
THEOREM HostTellsTruth == Spec => []ReportedIsDone
<1>1. IInv => PressesSeen
  BY OpNames DEF IInv, PressRuns, PressesSeen, Finished
<1>2. ASSUME IInv
      PROVE  PostsArrive
  <2> SUFFICES ASSUME Finished({"post"}), ~stopped
               PROVE  /\ conn[cmd.conn].to \in {"us", "answered"}
                      /\ cmd.ahead < Steps =>
                           \E i \in DOMAIN handled :
                             handled[i] = [conn |-> cmd.conn, parts |-> Parts]
    BY DEF PostsArrive
  <2>1. /\ at = "host" /\ left = 0 /\ current = 0 /\ cmd.conn # 0
        /\ PostHandled \/ PostWaits
    BY <1>2 DEF IInv, TypeOK, PostRuns, Finished
  <2>2. CASE PostHandled
    BY <2>2 DEF PostHandled
  <2>3. CASE PostWaits
    <3>1. PICK i \in DOMAIN backlog : backlog[i] = cmd.conn /\ i + Steps <= cmd.ahead + 1
      <4>1. PICK i \in DOMAIN backlog : backlog[i] = cmd.conn /\ i + Steps <= cmd.ahead + 0 + 1
        BY <2>1, <2>3 DEF PostWaits, AcceptsLeft
      <4>2. cmd.ahead + 0 + 1 = cmd.ahead + 1
        BY <1>2 DEF IInv, TypeOK, Cmds
      <4>3. QED
        BY <4>1, <4>2
    <3>2. i \in Nat /\ i >= 1 /\ Steps \in Nat /\ cmd.ahead \in Nat
      BY <1>2, FirmwareConstants, LenProperties DEF IInv, TypeOK, HttpTypeOK, Cmds
    <3>3. ~(cmd.ahead < Steps)
      BY <3>1, <3>2
    <3>4. conn[cmd.conn].to = "us"
      BY <1>2, <3>1 DEF IInv, HttpInv, InOrder
    <3>5. QED
      BY <3>3, <3>4
  <2>4. QED
    BY <2>1, <2>2, <2>3
<1>3. IInv => ServesBound /\ RequestsHandled
  BY DEF IInv, Control, HttpInv, ServesBound
<1>4. IInv => ReportedIsDone
  BY <1>1, <1>2, <1>3 DEF ReportedIsDone
<1>5. QED
  BY Invariant, <1>4, PTL

================================================================================
