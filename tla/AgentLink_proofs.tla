--------------------------- MODULE AgentLink_proofs ---------------------------
(***************************************************************************)
(* IInv is an invariant of AgentLink: the order of answers, the slip of    *)
(* the link, at-most-once and the finger that is left on the glass, for    *)
(* any number of lines and of firmware restarts.                           *)
(***************************************************************************)
EXTENDS AgentLink, SequenceTheorems, FiniteSetTheorems, TLAPS

--------------------------------------------------------------------------------
(* What the operations on sequences do to their elements and their order.  *)

LEMMA AppendLine ==
  ASSUME NEW s \in Seq(Nat), NEW e \in Nat
  PROVE  /\ Append(s, e) \in Seq(Nat)
         /\ Range(Append(s, e)) = Range(s) \cup {e}
         /\ Increasing(s) /\ Before(LinesOf(s), {e} \ {Banner}) => Increasing(Append(s, e))
<1> DEFINE t == Append(s, e)
<1>1. /\ t \in Seq(Nat) /\ Len(t) = Len(s) + 1 /\ Len(s) \in Nat
      /\ \A i \in 1 .. Len(s) : t[i] = s[i]
      /\ t[Len(s) + 1] = e
  BY AppendProperties, LenProperties
<1>2. Range(s) = {s[i] : i \in 1 .. Len(s)} /\ Range(t) = {t[i] : i \in 1 .. Len(t)}
  BY <1>1, RangeEquality
<1> HIDE DEF t
<1>3. 1 .. Len(t) = (1 .. Len(s)) \cup {Len(s) + 1}
  BY <1>1
<1>4. Range(t) = Range(s) \cup {e}
  <2>1. Range(t) = {t[i] : i \in 1 .. Len(s)} \cup {t[Len(s) + 1]}
    BY <1>2, <1>3
  <2>2. {t[i] : i \in 1 .. Len(s)} = {s[i] : i \in 1 .. Len(s)}
    BY <1>1
  <2>3. QED
    BY <1>1, <1>2, <2>1, <2>2
<1>5. ASSUME Increasing(s), Before(LinesOf(s), {e} \ {Banner})
      PROVE  Increasing(t)
  <2> SUFFICES ASSUME NEW i \in 1 .. Len(t), NEW j \in 1 .. Len(t), i < j,
                      t[i] # Banner, t[j] # Banner
               PROVE  t[i] < t[j]
    BY DEF Increasing
  <2>1. CASE j \in 1 .. Len(s)
    <3>1. i \in 1 .. Len(s) /\ t[i] = s[i] /\ t[j] = s[j]
      BY <1>1, <2>1
    <3> QED
      BY <1>5, <2>1, <3>1 DEF Increasing
  <2>2. CASE j = Len(s) + 1
    <3>1. i \in 1 .. Len(s) /\ t[i] = s[i] /\ t[j] = e
      BY <1>1, <2>2
    <3>2. s[i] \in LinesOf(s)
      BY <1>2, <3>1 DEF LinesOf
    <3> QED
      BY <1>5, <3>1, <3>2 DEF Before
  <2> QED
    BY <1>3, <2>1, <2>2
<1> QED
  BY <1>1, <1>4, <1>5 DEF t

LEMMA HeadLine ==
  ASSUME NEW s \in Seq(Nat), s # <<>>
  PROVE  /\ Head(s) \in Nat /\ Tail(s) \in Seq(Nat)
         /\ Range(s) = {Head(s)} \cup Range(Tail(s))
         /\ Increasing(s) =>
              Increasing(Tail(s)) /\ Before({Head(s)} \ {Banner}, LinesOf(Tail(s)))
<1> DEFINE t == Tail(s)
<1>1. /\ Len(s) \in Nat \ {0} /\ t \in Seq(Nat) /\ Len(t) = Len(s) - 1 /\ Head(s) \in Nat
      /\ \A i \in 1 .. Len(t) : t[i] = s[i + 1]
  BY HeadTailProperties, EmptySeq
<1>2. Head(s) = s[1]
  OBVIOUS
<1>3. Range(s) = {s[i] : i \in 1 .. Len(s)} /\ Range(t) = {t[i] : i \in 1 .. Len(t)}
  BY <1>1, RangeEquality
<1> HIDE DEF t
<1>4. Range(s) = {Head(s)} \cup Range(t)
  <2>1. ASSUME NEW x \in Range(s)
        PROVE  x \in {Head(s)} \cup Range(t)
    <3>1. PICK i \in 1 .. Len(s) : x = s[i]
      BY <1>3
    <3>2. CASE i = 1
      BY <1>2, <3>1, <3>2
    <3>3. CASE i # 1
      <4>1. i - 1 \in 1 .. Len(t) /\ t[i - 1] = s[i]
        BY <1>1, <3>3
      <4> QED
        BY <1>3, <3>1, <4>1
    <3> QED
      BY <3>2, <3>3
  <2>2. ASSUME NEW x \in {Head(s)} \cup Range(t)
        PROVE  x \in Range(s)
    <3>1. CASE x = Head(s)
      <4>1. 1 \in 1 .. Len(s)
        BY <1>1
      <4> QED
        BY <1>2, <1>3, <3>1, <4>1
    <3>2. CASE x \in Range(t)
      <4>1. PICK i \in 1 .. Len(t) : x = t[i]
        BY <1>3, <3>2
      <4>2. i + 1 \in 1 .. Len(s) /\ x = s[i + 1]
        BY <1>1, <4>1
      <4> QED
        BY <1>3, <4>2
    <3> QED
      BY <2>2, <3>1, <3>2
  <2> QED
    BY <2>1, <2>2
<1>5. ASSUME Increasing(s)
      PROVE  Increasing(t) /\ Before({Head(s)} \ {Banner}, LinesOf(t))
  <2>1. Increasing(t)
    <3> SUFFICES ASSUME NEW i \in 1 .. Len(t), NEW j \in 1 .. Len(t), i < j,
                        t[i] # Banner, t[j] # Banner
                 PROVE  t[i] < t[j]
      BY DEF Increasing
    <3>1. i + 1 \in 1 .. Len(s) /\ j + 1 \in 1 .. Len(s) /\ i + 1 < j + 1
      BY <1>1
    <3>2. t[i] = s[i + 1] /\ t[j] = s[j + 1]
      BY <1>1
    <3> QED
      BY <1>5, <3>1, <3>2 DEF Increasing
  <2>2. ASSUME NEW b \in LinesOf(t), Head(s) # Banner
        PROVE  Head(s) < b
    <3>1. PICK i \in 1 .. Len(t) : b = t[i]
      BY <1>3 DEF LinesOf
    <3>2. i + 1 \in 1 .. Len(s) /\ 1 \in 1 .. Len(s) /\ 1 < i + 1 /\ b = s[i + 1] /\ b # Banner
      BY <1>1, <3>1 DEF LinesOf
    <3> QED
      BY <1>2, <1>5, <2>2, <3>2 DEF Increasing
  <2> QED
    BY <2>1, <2>2 DEF Before
<1> QED
  BY <1>1, <1>4, <1>5 DEF t

\* A sequence that is cut in two.
LEMMA CutLines ==
  ASSUME NEW s \in Seq(Nat), NEW n \in 0 .. Len(s)
  PROVE  LET a == SubSeq(s, 1, n)
             b == SubSeq(s, n + 1, Len(s))
         IN /\ a \in Seq(Nat) /\ b \in Seq(Nat)
            /\ Range(a) \subseteq Range(s) /\ Range(b) \subseteq Range(s)
            /\ Range(s) \subseteq Range(a) \cup Range(b)
            /\ Increasing(s) =>
                 Increasing(a) /\ Increasing(b) /\ Before(LinesOf(a), LinesOf(b))
<1> DEFINE a == SubSeq(s, 1, n)
           b == SubSeq(s, n + 1, Len(s))
<1>1. Len(s) \in Nat /\ n \in Nat /\ n <= Len(s) /\ \A i \in 1 .. Len(s) : s[i] \in Nat
  BY LenProperties, ElementOfSeq
<1>2. /\ a \in Seq(Nat) /\ Len(a) = n
      /\ \A i \in 1 .. n : a[i] = s[i]
  <2>1. /\ SubSeq(s, 1, n) \in Seq(Nat)
        /\ Len(SubSeq(s, 1, n)) = IF 1 <= n THEN n - 1 + 1 ELSE 0
        /\ \A i \in 1 .. n - 1 + 1 : SubSeq(s, 1, n)[i] = s[1 + i - 1]
    BY <1>1, SubSeqProperties
  <2> QED
    BY <1>1, <2>1
<1>3. /\ b \in Seq(Nat) /\ Len(b) = Len(s) - n
      /\ \A i \in 1 .. Len(s) - n : b[i] = s[n + i]
  <2>1. /\ SubSeq(s, n + 1, Len(s)) \in Seq(Nat)
        /\ Len(SubSeq(s, n + 1, Len(s))) =
             IF n + 1 <= Len(s) THEN Len(s) - (n + 1) + 1 ELSE 0
        /\ \A i \in 1 .. Len(s) - (n + 1) + 1 : SubSeq(s, n + 1, Len(s))[i] = s[(n + 1) + i - 1]
    <3>1. \A i \in n + 1 .. Len(s) : s[i] \in Nat
      BY <1>1
    <3>2. n + 1 \in Int /\ Len(s) \in Int
      BY <1>1
    <3> QED
      BY <3>1, <3>2, SubSeqProperties
  <2>2. \A i \in 1 .. Len(s) - n : (n + 1) + i - 1 = n + i
    BY <1>1
  <2>3. Len(s) - (n + 1) + 1 = Len(s) - n
    BY <1>1
  <2>4. \A i \in 1 .. Len(s) - n : SubSeq(s, n + 1, Len(s))[i] = s[n + i]
    BY <2>1, <2>2, <2>3
  <2>5. Len(SubSeq(s, n + 1, Len(s))) = Len(s) - n
    BY <1>1, <2>1
  <2> QED
    BY <2>1, <2>4, <2>5
<1>4. /\ Range(s) = {s[i] : i \in 1 .. Len(s)}
      /\ Range(a) = {a[i] : i \in 1 .. Len(a)}
      /\ Range(b) = {b[i] : i \in 1 .. Len(b)}
  BY <1>2, <1>3, RangeEquality
<1> HIDE DEF a, b
<1>5. Range(a) \subseteq Range(s)
  BY <1>1, <1>2, <1>4
<1>6. Range(b) \subseteq Range(s)
  <2>1. \A i \in 1 .. Len(s) - n : n + i \in 1 .. Len(s)
    BY <1>1
  <2> QED
    BY <1>3, <1>4, <2>1
<1>7. Range(s) \subseteq Range(a) \cup Range(b)
  <2> SUFFICES ASSUME NEW i \in 1 .. Len(s)
               PROVE  s[i] \in Range(a) \cup Range(b)
    BY <1>4
  <2>1. CASE i <= n
    BY <1>1, <1>2, <1>4, <2>1
  <2>2. CASE i > n
    <3>1. i - n \in 1 .. Len(s) - n /\ s[i] = b[i - n]
      BY <1>1, <1>3, <2>2
    <3> QED
      BY <1>3, <1>4, <3>1
  <2> QED
    BY <1>1, <2>1, <2>2
<1>8. ASSUME Increasing(s)
      PROVE  Increasing(a) /\ Increasing(b) /\ Before(LinesOf(a), LinesOf(b))
  <2>1. Increasing(a)
    <3> SUFFICES ASSUME NEW i \in 1 .. Len(a), NEW j \in 1 .. Len(a), i < j,
                        a[i] # Banner, a[j] # Banner
                 PROVE  a[i] < a[j]
      BY DEF Increasing
    <3>1. i \in 1 .. Len(s) /\ j \in 1 .. Len(s) /\ s[i] = a[i] /\ s[j] = a[j]
      BY <1>1, <1>2
    <3>2. QED
      BY <1>8, <3>1 DEF Increasing
  <2>2. Increasing(b)
    <3> SUFFICES ASSUME NEW i \in 1 .. Len(b), NEW j \in 1 .. Len(b), i < j,
                        b[i] # Banner, b[j] # Banner
                 PROVE  b[i] < b[j]
      BY DEF Increasing
    <3>1. n + i \in 1 .. Len(s) /\ n + j \in 1 .. Len(s) /\ n + i < n + j
      BY <1>1, <1>3
    <3>2. b[i] = s[n + i] /\ b[j] = s[n + j]
      BY <1>3
    <3> QED
      BY <1>8, <3>1, <3>2 DEF Increasing
  <2>3. ASSUME NEW x \in LinesOf(a), NEW y \in LinesOf(b)
        PROVE  x < y
    <3>1. PICK i \in 1 .. n : x = s[i] /\ x # Banner
      BY <1>2, <1>4 DEF LinesOf
    <3>2. PICK j \in 1 .. Len(s) - n : y = s[n + j] /\ y # Banner
      BY <1>3, <1>4 DEF LinesOf
    <3>3. i \in 1 .. Len(s) /\ n + j \in 1 .. Len(s) /\ i < n + j
      BY <1>1
    <3> QED
      BY <1>8, <3>1, <3>2, <3>3 DEF Increasing
  <2> QED
    BY <2>1, <2>2, <2>3 DEF Before
<1> QED
  BY <1>2, <1>3, <1>5, <1>6, <1>7, <1>8 DEF a, b

LEMMA NoLines == <<>> \in Seq(Nat) /\ Range(<<>>) = {} /\ Increasing(<<>>)
<1>1. /\ <<>> \in Seq(Nat)
      /\ Len(<<>>) = 0
  BY EmptySeq
<1>2. Range(<<>>) = {<<>>[i] : i \in 1 .. Len(<<>>)}
  BY <1>1, RangeEquality
<1> QED
  BY <1>1, <1>2 DEF Increasing

--------------------------------------------------------------------------------
(* The lines of an operation.                                              *)

LEMMA SwipeRests == Rests = {<<"touch", "release">>, <<"release">>, <<>>}
<1>1. Tail(Swipe) = <<"touch", "release">>
  BY DEF Swipe
<1>2. Tail(<<"touch", "release">>) = <<"release">>
  OBVIOUS
<1> QED
  BY <1>1, <1>2 DEF Rests

LEMMA FirstLine ==
  ASSUME NEW o \in Operations
  PROVE  /\ Head(o) \in Lines /\ Tail(o) \in Rests
         /\ Head(o) = "touch" => Tail(o) # <<>>
<1>1. CASE o = <<"pulse">>
  <2>1. Head(o) = "pulse" /\ Tail(o) = <<>>
    BY <1>1
  <2> QED
    BY <2>1, SwipeRests DEF Lines
<1>2. CASE o = <<"tap">>
  <2>1. Head(o) = "tap" /\ Tail(o) = <<>>
    BY <1>2
  <2> QED
    BY <2>1, SwipeRests DEF Lines
<1>3. CASE o = Swipe
  <2>1. Head(o) = "touch" /\ Tail(o) = <<"touch", "release">>
    BY <1>3 DEF Swipe
  <2>2. <<"touch", "release">> # <<>>
    OBVIOUS
  <2> QED
    BY <2>1, <2>2, SwipeRests DEF Lines
<1> QED
  BY <1>1, <1>2, <1>3 DEF Operations

LEMMA NextLine ==
  ASSUME NEW o \in Rests, o # <<>>
  PROVE  /\ Head(o) \in {"touch", "release"} /\ Tail(o) \in Rests
         /\ Head(o) = "touch" => Tail(o) # <<>>
<1>1. CASE o = <<"touch", "release">>
  <2>1. Head(o) = "touch" /\ Tail(o) = <<"release">>
    BY <1>1
  <2>2. <<"release">> # <<>>
    OBVIOUS
  <2> QED
    BY <2>1, <2>2, SwipeRests
<1>2. CASE o = <<"release">>
  <2>1. Head(o) = "release" /\ Tail(o) = <<>>
    BY <1>2
  <2> QED
    BY <2>1, SwipeRests
<1> QED
  BY <1>1, <1>2, SwipeRests

--------------------------------------------------------------------------------
(* The state.                                                              *)

LEMMA Shape ==
  ASSUME TypeOK
  PROVE  /\ MaxSent \in Nat /\ sent \in Nat /\ sent <= MaxSent /\ Requests \subseteq Nat
         /\ rxbuf \in Seq(Nat) /\ wire \in Seq(Nat) /\ uart \in Seq(Nat) /\ applied \in Seq(Nat)
         /\ handling \in Nat /\ Banner \notin Requests
<1>1. MaxSent \in Nat
  BY Bounds
<1>2. Requests \subseteq Nat /\ Requests \cup {Banner} \subseteq Nat /\ Banner \notin Requests
  BY <1>1 DEF Requests, Banner
<1>3. /\ rxbuf \in Seq(Requests \cup {Banner}) /\ wire \in Seq(Requests \cup {Banner})
      /\ uart \in Seq(Requests) /\ applied \in Seq(Requests)
      /\ handling \in Requests \cup {Banner} /\ sent \in 0 .. MaxSent
  BY DEF TypeOK
<1>4. rxbuf \in Seq(Nat) /\ wire \in Seq(Nat)
  BY <1>2, <1>3, SeqMonotonic
<1>5. uart \in Seq(Nat) /\ applied \in Seq(Nat)
  BY <1>2, <1>3, SeqMonotonic
<1> QED
  BY <1>1, <1>2, <1>3, <1>4, <1>5

\* What the guest has not read or not finished is a line that was sent.
LEMMA NoBannerUnderWay ==
  ASSUME TypeOK
  PROVE  LinesOf(uart) = Range(uart) /\ LinesOf(applied) = Range(applied)
<1>1. Range(uart) \subseteq Requests /\ Range(applied) \subseteq Requests
  BY RangeOfSeq DEF TypeOK
<1> QED
  BY <1>1, Shape DEF LinesOf

\* Every line that is somewhere was sent.
LEMMA SentLines ==
  ASSUME TypeOK, Route
  PROVE  /\ Written \in Int /\ Written <= sent /\ (~sending => Written = sent)
         /\ Range(applied) \cup Replies \cup Pending \cup torn \subseteq 1 .. sent
<1>1. Written \in Int /\ Written <= sent /\ (~sending => Written = sent) /\ sent \in Nat
  BY Shape DEF Written
<1> QED
  BY <1>1 DEF Route

--------------------------------------------------------------------------------
(* Sending a line.                                                         *)

Results == {"unsent", "waiting", "failed", "answered"}

\* What Send does to the books of the host and to the lines under way.
LEMMA SentLine ==
  ASSUME TypeOK, Route, ~sending,
         NEW call \in {"ping", "command"}, NEW text \in Lines, NEW rest \in Operations \cup Rests,
         NEW results \in [Requests -> Results],
         Send(call, text, rest, results)
  PROVE  /\ sent' = sent + 1 /\ sent' \in Requests /\ sent' \in 0 .. MaxSent
         /\ pc' \in {"idle", "ping", "command"}
         /\ todo' \in Operations \cup Rests /\ skipped' \in BOOLEAN
         /\ clock' \in {"running", "expired"}
         /\ says' \in Seq(Lines) /\ Len(says') = sent'
         /\ \A r \in 1 .. sent : says'[r] = says[r]
         /\ says'[sent'] = text
         /\ outcome' \in [Requests -> Results]
         /\ \A r \in Requests : r # sent' => outcome'[r] = results[r]
         /\ outcome'[sent'] \in {"failed", "waiting"}
         /\ uart' \in Seq(Requests) /\ Increasing(uart') /\ sending' \in BOOLEAN
         /\ Range(uart') \subseteq Range(uart) \cup {sent + 1}
         /\ sending' => vm = "up" /\ uart' = uart /\ LinkCap <= Len(uart)
         /\ vm = "up" => /\ pc' = call /\ todo' = rest /\ outcome'[sent'] = "waiting"
                         /\ sending' \/ Range(uart') = Range(uart) \cup {sent + 1}
         /\ vm # "up" => /\ pc' = "idle" /\ todo' = <<>> /\ outcome'[sent'] = "failed"
                         /\ uart' = uart
<1>1. /\ sent' = sent + 1 /\ sent < MaxSent /\ says' = Append(says, text)
      /\ clock' = "running"
  BY DEF Send
<1>2. skipped' \in BOOLEAN
  BY DEF Send
<1>3. sent' \in Requests /\ sent' \in 0 .. MaxSent /\ sent \in Nat
  BY <1>1, Shape DEF Requests
<1>4. /\ says' \in Seq(Lines) /\ Len(says') = sent'
      /\ \A r \in 1 .. sent : says'[r] = says[r]
      /\ says'[sent'] = text
  <2>1. says \in Seq(Lines) /\ Len(says) = sent
    BY DEF TypeOK
  <2> QED
    BY <1>1, <2>1, AppendProperties
<1>5. /\ Append(uart, sent + 1) \in Seq(Requests)
      /\ Range(Append(uart, sent + 1)) = Range(uart) \cup {sent + 1}
      /\ Increasing(Append(uart, sent + 1))
  <2>1. Append(uart, sent + 1) \in Seq(Requests)
    BY <1>1, <1>3, AppendProperties DEF TypeOK
  <2>2. Before(LinesOf(uart), {sent + 1} \ {Banner})
    <3>1. LinesOf(uart) \subseteq 1 .. sent
      BY NoBannerUnderWay, SentLines DEF Pending
    <3> QED
      BY <1>3, <3>1 DEF Before
  <2> QED
    BY <1>1, <1>3, <2>1, <2>2, Shape, AppendLine DEF Route
<1>6. uart \in Seq(Requests) /\ Increasing(uart) /\ Len(uart) \in Nat /\ LinkCap \in Nat
  BY LenProperties, Bounds DEF TypeOK, Route
<1>7. CASE vm = "up"
  <2>1. /\ pc' = call /\ todo' = rest
        /\ outcome' = [results EXCEPT ![sent + 1] = "waiting"]
        /\ IF Len(uart) < LinkCap
           THEN sending' = FALSE /\ uart' = Append(uart, sent + 1)
           ELSE sending' = TRUE /\ uart' = uart
    BY <1>7 DEF Send
  <2>2. /\ outcome' \in [Requests -> Results]
        /\ \A r \in Requests : r # sent' => outcome'[r] = results[r]
        /\ outcome'[sent'] = "waiting"
    BY <1>1, <1>3, <2>1 DEF Results
  <2>3. /\ sending' => uart' = uart /\ LinkCap <= Len(uart)
        /\ ~sending' => uart' = Append(uart, sent + 1)
        /\ sending' \in BOOLEAN
    <3>1. CASE Len(uart) < LinkCap
      BY <2>1, <3>1, Zenon
    <3>2. CASE ~(Len(uart) < LinkCap)
      <4>1. LinkCap <= Len(uart)
        BY <1>6, <3>2
      <4> QED
        BY <2>1, <3>2, <4>1, Zenon
    <3> QED
      BY <3>1, <3>2
  <2> QED
    BY <1>1, <1>2, <1>3, <1>4, <1>5, <1>6, <1>7, <2>1, <2>2, <2>3
<1>8. CASE vm # "up"
  <2>1. /\ pc' = "idle" /\ todo' = <<>>
        /\ outcome' = [results EXCEPT ![sent + 1] = "failed"]
        /\ uart' = uart /\ sending' = FALSE
    BY <1>8, Zenon DEF Send, TypeOK
  <2>2. /\ outcome' \in [Requests -> Results]
        /\ \A r \in Requests : r # sent' => outcome'[r] = results[r]
        /\ outcome'[sent'] = "failed"
    BY <1>1, <1>3, <2>1 DEF Results
  <2>3. <<>> \in Rests
    BY SwipeRests
  <2> QED
    BY <1>1, <1>2, <1>3, <1>4, <1>6, <1>8, <2>1, <2>2, <2>3
<1> QED
  BY <1>7, <1>8

\* What Send keeps, for its three callers.
LEMMA Sending ==
  ASSUME TypeOK, Route, FingerSince, SwipeGoesOn, ~sending,
         NEW call \in {"ping", "command"}, NEW text \in Lines, NEW rest \in Operations \cup Rests,
         NEW results \in [Requests -> Results],
         Send(call, text, rest, results),
         \A r \in 1 .. sent : results[r] \in {"failed", "answered"},
         \A r \in Requests : r > sent => results[r] = "unsent",
         \A r \in 1 .. sent : results[r] # "failed" => outcome[r] # "failed",
         call = "ping" => /\ text = "ping" /\ rest \in Operations /\ vm = "up"
                          /\ \A r \in 1 .. sent : says[r] = "ping",
         call = "command" => rest \in Rests /\ (text = "touch" => rest # <<>>),
         sent > 0 /\ says[sent] = "touch" /\ results[sent] # "failed" =>
           text \in {"touch", "release"},
         fd' = "open",
         UNCHANGED <<torn, handling, agent, vm, applied, finger>>
  PROVE  Calls' /\ Connecting' /\ SwipeGoesOn' /\ FingerSince'
<1>0. PICK n \in Requests : n = sent + 1
  BY SentLine, Shape
<1>1. /\ sent' = n /\ n \in Requests /\ sent \in Nat /\ Requests \subseteq Nat
      /\ \A r \in 1 .. sent : says'[r] = says[r]
      /\ says'[n] = text
      /\ \A r \in Requests : r # n => outcome'[r] = results[r]
      /\ outcome'[n] \in {"failed", "waiting"}
  <2>1. /\ sent' = sent + 1
        /\ \A r \in 1 .. sent : says'[r] = says[r]
        /\ says'[sent'] = text
        /\ \A r \in Requests : r # sent' => outcome'[r] = results[r]
        /\ outcome'[sent'] \in {"failed", "waiting"}
    BY SentLine
  <2>2. sent' = n
    BY <1>0, <2>1
  <2> QED
    BY <1>0, <2>1, <2>2, Shape
<1>2. vm = "up" => /\ pc' = call /\ todo' = rest /\ outcome'[n] = "waiting"
                   /\ sending' \/ Range(uart') = Range(uart) \cup {n}
  BY <1>0, <1>1, SentLine
<1>3. vm # "up" => /\ pc' = "idle" /\ todo' = <<>> /\ outcome'[n] = "failed"
                   /\ uart' = uart
  BY <1>0, <1>1, SentLine
<1>12. sending' => vm = "up" /\ uart' = uart
  BY SentLine
<1>4. n = sent + 1 /\ 1 .. n = (1 .. sent) \cup {n} /\ \A r \in 1 .. sent : r \in Requests /\ r # n
  <2>1. n \in Nat /\ n = sent + 1 /\ MaxSent \in Nat /\ n <= MaxSent
    BY <1>0, Shape DEF Requests
  <2> QED
    BY <1>1, <2>1 DEF Requests
<1>5. Calls'
  <2>1. \A r \in Requests : r > n => outcome'[r] = "unsent"
    BY <1>1, <1>4
  <2>2. \A r \in 1 .. sent : outcome'[r] \in {"failed", "answered"}
    BY <1>1, <1>4
  <2>3. outcome'[n] \in {"failed", "answered"} \/ pc' # "idle"
    BY <1>2, <1>3
  <2>4. pc' # "idle" => n > 0 /\ outcome'[n] = "waiting" /\ fd' = "open"
    BY <1>1, <1>2, <1>3, <1>4
  <2>5. sending' => pc' # "idle"
    BY <1>2, <1>12
  <2> QED
    BY <1>1, <1>4, <2>1, <2>2, <2>3, <2>4, <2>5 DEF Calls
<1>6. Connecting'
  <2>1. \A r \in 1 .. n : pc' = "ping" => says'[r] = "ping"
    BY <1>1, <1>2, <1>3, <1>4
  <2>2. <<>> \in Rests
    BY SwipeRests
  <2> QED
    BY <1>1, <1>2, <1>3, <2>1, <2>2 DEF Connecting
<1>7. SwipeGoesOn'
  <2> SUFFICES ASSUME NEW r \in 1 .. n, says'[r] = "touch", outcome'[r] # "failed"
               PROVE  IF r < n THEN says'[r + 1] \in {"touch", "release"}
                      ELSE pc' # "ping" /\ todo' # <<>>
    BY <1>1 DEF SwipeGoesOn
  <2>1. CASE r = n
    <3>1. call = "command" /\ text = "touch" /\ vm = "up"
      BY <1>1, <1>3, <2>1
    <3> QED
      BY <1>1, <1>2, <1>4, <2>1, <3>1
  <2>2. CASE r \in 1 .. sent /\ r = sent
    <3>1. says[sent] = "touch" /\ results[sent] # "failed" /\ sent > 0
      BY <1>1, <1>4, <2>2
    <3>2. text \in {"touch", "release"}
      BY <3>1
    <3> QED
      BY <1>1, <1>4, <2>2, <3>2
  <2>3. CASE r \in 1 .. sent /\ r # sent
    <3>1. says[r] = "touch" /\ outcome[r] # "failed" /\ r < sent
      BY <1>1, <1>4, <2>3
    <3>2. says[r + 1] \in {"touch", "release"}
      BY <2>3, <3>1 DEF SwipeGoesOn
    <3>3. r + 1 \in 1 .. sent /\ r < n
      BY <1>1, <1>4, <2>3, <3>1
    <3> QED
      BY <1>1, <3>2, <3>3
  <2> QED
    BY <1>4, <2>1, <2>2, <2>3
<1>8. FingerSince'
  <2>1. CASE vm = "up"
    <3>1. /\ Pending \subseteq Pending' /\ Pending' \subseteq Pending \cup {n}
          /\ n \in Pending' \/ sending'
      BY <1>2, <1>12, <2>1 DEF Pending, Handled
    <3>2. ASSUME NEW t \in 1 .. sent, Behind(t)
          PROVE  Behind(t)'
      <4> SUFFICES ASSUME NEW q \in 1 .. n, q > t, says'[q] \in Touching
                   PROVE  q \in Pending' \/ outcome'[q] = "failed" \/ (q = n /\ sending')
        BY <1>1 DEF Behind
      <4>1. CASE q = n
        BY <3>1, <4>1
      <4>2. CASE q \in 1 .. sent
        <5>1. q \in Pending \/ outcome[q] = "failed"
          BY <1>1, <3>2, <4>2 DEF Behind
        <5> QED
          BY <1>1, <1>4, <3>1, <4>2, <5>1
      <4> QED
        BY <1>4, <4>1, <4>2
    <3>3. Behind(n)'
      <4>1. \A q \in 1 .. n : ~(q > n)
        BY <1>1
      <4> QED
        BY <1>1, <4>1 DEF Behind
    <3>4. /\ Pending \cup torn \subseteq 1 .. sent
          /\ \A t \in Range(applied) : t \in 1 .. sent
      BY SentLines
    <3>6. \A t \in Pending' : Behind(t)'
      BY <3>1, <3>2, <3>3, <3>4 DEF FingerSince
    <3>7. finger' => \E t \in Range(applied') : says'[t] = "touch" /\ Behind(t)'
      BY <1>1, <3>2, <3>4 DEF FingerSince
    <3>8. \A t \in torn \cap Pending' : ~finger /\ \A q \in Pending' : t <= q
      <4> SUFFICES ASSUME NEW t \in torn, t \in Pending', NEW q \in Pending'
                   PROVE  ~finger /\ t <= q
        BY <2>1, <3>1
      <4>1. t \in Pending /\ t <= sent /\ t \in Nat
        BY <1>1, <1>4, <3>1, <3>4
      <4> QED
        BY <1>1, <1>4, <3>1, <4>1 DEF FingerSince
    <3> QED
      BY <2>1, <3>6, <3>7, <3>8 DEF FingerSince
  <2>2. CASE vm # "up"
    <3>1. vm = "down" /\ agent = "down" /\ uart = <<>> /\ ~finger /\ handling = Banner
      BY <2>2 DEF TypeOK, FingerSince
    <3>2. uart' = <<>> /\ Pending' = {}
      BY <1>3, <2>2, <3>1, NoLines DEF Pending, Handled
    <3> QED
      BY <2>2, <3>1, <3>2 DEF FingerSince
  <2> QED
    BY <2>1, <2>2
<1> QED
  BY <1>5, <1>6, <1>7, <1>8

--------------------------------------------------------------------------------
(* What a step that does not disturb a part of IInv keeps of it.           *)

LEMMA BooksStay ==
  ASSUME Calls, Connecting, SwipeGoesOn, FullByFailures, sending' => sending,
         UNCHANGED <<pc, fd, sent, todo, says, outcome>>
  PROVE  Calls' /\ Connecting' /\ SwipeGoesOn' /\ FullByFailures'
BY DEF Calls, Connecting, SwipeGoesOn, FullByFailures

LEMMA GuestStays ==
  ASSUME FingerSince,
         \A q \in 1 .. sent : outcome[q] = "failed" \/ (q = sent /\ sending) =>
           outcome'[q] = "failed" \/ (q = sent /\ sending'),
         UNCHANGED <<sent, says, uart, torn, handling, agent, vm, applied, finger>>
  PROVE  FingerSince'
<1>1. Pending' = Pending
  BY DEF Pending, Handled
<1>2. \A t : Behind(t) => Behind(t)'
  BY <1>1 DEF Behind
<1> QED
  BY <1>1, <1>2 DEF FingerSince

\* No request is answered, and nothing new is under way to the host.
LEMMA RepliesStay ==
  ASSUME AnswersInOrder, Replied,
         \A r \in Requests : outcome'[r] = "answered" => outcome[r] = "answered",
         UNCHANGED reply,
         Range(applied) \subseteq Range(applied'), Replies' \subseteq Replies
  PROVE  AnswersInOrder' /\ Replied'
<1>1. AnswersInOrder'
  BY DEF AnswersInOrder, Answered
<1>2. Replied'
  <2> SUFFICES ASSUME NEW r \in Requests, outcome'[r] = "answered"
               PROVE  /\ reply[r] \in Range(applied') /\ reply[r] <= r
                      /\ Before({reply[r]}, Replies')
    BY DEF Replied, Answered, Before
  <2>1. reply[r] \in Range(applied) /\ reply[r] <= r /\ Before({reply[r]}, Replies)
    BY DEF Replied, Answered
  <2> QED
    BY <2>1 DEF Before
<1> QED
  BY <1>1, <1>2

\* The guest does nothing, and what was under way is still so, or lost, or read.
LEMMA RouteStays ==
  ASSUME Route, Written \in Int, Written' \in Int, Written <= Written',
         Increasing(rxbuf'), Increasing(wire'), Increasing(uart'),
         Before(LinesOf(rxbuf'), LinesOf(wire')), Replies' \subseteq Replies,
         Range(uart') \subseteq Range(uart) \cup ((1 .. Written') \ (1 .. Written)),
         torn \subseteq torn', torn' \subseteq torn \cup Range(uart'),
         UNCHANGED <<handling, applied>>
  PROVE  Route'
<1> DEFINE new == (1 .. Written') \ (1 .. Written)
<1>1. Handled' = Handled /\ Pending' \subseteq Pending \cup new
  BY DEF Handled, Pending
<1>2. Increasing(applied)' /\ Increasing(rxbuf)' /\ Increasing(wire)' /\ Increasing(uart)'
  BY DEF Route, Increasing
<1>3. Before(LinesOf(rxbuf), LinesOf(wire))'
  BY DEF Before, LinesOf
<1>4. Range(applied) \cup Replies \cup Pending \cup torn \subseteq 1 .. Written
  BY DEF Route
<1>5. \A a \in 1 .. Written, b \in new : a < b
  OBVIOUS
<1>6. Before(Range(applied) \cup Replies, Pending)'
  <2>1. Before(Range(applied) \cup Replies, Pending \cup new)
    BY <1>4, <1>5 DEF Route, Before
  <2> QED
    BY <1>1, <2>1 DEF Before
<1>7. Before(Handled, Range(uart))'
  <2>1. Handled \subseteq Pending
    BY DEF Pending
  <2>2. Before(Handled, Range(uart) \cup new)
    BY <1>4, <1>5, <2>1 DEF Route, Before
  <2> QED
    BY <1>1, <2>2 DEF Before
<1>8. (Replies \subseteq Range(applied) \cup torn)'
  BY DEF Route
<1>9. (Range(applied) \cup Replies \cup Pending \cup torn \subseteq 1 .. Written)'
  <2>1. 1 .. Written \subseteq 1 .. Written' /\ Range(uart') \subseteq Pending'
    BY DEF Pending
  <2> QED
    BY <1>1, <1>4, <2>1
<1> QED
  BY <1>2, <1>3, <1>6, <1>7, <1>8, <1>9 DEF Route

LEMMA Typed ==
  ASSUME NEW s \in Seq(Nat), NEW S, Range(s) \subseteq S
  PROVE  s \in Seq(S)
BY SeqOfRange, SeqMonotonic

\* Of the first n requests, as many were answered as there are replies they could
\* have been given, and the others failed.
LEMMA Failures ==
  ASSUME NEW n \in Nat, NEW T \in SUBSET Nat, IsFiniteSet(T), NEW out, NEW rep,
         \A q \in 1 .. n : out[q] \in {"failed", "answered"},
         \A q \in 1 .. n : out[q] = "answered" => rep[q] \in T,
         \A p, q \in 1 .. n :
           p < q /\ out[p] = "answered" /\ out[q] = "answered" => rep[p] < rep[q]
  PROVE  n <= Cardinality({q \in 1 .. n : out[q] = "failed"}) + Cardinality(T)
<1> DEFINE F == {q \in 1 .. n : out[q] = "failed"}
           A == {q \in 1 .. n : out[q] = "answered"}
<1>1. IsFiniteSet(1 .. n) /\ Cardinality(1 .. n) = n
  <2>1. n \in Int /\ 1 \in Int /\ n >= 0
    OBVIOUS
  <2>2. IsFiniteSet(1 .. n) /\ Cardinality(1 .. n) = IF 1 > n THEN 0 ELSE n - 1 + 1
    BY <2>1, FS_Interval
  <2> QED
    BY <2>1, <2>2
<1>2. IsFiniteSet(F) /\ IsFiniteSet(A)
  BY <1>1, FS_Subset
<1>3. Cardinality(A) <= Cardinality(T)
  <2> DEFINE f == [q \in A |-> rep[q]]
  <2>1. f \in [A -> T]
    OBVIOUS
  <2>2. \A p, q \in A : f[p] = f[q] => p = q
    <3> SUFFICES ASSUME NEW p \in A, NEW q \in A, p # q
                 PROVE  rep[p] # rep[q]
      OBVIOUS
    <3>1. p \in 1 .. n /\ q \in 1 .. n /\ out[p] = "answered" /\ out[q] = "answered"
      OBVIOUS
    <3>2. rep[p] \in Nat /\ rep[q] \in Nat
      BY <3>1
    <3>3. p < q \/ q < p
      BY <3>1
    <3>4. rep[p] < rep[q] \/ rep[q] < rep[p]
      BY <3>1, <3>3
    <3> QED
      BY <3>2, <3>4
  <2>3. f \in Injection(A, T)
    BY <2>1, <2>2 DEF Injection, IsInjective
  <2> QED
    BY <2>3, FS_Injection
<1>4. Cardinality(F) + Cardinality(A) = n
  <2>1. 1 .. n = F \cup A /\ F \cap A = {}
    OBVIOUS
  <2>2. Cardinality(F \cup A) = Cardinality(F) + Cardinality(A) - Cardinality(F \cap A)
    BY <1>2, FS_Union
  <2>3. Cardinality(F \cap A) = 0
    BY <2>1, FS_EmptySet
  <2>4. Cardinality(F) \in Nat /\ Cardinality(A) \in Nat
    BY <1>2, FS_CardinalityType
  <2>5. Cardinality(F \cup A) = n
    BY <1>1, <2>1
  <2> HIDE DEF F, A
  <2> QED
    BY <2>2, <2>3, <2>4, <2>5
<1>5. Cardinality(F) \in Nat /\ Cardinality(A) \in Nat /\ Cardinality(T) \in Nat
  BY <1>2, FS_CardinalityType
<1> HIDE DEF F, A
<1>6. n <= Cardinality(F) + Cardinality(T)
  BY <1>3, <1>4, <1>5
<1> QED
  BY <1>6 DEF F

LEMMA FailedNat ==
  ASSUME NEW n \in Nat, NEW out
  PROVE  Cardinality({q \in 1 .. n : out[q] = "failed"}) \in Nat
<1>1. IsFiniteSet(1 .. n)
  BY FS_Interval
<1>2. {q \in 1 .. n : out[q] = "failed"} \in SUBSET (1 .. n)
  OBVIOUS
<1> QED
  BY <1>1, <1>2, FS_Subset, FS_CardinalityType

\* A line that waits for the guest is not one whose reply has been read: when the
\* first n requests are done with, as many of them have failed as lines wait.
LEMMA WaitingLines ==
  ASSUME TypeOK, Route, NEW n \in Nat, Range(applied) \cup Pending \subseteq 1 .. n,
         NEW out, NEW rep,
         \A q \in 1 .. n : out[q] \in {"failed", "answered"},
         \A q \in 1 .. n : out[q] = "answered" => rep[q] \in Range(applied),
         \A p, q \in 1 .. n :
           p < q /\ out[p] = "answered" /\ out[q] = "answered" => rep[p] < rep[q]
  PROVE  Len(uart) <= Cardinality({q \in 1 .. n : out[q] = "failed"})
<1> DEFINE U == Range(uart)
           T == (1 .. n) \ U
<1>1. /\ uart \in Seq(Nat) /\ Len(uart) \in Nat /\ Increasing(uart)
      /\ U = {uart[i] : i \in 1 .. Len(uart)} /\ U \subseteq 1 .. n
      /\ DOMAIN uart = 1 .. Len(uart)
  BY Shape, LenProperties, RangeEquality DEF Route, Pending
<1>2. IsFiniteSet(1 .. n) /\ Cardinality(1 .. n) = n
  <2>1. n \in Int /\ 1 \in Int /\ n >= 0
    OBVIOUS
  <2>2. IsFiniteSet(1 .. n) /\ Cardinality(1 .. n) = IF 1 > n THEN 0 ELSE n - 1 + 1
    BY <2>1, FS_Interval
  <2> QED
    BY <2>1, <2>2
<1>3. IsFiniteSet(U) /\ IsFiniteSet(T) /\ T \in SUBSET Nat
  <2>1. U \in SUBSET (1 .. n) /\ T \in SUBSET (1 .. n)
    BY <1>1
  <2> QED
    BY <1>2, <2>1, FS_Subset
<1>4. Len(uart) <= Cardinality(U)
  <2>1. uart \in [1 .. Len(uart) -> U]
    BY <1>1, ElementOfSeq
  <2>2. \A i, j \in 1 .. Len(uart) : uart[i] = uart[j] => i = j
    <3> SUFFICES ASSUME NEW i \in 1 .. Len(uart), NEW j \in 1 .. Len(uart), i < j
                 PROVE  uart[i] # uart[j]
      BY <1>1
    <3>1. uart[i] \in 1 .. n /\ uart[j] \in 1 .. n
      BY <1>1
    <3>2. uart[i] < uart[j]
      BY <1>1, <3>1 DEF Increasing, Banner
    <3> QED
      BY <3>1, <3>2
  <2>3. uart \in Injection(1 .. Len(uart), U)
    BY <2>1, <2>2 DEF Injection, IsInjective
  <2>4. Cardinality(1 .. Len(uart)) <= Cardinality(U)
    BY <1>3, <2>3, FS_Injection
  <2>5. 1 \in Int /\ Len(uart) \in Int /\ Len(uart) >= 0
    BY <1>1
  <2>6. Cardinality(1 .. Len(uart)) = IF 1 > Len(uart) THEN 0 ELSE Len(uart) - 1 + 1
    BY <2>5, FS_Interval
  <2> QED
    BY <2>4, <2>5, <2>6
<1>5. Cardinality(U) + Cardinality(T) = n
  <2>1. U \cup T = 1 .. n /\ U \cap T = {}
    BY <1>1
  <2>2. Cardinality(U \cup T) = Cardinality(U) + Cardinality(T) - Cardinality(U \cap T)
    BY <1>3, FS_Union
  <2>3. Cardinality(U \cap T) = 0
    BY <2>1, FS_EmptySet
  <2>4. Cardinality(U) \in Nat /\ Cardinality(T) \in Nat
    BY <1>3, FS_CardinalityType
  <2>5. Cardinality(U \cup T) = n
    BY <1>2, <2>1
  <2> HIDE DEF U, T
  <2> QED
    BY <2>2, <2>3, <2>4, <2>5
<1>6. Range(applied) \subseteq T
  <2> SUFFICES ASSUME NEW x \in Range(applied), x \in U
               PROVE  FALSE
    OBVIOUS
  <2>1. x < x /\ x \in 1 .. n
    BY DEF Route, Before, Pending
  <2> QED
    BY <2>1
<1> DEFINE F == {q \in 1 .. n : out[q] = "failed"}
<1>7. n <= Cardinality(F) + Cardinality(T)
  <2>1. \A q \in 1 .. n : out[q] = "answered" => rep[q] \in T
    BY <1>6
  <2> HIDE DEF T
  <2> QED
    BY <1>3, <2>1, Failures
<1>8. Cardinality(F) \in Nat /\ Cardinality(U) \in Nat /\ Cardinality(T) \in Nat
  BY <1>3, FailedNat, FS_CardinalityType
<1> HIDE DEF F, U, T
<1>9. Len(uart) <= Cardinality(F)
  BY <1>1, <1>4, <1>5, <1>7, <1>8
<1> QED
  BY <1>9 DEF F

--------------------------------------------------------------------------------
(* A request that ends without a reply.                                    *)

\* ReadRefusal, TimeOut, Disconnected and Interrupted.
LEMMA Failing ==
  ASSUME IInv, pc # "idle", Failed,
         pc = "ping" => CloseLink,
         pc # "ping" => /\ UNCHANGED <<fd, wire, uart>>
                        /\ rxbuf' = rxbuf \/ (rxbuf # <<>> /\ rxbuf' = Tail(rxbuf))
  PROVE  IInv'
<1>0. /\ pc' = "idle" /\ todo' = <<>> /\ sending' = FALSE
      /\ outcome' = [outcome EXCEPT ![sent] = "failed"]
      /\ UNCHANGED <<sent, skipped, clock, says, reply, torn, handling, agent, vm, restarts,
                     applied, finger>>
  BY DEF Failed
<1>1. /\ sent \in Requests /\ sent \in Nat /\ outcome[sent] = "waiting" /\ fd = "open"
      /\ outcome \in [Requests -> Results]
  BY Shape DEF IInv, Calls, TypeOK, Results, Requests
<1>2. /\ rxbuf \in Seq(Nat) /\ wire \in Seq(Nat) /\ uart \in Seq(Nat)
      /\ Range(rxbuf) \subseteq Requests \cup {Banner}
      /\ Range(wire) \subseteq Requests \cup {Banner} /\ Range(uart) \subseteq Requests
      /\ Increasing(rxbuf) /\ Increasing(wire) /\ Increasing(uart)
      /\ Before(LinesOf(rxbuf), LinesOf(wire))
  BY Shape, RangeOfSeq DEF IInv, TypeOK, Route
<1>3. /\ rxbuf' \in Seq(Nat) /\ Range(rxbuf') \subseteq Range(rxbuf) /\ Increasing(rxbuf')
      /\ wire' \in Seq(Nat) /\ Range(wire') \subseteq Range(wire) /\ Increasing(wire')
      /\ uart' \in Seq(Nat) /\ Range(uart') \subseteq Range(uart) /\ Increasing(uart')
      /\ fd' \in {"closed", "open"}
  <2>1. CASE pc = "ping"
    <3>1. PICK n \in 0 .. Len(uart) : uart' = SubSeq(uart, 1, n)
      BY <2>1 DEF CloseLink
    <3>2. uart' \in Seq(Nat) /\ Range(uart') \subseteq Range(uart) /\ Increasing(uart')
      BY <1>2, <3>1, CutLines
    <3> QED
      BY <2>1, <3>2, NoLines DEF CloseLink
  <2>2. CASE pc # "ping"
    <3>1. /\ rxbuf' \in Seq(Nat) /\ Range(rxbuf') \subseteq Range(rxbuf)
          /\ Increasing(rxbuf')
      BY <1>2, <2>2, HeadLine
    <3> QED
      BY <1>1, <1>2, <2>2, <3>1
  <2> QED
    BY <2>1, <2>2
<1>4. \A r \in Requests : outcome'[r] = IF r = sent THEN "failed" ELSE outcome[r]
  BY <1>0, <1>1
<1>5. TypeOK'
  <2>1. /\ rxbuf' \in Seq(Requests \cup {Banner}) /\ wire' \in Seq(Requests \cup {Banner})
        /\ uart' \in Seq(Requests)
    BY <1>2, <1>3, Typed
  <2>2. outcome' \in [Requests -> {"unsent", "waiting", "failed", "answered"}]
    BY <1>0, <1>1 DEF Results
  <2>3. \A r \in Requests : outcome'[r] = "answered" <=> reply[r] # Banner
    BY <1>1, <1>4 DEF IInv, TypeOK
  <2>4. todo' \in Operations \cup Rests
    BY <1>0, SwipeRests
  <2>5. TypeOK
    BY DEF IInv
  <2> QED
    BY <1>0, <1>3, <2>1, <2>2, <2>3, <2>4, <2>5 DEF TypeOK
<1>6. AnswersInOrder' /\ Replied'
  <2>1. \A r \in Requests : outcome'[r] = "answered" => outcome[r] = "answered"
    BY <1>4
  <2>2. Replies' \subseteq Replies
    BY <1>3 DEF Replies, LinesOf
  <2> QED
    BY <1>0, <2>1, <2>2, RepliesStay DEF IInv
<1>7. Route'
  <2>1. LinesOf(rxbuf') \subseteq LinesOf(rxbuf) /\ LinesOf(wire') \subseteq LinesOf(wire)
    BY <1>3 DEF LinesOf
  <2>2. Before(LinesOf(rxbuf'), LinesOf(wire')) /\ Replies' \subseteq Replies
    BY <1>2, <2>1 DEF Before, Replies
  <2>3. Written \in Int /\ Written' \in Int /\ Written <= Written'
    BY <1>0, <1>1 DEF Written
  <2> QED
    BY <1>0, <1>3, <2>2, <2>3, RouteStays DEF IInv
<1>8. Calls' /\ FullByFailures'
  BY <1>0, <1>1, <1>4 DEF IInv, Calls, Requests, FullByFailures
<1>9. Connecting'
  <2>1. <<>> \in Rests
    BY SwipeRests
  <2> QED
    BY <1>0, <1>1, <2>1 DEF IInv, Connecting
<1>10. SwipeGoesOn'
  <2> SUFFICES ASSUME NEW r \in 1 .. sent, says[r] = "touch", outcome'[r] # "failed"
               PROVE  r < sent /\ says[r + 1] \in {"touch", "release"}
    BY <1>0 DEF SwipeGoesOn
  <2>1. r \in Requests /\ r <= sent
    BY <1>1, Bounds DEF Requests
  <2>2. r # sent
    BY <1>4, <2>1
  <2>3. r < sent
    BY <1>1, <2>1, <2>2
  <2> QED
    BY <1>4, <2>1, <2>2, <2>3 DEF IInv, SwipeGoesOn
<1>11. FingerSince'
  <2>1. CASE pc = "ping"
    <3>1. \A r \in 1 .. sent : says[r] \notin Touching
      BY <2>1 DEF IInv, Connecting, Touching
    <3>2. \A t : Behind(t)'
      BY <1>0, <3>1 DEF Behind
    <3>3. ~finger
      <4>1. \A t \in Range(applied) : says[t] # "touch"
        BY <3>1, SentLines DEF IInv, Touching
      <4> QED
        BY <4>1 DEF IInv, FingerSince
    <3>4. vm = "down" => agent = "down" /\ uart' = <<>>
      <4>1. ASSUME uart = <<>>
            PROVE  uart' = <<>>
        <5>1. PICK n \in 0 .. Len(uart) : uart' = SubSeq(uart, 1, n)
          BY <2>1 DEF CloseLink
        <5> QED
          BY <4>1, <5>1
      <4> QED
        BY <4>1 DEF IInv, FingerSince
    <3>5. Pending' \subseteq Pending
      BY <1>0, <1>3 DEF Pending, Handled
    <3> QED
      BY <1>0, <3>2, <3>3, <3>4, <3>5 DEF IInv, FingerSince
  <2>2. CASE pc # "ping"
    <3>1. \A q \in 1 .. sent : q \in Requests
      BY <1>1, Bounds DEF Requests
    <3> QED
      BY <1>0, <1>4, <2>2, <3>1, GuestStays DEF IInv
  <2> QED
    BY <2>1, <2>2
<1> QED
  BY <1>5, <1>6, <1>7, <1>8, <1>9, <1>10, <1>11 DEF IInv

--------------------------------------------------------------------------------
(* A request that is given a line for its reply.                           *)

\* The line is one the guest has carried out, not later than the request, later
\* than all replies read before and earlier than all that are still to be read.
LEMMA Answering ==
  ASSUME IInv, pc # "idle", rxbuf # <<>>, Head(rxbuf) \notin torn \cup {Banner},
         rxbuf' = Tail(rxbuf),
         reply' = [reply EXCEPT ![sent] = Head(rxbuf)],
         \A r \in Requests : outcome'[r] = "answered" <=> r = sent \/ outcome[r] = "answered",
         UNCHANGED <<wire, applied>>
  PROVE  /\ AnswersInOrder' /\ Replied'
         /\ reply' \in [Requests -> Requests \cup {Banner}]
         /\ \A r \in Requests : outcome'[r] = "answered" <=> reply'[r] # Banner
         /\ rxbuf' \in Seq(Requests \cup {Banner}) /\ Increasing(rxbuf')
         /\ Replies' \subseteq Replies
         /\ Before(LinesOf(rxbuf'), LinesOf(wire'))
<1>1. /\ sent \in Requests /\ sent \in Nat /\ outcome[sent] = "waiting"
      /\ rxbuf \in Seq(Nat) /\ Increasing(rxbuf) /\ Requests \subseteq Nat
      /\ Range(rxbuf) \subseteq Requests \cup {Banner}
      /\ Before(LinesOf(rxbuf), LinesOf(wire))
      /\ Replies \subseteq Range(applied) \cup torn
      /\ Range(applied) \subseteq 1 .. sent
  <2>1. IInv /\ TypeOK /\ Route
    BY DEF IInv
  <2>2. Range(rxbuf) \subseteq Requests \cup {Banner}
    BY <2>1, RangeOfSeq DEF TypeOK
  <2>3. sent \in Requests /\ outcome[sent] = "waiting"
    BY <2>1, Shape DEF IInv, Calls, Requests
  <2>4. Range(applied) \subseteq 1 .. sent
    BY <2>1, SentLines
  <2> QED
    BY <2>1, <2>2, <2>3, <2>4, Shape DEF Route
<1>2. PICK k \in Nat : k = Head(rxbuf)
  BY <1>1, HeadLine
<1>3. /\ k # Banner /\ k \in LinesOf(rxbuf) /\ Range(rxbuf') \subseteq Range(rxbuf)
      /\ rxbuf' \in Seq(Nat) /\ Increasing(rxbuf')
      /\ LinesOf(rxbuf') \subseteq LinesOf(rxbuf)
      /\ Before({k}, LinesOf(rxbuf'))
  <2>1. /\ Range(rxbuf) = {k} \cup Range(rxbuf')
        /\ rxbuf' \in Seq(Nat) /\ Increasing(rxbuf')
        /\ Before({k} \ {Banner}, LinesOf(rxbuf'))
    BY <1>1, <1>2, HeadLine
  <2>2. k # Banner /\ {k} \ {Banner} = {k}
    BY <1>2
  <2> QED
    BY <2>1, <2>2 DEF LinesOf
<1>4. Before({k}, LinesOf(wire))
  BY <1>1, <1>3 DEF Before
<1>5. k \in Range(applied) /\ k <= sent /\ k \in Requests
  <2>1. k \in Range(applied) /\ k \in 1 .. sent
    BY <1>1, <1>2, <1>3 DEF Replies
  <2>2. k \in Requests
    BY <1>1, <1>3 DEF LinesOf
  <2> QED
    BY <2>1, <2>2
<1>6. \A r \in Requests : reply'[r] = IF r = sent THEN k ELSE reply[r]
  BY <1>1, <1>2 DEF IInv, TypeOK
<1>7. \A r \in Requests : outcome[r] = "answered" => r < sent
  <2> SUFFICES ASSUME NEW r \in Requests, outcome[r] = "answered"
               PROVE  r < sent
    OBVIOUS
  <2>1. ~(r > sent) /\ r # sent
    BY <1>1 DEF IInv, Calls
  <2> QED
    BY <1>1, <2>1
<1>8. AnswersInOrder'
  <2> SUFFICES ASSUME NEW q \in Requests, NEW r \in Requests, q < r,
                      outcome'[q] = "answered", outcome'[r] = "answered"
               PROVE  reply'[q] < reply'[r]
    BY DEF AnswersInOrder, Answered
  <2>1. q # sent /\ outcome[q] = "answered"
    BY <1>1, <1>7
  <2>2. CASE r = sent
    <3>1. reply[q] < k
      BY <1>3, <2>1 DEF IInv, Replied, Answered, Before, Replies
    <3> QED
      BY <1>6, <2>1, <2>2, <3>1
  <2>3. CASE r # sent
    <3>1. outcome[r] = "answered"
      BY <2>3
    <3> QED
      BY <1>6, <2>1, <2>3, <3>1 DEF IInv, AnswersInOrder, Answered
  <2> QED
    BY <2>2, <2>3
<1>9. Replied'
  <2> SUFFICES ASSUME NEW r \in Requests, outcome'[r] = "answered"
               PROVE  /\ reply'[r] \in Range(applied) /\ reply'[r] <= r
                      /\ Before({reply'[r]}, LinesOf(rxbuf') \cup LinesOf(wire))
    BY DEF Replied, Answered, Before, LinesOf, Replies
  <2>1. CASE r = sent
    <3>1. reply'[r] = k /\ Before({k}, LinesOf(rxbuf') \cup LinesOf(wire))
      BY <1>3, <1>4, <1>6, <2>1 DEF Before
    <3> QED
      BY <1>5, <2>1, <3>1
  <2>2. CASE r # sent
    <3>1. /\ reply[r] \in Range(applied) /\ reply[r] <= r
          /\ Before({reply[r]}, LinesOf(rxbuf) \cup LinesOf(wire))
      BY <2>2 DEF IInv, Replied, Answered, Replies
    <3>2. Before({reply[r]}, LinesOf(rxbuf') \cup LinesOf(wire))
      BY <1>3, <3>1 DEF Before
    <3> QED
      BY <1>6, <2>2, <3>1, <3>2
  <2> QED
    BY <2>1, <2>2
<1>10. reply' \in [Requests -> Requests \cup {Banner}]
  <2>1. reply \in [Requests -> Requests \cup {Banner}]
    BY DEF IInv, TypeOK
  <2> QED
    BY <1>1, <1>2, <1>5, <2>1
<1>11. \A r \in Requests : outcome'[r] = "answered" <=> reply'[r] # Banner
  BY <1>3, <1>6 DEF IInv, TypeOK
<1>12. rxbuf' \in Seq(Requests \cup {Banner})
  BY <1>1, <1>3, Typed
<1>13. Before(LinesOf(rxbuf'), LinesOf(wire')) /\ Replies' \subseteq Replies
  BY <1>1, <1>3 DEF Before, Replies
<1> QED
  BY <1>3, <1>8, <1>9, <1>10, <1>11, <1>12, <1>13

--------------------------------------------------------------------------------
(* The steps of the host.                                                  *)

\* What Send leaves to be said by its callers.
LEMMA SendTyped ==
  ASSUME TypeOK, Route, ~sending,
         NEW call \in {"ping", "command"}, NEW text \in Lines, NEW rest \in Operations \cup Rests,
         NEW results \in [Requests -> Results],
         Send(call, text, rest, results),
         fd' \in {"closed", "open"}, rxbuf' \in Seq(Requests \cup {Banner}),
         reply' \in [Requests -> Requests \cup {Banner}],
         \A r \in Requests : outcome'[r] = "answered" <=> reply'[r] # Banner,
         UNCHANGED <<wire, torn, handling, agent, vm, restarts, applied, finger>>
  PROVE  TypeOK'
<1>1. /\ sent' \in 0 .. MaxSent /\ pc' \in {"idle", "ping", "command"}
      /\ todo' \in Operations \cup Rests /\ skipped' \in BOOLEAN
      /\ clock' \in {"running", "expired"}
      /\ says' \in Seq(Lines) /\ Len(says') = sent'
      /\ outcome' \in [Requests -> {"unsent", "waiting", "failed", "answered"}]
      /\ uart' \in Seq(Requests) /\ sending' \in BOOLEAN
  BY SentLine DEF Results
<1>2. finger' \in BOOLEAN
  BY Zenon DEF TypeOK
<1> QED
  BY <1>1, <1>2 DEF TypeOK

LEMMA NewRequest ==
  ASSUME IInv, pc = "idle",
         NEW call \in {"ping", "command"}, NEW text \in Lines, NEW rest \in Operations \cup Rests,
         Send(call, text, rest, outcome),
         call = "ping" => /\ text = "ping" /\ rest \in Operations /\ vm = "up"
                          /\ \A r \in 1 .. sent : says[r] = "ping",
         call = "command" => rest \in Rests /\ (text = "touch" => rest # <<>>),
         sent > 0 /\ says[sent] = "touch" /\ outcome[sent] # "failed" =>
           text \in {"touch", "release"},
         fd' = "open",
         UNCHANGED <<rxbuf, reply, wire, torn, handling, agent, vm, restarts, applied, finger>>
  PROVE  IInv'
<1>1. outcome \in [Requests -> Results] /\ sent \in Nat
  BY Shape DEF IInv, TypeOK, Results
<1>2. /\ ~sending /\ \A r \in 1 .. sent : outcome[r] \in {"failed", "answered"}
      /\ \A r \in Requests : r > sent => outcome[r] = "unsent"
  BY DEF IInv, Calls
<1>3. Calls' /\ Connecting' /\ SwipeGoesOn' /\ FingerSince'
  BY <1>1, <1>2, Sending DEF IInv, Calls
<1>4. /\ sent' = sent + 1 /\ sent' \in Requests
      /\ \A r \in Requests : r # sent' => outcome'[r] = outcome[r]
      /\ outcome'[sent'] \in {"failed", "waiting"}
      /\ Increasing(uart') /\ Range(uart') \subseteq Range(uart) \cup {sent + 1}
      /\ sending' => uart' = uart /\ LinkCap <= Len(uart)
  BY <1>1, <1>2, SentLine DEF IInv
<1>5. outcome[sent'] = "unsent"
  BY <1>1, <1>2, <1>4
<1>6. \A r \in Requests : outcome'[r] = "answered" <=> outcome[r] = "answered"
  BY <1>4, <1>5
<1>7. TypeOK'
  <2>1. /\ rxbuf' \in Seq(Requests \cup {Banner})
        /\ reply' \in [Requests -> Requests \cup {Banner}]
        /\ \A r \in Requests : outcome'[r] = "answered" <=> reply'[r] # Banner
    BY <1>6 DEF IInv, TypeOK
  <2> QED
    BY <1>1, <1>2, <2>1, SendTyped DEF IInv
<1>8. AnswersInOrder' /\ Replied'
  BY <1>6, RepliesStay DEF IInv, Replies
<1>9. Route'
  <2>1. /\ Written = sent /\ Written' \in Int /\ Written <= Written'
        /\ ~sending' => sent + 1 \in (1 .. Written') \ (1 .. Written)
    BY <1>1, <1>2, <1>4 DEF Written
  <2>2. Range(uart') \subseteq Range(uart) \cup ((1 .. Written') \ (1 .. Written))
    BY <1>4, <2>1
  <2>3. /\ Increasing(rxbuf') /\ Increasing(wire') /\ Replies' = Replies
        /\ Before(LinesOf(rxbuf'), LinesOf(wire'))
    BY DEF IInv, Route, Replies
  <2> QED
    BY <1>1, <1>4, <2>1, <2>2, <2>3, RouteStays DEF IInv
<1>10. FullByFailures'
  <2> SUFFICES ASSUME sending'
               PROVE  LinkCap <= Cardinality({q \in 1 .. sent : outcome'[q] = "failed"})
    BY <1>1, <1>4 DEF FullByFailures
  <2>1. \A q \in 1 .. sent : q \in Requests /\ q # sent'
    BY <1>1, <1>4, Bounds DEF Requests
  <2>2. /\ \A q \in 1 .. sent : outcome'[q] \in {"failed", "answered"}
        /\ \A q \in 1 .. sent : outcome'[q] = "answered" => reply[q] \in Range(applied)
    BY <1>2, <1>4, <2>1 DEF IInv, Replied, Answered
  <2>3. \A p, q \in 1 .. sent :
          p < q /\ outcome'[p] = "answered" /\ outcome'[q] = "answered" => reply[p] < reply[q]
    BY <1>6, <2>1 DEF IInv, AnswersInOrder, Answered
  <2>4. Range(applied) \cup Pending \subseteq 1 .. sent
    BY SentLines DEF IInv
  <2>5. Len(uart) <= Cardinality({q \in 1 .. sent : outcome'[q] = "failed"})
    BY <1>1, <2>2, <2>3, <2>4, WaitingLines DEF IInv
  <2>6. /\ LinkCap \in Nat /\ Len(uart) \in Nat
        /\ Cardinality({q \in 1 .. sent : outcome'[q] = "failed"}) \in Nat
    BY <1>1, Shape, Bounds, LenProperties, FailedNat DEF IInv
  <2> QED
    BY <1>4, <2>5, <2>6
<1> QED
  BY <1>3, <1>7, <1>8, <1>9, <1>10 DEF IInv

LEMMA CallAgainKeeps ==
  ASSUME IInv, CallAgain
  PROVE  IInv'
<1>1. PICK lines \in IF todo = <<>> THEN Operations ELSE {todo} :
        Send("command", Head(lines), Tail(lines), outcome)
  BY DEF CallAgain
<1>2. pc = "idle" /\ fd = "open" /\ todo \in Rests
  BY DEF CallAgain, IInv, Connecting
<1>3. /\ Head(lines) \in Lines /\ Tail(lines) \in Rests
      /\ Head(lines) = "touch" => Tail(lines) # <<>>
      /\ todo # <<>> => Head(lines) \in {"touch", "release"}
  <2>1. CASE todo = <<>>
    BY <1>1, <2>1, FirstLine
  <2>2. CASE todo # <<>>
    BY <1>1, <1>2, <2>2, NextLine DEF Lines
  <2> QED
    BY <2>1, <2>2
<1>4. sent > 0 /\ says[sent] = "touch" /\ outcome[sent] # "failed" => todo # <<>>
  <2>1. sent \in Nat
    BY Shape DEF IInv
  <2>2. sent > 0 => sent \in 1 .. sent /\ ~(sent < sent)
    BY <2>1
  <2> QED
    BY <2>2 DEF IInv, SwipeGoesOn
<1>5. UNCHANGED <<fd, rxbuf, reply, wire, torn, handling, agent, vm, restarts, applied, finger>>
  BY DEF CallAgain
<1> QED
  BY <1>1, <1>2, <1>3, <1>4, <1>5, NewRequest

LEMMA CallFirstKeeps ==
  ASSUME IInv, CallFirst
  PROVE  IInv'
<1>1. PICK lines \in Operations : Send("ping", "ping", lines, outcome)
  BY DEF CallFirst
<1>2. pc = "idle" /\ vm = "up" /\ fd' = "open" /\ \A r \in 1 .. sent : says[r] = "ping"
  BY DEF CallFirst, IInv, Connecting
<1>3. ~(sent > 0 /\ says[sent] = "touch")
  <2>1. sent \in Nat
    BY Shape DEF IInv
  <2>2. sent > 0 => sent \in 1 .. sent
    BY <2>1
  <2> QED
    BY <1>2, <2>2
<1>4. UNCHANGED <<rxbuf, reply, wire, torn, handling, agent, vm, restarts, applied, finger>>
  BY DEF CallFirst
<1> QED
  BY <1>1, <1>2, <1>3, <1>4, NewRequest DEF Lines

LEMMA ReceiveKeeps ==
  ASSUME IInv, Receive
  PROVE  IInv'
<1>1. PICK n \in 1 .. Len(wire) :
        rxbuf' = SubSeq(wire, 1, n) /\ wire' = SubSeq(wire, n + 1, Len(wire))
  BY DEF Receive
<1>2. UNCHANGED <<pc, fd, sent, sending, skipped, clock, todo, says, outcome, reply, guest>>
  BY DEF Receive
<1>3. /\ wire \in Seq(Nat) /\ Increasing(wire) /\ Increasing(uart) /\ sent \in Nat
      /\ Range(wire) \subseteq Requests \cup {Banner} /\ n \in 0 .. Len(wire)
  BY Shape, RangeOfSeq, LenProperties DEF IInv, TypeOK, Route
<1>4. /\ rxbuf' \in Seq(Nat) /\ Range(rxbuf') \subseteq Range(wire) /\ Increasing(rxbuf')
      /\ wire' \in Seq(Nat) /\ Range(wire') \subseteq Range(wire) /\ Increasing(wire')
      /\ Before(LinesOf(rxbuf'), LinesOf(wire'))
  BY <1>1, <1>3, CutLines
<1>5. Replies' \subseteq Replies /\ Written \in Int /\ Written' = Written
  BY <1>2, <1>3, <1>4 DEF Replies, LinesOf, Written
<1>6. TypeOK'
  <2>1. rxbuf' \in Seq(Requests \cup {Banner}) /\ wire' \in Seq(Requests \cup {Banner})
    BY <1>3, <1>4, Typed
  <2> QED
    BY <1>2, <2>1 DEF IInv, TypeOK, guest
<1>7. AnswersInOrder' /\ Replied'
  BY <1>2, <1>5, RepliesStay DEF IInv, guest
<1>8. Route'
  BY <1>2, <1>3, <1>4, <1>5, RouteStays DEF IInv, guest
<1>9. Calls' /\ Connecting' /\ SwipeGoesOn' /\ FullByFailures'
  BY <1>2, BooksStay DEF IInv
<1>10. FingerSince'
  BY <1>2, GuestStays DEF IInv, guest
<1> QED
  BY <1>6, <1>7, <1>8, <1>9, <1>10 DEF IInv

LEMMA SkipBannerKeeps ==
  ASSUME IInv, SkipBanner
  PROVE  IInv'
<1>1. /\ rxbuf # <<>> /\ rxbuf' = Tail(rxbuf) /\ skipped' = TRUE
      /\ UNCHANGED <<pc, fd, sent, sending, clock, todo, says, outcome, reply, wire, guest>>
  BY DEF SkipBanner
<1>2. /\ rxbuf \in Seq(Nat) /\ Increasing(rxbuf) /\ Increasing(wire) /\ Increasing(uart)
      /\ sent \in Nat /\ Range(rxbuf) \subseteq Requests \cup {Banner}
      /\ Before(LinesOf(rxbuf), LinesOf(wire))
  BY Shape, RangeOfSeq DEF IInv, TypeOK, Route
<1>3. rxbuf' \in Seq(Nat) /\ Range(rxbuf') \subseteq Range(rxbuf) /\ Increasing(rxbuf')
  BY <1>1, <1>2, HeadLine
<1>4. /\ LinesOf(rxbuf') \subseteq LinesOf(rxbuf) /\ Increasing(wire') /\ Increasing(uart')
      /\ Replies' \subseteq Replies /\ Written \in Int /\ Written' = Written /\ wire' = wire
  BY <1>1, <1>2, <1>3 DEF LinesOf, guest, Replies, Written
<1>5. Before(LinesOf(rxbuf'), LinesOf(wire'))
  BY <1>2, <1>4 DEF Before
<1>6. TypeOK'
  <2>1. rxbuf' \in Seq(Requests \cup {Banner})
    BY <1>2, <1>3, Typed
  <2> QED
    BY <1>1, <2>1 DEF IInv, TypeOK, guest
<1>7. AnswersInOrder' /\ Replied'
  BY <1>1, <1>4, RepliesStay DEF IInv, guest
<1>8. Route'
  BY <1>1, <1>2, <1>3, <1>4, <1>5, RouteStays DEF IInv, guest
<1>9. Calls' /\ Connecting' /\ SwipeGoesOn' /\ FullByFailures'
  BY <1>1, BooksStay DEF IInv
<1>10. FingerSince'
  BY <1>1, GuestStays DEF IInv, guest
<1> QED
  BY <1>6, <1>7, <1>8, <1>9, <1>10 DEF IInv

LEMMA ReadReplyKeeps ==
  ASSUME IInv, ReadReply
  PROVE  IInv'
<1>1. /\ pc = "command" /\ pc' = "idle" /\ rxbuf # <<>> /\ ~sending
      /\ Head(rxbuf) \notin torn \cup {Banner} /\ rxbuf' = Tail(rxbuf)
      /\ outcome' = [outcome EXCEPT ![sent] = "answered"]
      /\ reply' = [reply EXCEPT ![sent] = Head(rxbuf)]
      /\ UNCHANGED <<fd, sent, sending, skipped, clock, todo, says, wire, guest>>
  BY DEF ReadReply, Answer, Reading
<1>2. /\ sent \in Requests /\ sent \in Nat /\ outcome[sent] = "waiting"
      /\ Increasing(wire) /\ Increasing(uart)
  BY <1>1, Shape DEF IInv, Calls, Route, Requests
<1>3. /\ outcome' \in [Requests -> Results]
      /\ \A r \in Requests : outcome'[r] = IF r = sent THEN "answered" ELSE outcome[r]
  BY <1>1, <1>2 DEF IInv, TypeOK, Results
<1>4. /\ AnswersInOrder' /\ Replied'
      /\ reply' \in [Requests -> Requests \cup {Banner}]
      /\ \A r \in Requests : outcome'[r] = "answered" <=> reply'[r] # Banner
      /\ rxbuf' \in Seq(Requests \cup {Banner}) /\ Increasing(rxbuf')
      /\ Replies' \subseteq Replies
      /\ Before(LinesOf(rxbuf'), LinesOf(wire'))
  <2>1. \A r \in Requests : outcome'[r] = "answered" <=> r = sent \/ outcome[r] = "answered"
    BY <1>3
  <2>2. pc # "idle" /\ UNCHANGED <<wire, applied>>
    BY <1>1 DEF guest
  <2> QED
    BY <1>1, <2>1, <2>2, Answering
<1>5. TypeOK'
  BY <1>1, <1>3, <1>4 DEF IInv, TypeOK, guest, Results
<1>6. Route'
  <2>1. /\ Increasing(wire') /\ Increasing(uart') /\ wire' = wire /\ uart' = uart
        /\ Written \in Int /\ Written' = Written
    BY <1>1, <1>2 DEF guest, Written
  <2> QED
    BY <1>1, <1>2, <1>4, <2>1, RouteStays DEF IInv, guest
<1>7. Calls' /\ FullByFailures'
  BY <1>1, <1>2, <1>3 DEF IInv, Calls, Requests, FullByFailures
<1>8. Connecting'
  BY <1>1 DEF IInv, Connecting
<1>9. SwipeGoesOn'
  <2> SUFFICES ASSUME NEW r \in 1 .. sent, says[r] = "touch", outcome'[r] # "failed"
               PROVE  IF r < sent THEN says[r + 1] \in {"touch", "release"}
                      ELSE pc' # "ping" /\ todo # <<>>
    BY <1>1 DEF SwipeGoesOn
  <2>1. r \in Requests
    BY <1>2, Bounds DEF Requests
  <2>2. outcome[r] # "failed"
    BY <1>2, <1>3, <2>1
  <2> QED
    BY <1>1, <2>2 DEF IInv, SwipeGoesOn
<1>10. FingerSince'
  <2>1. \A q \in 1 .. sent : outcome[q] = "failed" => outcome'[q] = "failed"
    BY <1>2, <1>3, Bounds DEF Requests
  <2> QED
    BY <1>1, <2>1, GuestStays DEF IInv, guest
<1> QED
  BY <1>4, <1>5, <1>6, <1>7, <1>8, <1>9, <1>10 DEF IInv

LEMMA ReadPongKeeps ==
  ASSUME IInv, ReadPong
  PROVE  IInv'
<1> DEFINE results == [outcome EXCEPT ![sent] = "answered"]
<1>1. /\ pc = "ping" /\ ~sending /\ rxbuf # <<>> /\ Head(rxbuf) \notin torn \cup {Banner}
      /\ rxbuf' = Tail(rxbuf)
      /\ reply' = [reply EXCEPT ![sent] = Head(rxbuf)]
      /\ Send("command", Head(todo), Tail(todo), results)
      /\ UNCHANGED <<fd, wire, torn, handling, agent, vm, restarts, applied, finger>>
  BY DEF ReadPong, Reading
<1>2. /\ sent \in Requests /\ sent \in Nat /\ outcome[sent] = "waiting" /\ fd = "open"
      /\ outcome \in [Requests -> Results]
      /\ \A r \in 1 .. sent : says[r] = "ping" /\ r \in Requests
      /\ todo \in Operations
  BY <1>1, Shape, Bounds DEF IInv, Calls, Connecting, TypeOK, Results, Requests
<1>3. /\ Head(todo) \in Lines /\ Tail(todo) \in Rests
      /\ Head(todo) = "touch" => Tail(todo) # <<>>
  BY <1>2, FirstLine
<1>4. /\ results \in [Requests -> Results]
      /\ \A r \in Requests : results[r] = IF r = sent THEN "answered" ELSE outcome[r]
  BY <1>2 DEF Results
<1> HIDE DEF results
<1>5. /\ \A r \in 1 .. sent : results[r] \in {"failed", "answered"}
      /\ \A r \in 1 .. sent : results[r] # "failed" => outcome[r] # "failed"
      /\ \A r \in Requests : r > sent => results[r] = "unsent"
  BY <1>2, <1>4 DEF IInv, Calls
<1>6. says[sent] # "touch"
  <2>1. sent \in 1 .. sent
    BY <1>2 DEF Requests
  <2> QED
    BY <1>2, <2>1
<1>7. Calls' /\ Connecting' /\ SwipeGoesOn' /\ FingerSince'
  BY <1>1, <1>2, <1>3, <1>4, <1>5, <1>6, Sending DEF IInv
<1>8. /\ sent' = sent + 1 /\ sent' \in Requests
      /\ \A r \in Requests : r # sent' => outcome'[r] = results[r]
      /\ outcome'[sent'] \in {"failed", "waiting"}
      /\ Increasing(uart') /\ Range(uart') \subseteq Range(uart) \cup {sent + 1}
      /\ sending' => uart' = uart /\ LinkCap <= Len(uart)
  BY <1>1, <1>3, <1>4, SentLine DEF IInv
<1>9. outcome[sent'] = "unsent" /\ sent' # sent
  BY <1>2, <1>8 DEF IInv, Calls
<1>10. /\ AnswersInOrder' /\ Replied'
       /\ reply' \in [Requests -> Requests \cup {Banner}]
       /\ \A r \in Requests : outcome'[r] = "answered" <=> reply'[r] # Banner
       /\ rxbuf' \in Seq(Requests \cup {Banner}) /\ Increasing(rxbuf')
       /\ Replies' \subseteq Replies
       /\ Before(LinesOf(rxbuf'), LinesOf(wire'))
  <2>1. \A r \in Requests : outcome'[r] = "answered" <=> r = sent \/ outcome[r] = "answered"
    BY <1>4, <1>8, <1>9
  <2> QED
    BY <1>1, <2>1, Answering
<1>11. TypeOK'
  BY <1>1, <1>2, <1>3, <1>4, <1>10, SendTyped DEF IInv, TypeOK
<1>12. Route'
  <2>1. /\ Written = sent /\ Written' \in Int /\ Written <= Written'
        /\ ~sending' => sent + 1 \in (1 .. Written') \ (1 .. Written)
    BY <1>1, <1>2, <1>8 DEF Written
  <2>2. Range(uart') \subseteq Range(uart) \cup ((1 .. Written') \ (1 .. Written))
    BY <1>8, <2>1
  <2>3. Increasing(wire') /\ wire' = wire
    BY <1>1 DEF IInv, Route
  <2> QED
    BY <1>1, <1>2, <1>8, <1>10, <2>1, <2>2, <2>3, RouteStays DEF IInv
<1>13. FullByFailures'
  <2> SUFFICES ASSUME sending'
               PROVE  LinkCap <= Cardinality({q \in 1 .. sent : outcome'[q] = "failed"})
    BY <1>2, <1>8 DEF FullByFailures
  <2>1. \A q \in 1 .. sent : q \in Requests /\ q # sent'
    BY <1>2, <1>8
  <2>2. /\ \A q \in 1 .. sent : outcome'[q] \in {"failed", "answered"}
        /\ \A q \in 1 .. sent : outcome'[q] = "answered" => reply'[q] \in Range(applied)
    BY <1>1, <1>5, <1>8, <1>10, <2>1 DEF Replied, Answered
  <2>3. \A p, q \in 1 .. sent :
          p < q /\ outcome'[p] = "answered" /\ outcome'[q] = "answered" => reply'[p] < reply'[q]
    BY <1>10, <2>1 DEF AnswersInOrder, Answered
  <2>4. Range(applied) \cup Pending \subseteq 1 .. sent
    BY SentLines DEF IInv
  <2>5. Len(uart) <= Cardinality({q \in 1 .. sent : outcome'[q] = "failed"})
    BY <1>2, <2>2, <2>3, <2>4, WaitingLines DEF IInv
  <2>6. /\ LinkCap \in Nat /\ Len(uart) \in Nat
        /\ Cardinality({q \in 1 .. sent : outcome'[q] = "failed"}) \in Nat
    BY <1>2, Shape, Bounds, LenProperties, FailedNat DEF IInv
  <2> QED
    BY <1>8, <2>5, <2>6
<1> QED
  BY <1>7, <1>10, <1>11, <1>12, <1>13 DEF IInv

\* ReadRefusal, TimeOut, Disconnected and Interrupted are failures of a request.
LEMMA FailuresKeep ==
  ASSUME IInv, ReadRefusal \/ TimeOut \/ Disconnected \/ Interrupted
  PROVE  IInv'
<1>1. CASE ReadRefusal
  BY <1>1, Failing DEF ReadRefusal, Reading
<1>2. CASE TimeOut
  BY <1>2, Failing DEF TimeOut, FailRequest, Reading
<1>3. CASE Disconnected
  BY <1>3, Failing DEF Disconnected, FailRequest
<1>4. CASE Interrupted
  BY <1>4, Failing DEF Interrupted, FailRequest
<1> QED
  BY <1>1, <1>2, <1>3, <1>4

\* The line that waited in send() is on its way, behind all others.
LEMMA SendResumesKeeps ==
  ASSUME IInv, SendResumes
  PROVE  IInv'
<1>1. /\ sending /\ vm = "up" /\ sending' = FALSE /\ uart' = Append(uart, sent)
      /\ UNCHANGED <<pc, fd, rxbuf, sent, skipped, clock, todo, says, outcome, reply, wire,
                     torn, handling, agent, vm, restarts, applied, finger>>
  BY DEF SendResumes
<1>2. /\ sent \in Requests /\ sent \in Nat /\ sent # Banner /\ uart \in Seq(Requests)
      /\ uart \in Seq(Nat) /\ Increasing(uart)
      /\ Written = sent - 1 /\ Written' = sent
  BY <1>1, Shape DEF IInv, Calls, TypeOK, Route, Written, Requests, Banner
<1>3. Range(applied) \cup Replies \cup Pending \cup torn \subseteq 1 .. sent - 1
  BY <1>2 DEF IInv, Route
<1>4. /\ uart' \in Seq(Requests) /\ Range(uart') = Range(uart) \cup {sent}
      /\ Increasing(uart')
  <2>1. Before(LinesOf(uart), {sent} \ {Banner})
    BY <1>2, <1>3 DEF Before, LinesOf, Pending
  <2>2. uart' \in Seq(Requests)
    BY <1>1, <1>2, AppendProperties
  <2> QED
    BY <1>1, <1>2, <2>1, <2>2, AppendLine
<1>5. TypeOK'
  BY <1>1, <1>4 DEF IInv, TypeOK
<1>6. AnswersInOrder' /\ Replied'
  BY <1>1, RepliesStay DEF IInv, Replies, LinesOf
<1>7. Route'
  <2>1. /\ Increasing(rxbuf') /\ Increasing(wire') /\ Replies' = Replies
        /\ Before(LinesOf(rxbuf'), LinesOf(wire'))
    BY <1>1 DEF IInv, Route, Replies
  <2>2. Range(uart') \subseteq Range(uart) \cup ((1 .. Written') \ (1 .. Written))
    <3>1. Written' = sent /\ Written = sent - 1 /\ sent \in 1 .. sent /\ sent \notin 1 .. sent - 1
      BY <1>2, Bounds DEF Requests
    <3> QED
      BY <1>4, <3>1
  <2>3. Written \in Int /\ Written' \in Int /\ Written <= Written'
    BY <1>2
  <2> QED
    BY <1>1, <1>2, <1>4, <2>1, <2>2, <2>3, RouteStays DEF IInv
<1>8. Calls' /\ Connecting' /\ SwipeGoesOn' /\ FullByFailures'
  BY <1>1, BooksStay DEF IInv
<1>9. FingerSince'
  <2>1. Pending' = Pending \cup {sent}
    BY <1>1, <1>4 DEF Pending, Handled
  <2>2. \A t \in 1 .. sent : Behind(t) => Behind(t)'
    BY <1>1, <2>1 DEF Behind
  <2>3. \A t : t = sent => Behind(t)'
    BY <1>1, <1>2 DEF Behind
  <2>4. \A t \in Pending' : Behind(t)'
    <3>1. \A t \in Pending : t \in 1 .. sent /\ Behind(t)
      BY <1>2, <1>3 DEF IInv, FingerSince
    <3> QED
      BY <2>1, <2>2, <2>3, <3>1
  <2>5. finger => \E t \in Range(applied) : says[t] = "touch" /\ Behind(t)'
    BY <1>2, <1>3, <2>2 DEF IInv, FingerSince
  <2>6. \A t \in torn \cap Pending' : ~finger /\ \A q \in Pending' : t <= q
    BY <1>2, <1>3, <2>1 DEF IInv, FingerSince
  <2>7. vm # "down"
    BY <1>1
  <2> QED
    BY <1>1, <2>4, <2>5, <2>6, <2>7 DEF IInv, FingerSince
<1> QED
  BY <1>5, <1>6, <1>7, <1>8, <1>9 DEF IInv

LEMMA ExpireKeeps ==
  ASSUME IInv, Expire
  PROVE  IInv'
<1>1. /\ clock' = "expired"
      /\ UNCHANGED <<pc, fd, rxbuf, sent, sending, skipped, todo, says, outcome, reply,
                     wire, guest>>
  BY DEF Expire
<1>2. TypeOK'
  BY <1>1 DEF IInv, TypeOK, guest
<1>3. AnswersInOrder' /\ Replied'
  BY <1>1, RepliesStay DEF IInv, guest, Replies, LinesOf
<1>4. Route'
  BY <1>1 DEF IInv, guest, Route, Replies, LinesOf, Pending, Handled, Written
<1>5. Calls' /\ Connecting' /\ SwipeGoesOn' /\ FullByFailures'
  BY <1>1, BooksStay DEF IInv
<1>6. FingerSince'
  BY <1>1, GuestStays DEF IInv, guest
<1> QED
  BY <1>2, <1>3, <1>4, <1>5, <1>6 DEF IInv

--------------------------------------------------------------------------------
(* The steps of the guest.                                                 *)

LEMMA StartAgentKeeps ==
  ASSUME IInv, StartAgent
  PROVE  IInv'
<1>1. /\ vm = "up" /\ agent = "down" /\ agent' = "up"
      /\ wire' = (IF fd = "open" THEN Append(wire, Banner) ELSE wire)
      /\ UNCHANGED <<host, handling, vm, restarts, applied, finger>>
  BY DEF StartAgent, Write
<1>0. PICK n \in 0 .. Len(uart) :
        /\ uart' = SubSeq(uart, n + 1, Len(uart))
        /\ torn' \in {torn, torn \cup {uart[i] : i \in {n + 1} \cap DOMAIN uart}}
  BY DEF StartAgent
<1>2. /\ wire \in Seq(Nat) /\ Range(wire) \subseteq Requests \cup {Banner} /\ Increasing(wire)
      /\ uart \in Seq(Nat) /\ Increasing(uart) /\ sent \in Nat /\ Banner \in Nat
      /\ Increasing(rxbuf) /\ Before(LinesOf(rxbuf), LinesOf(wire))
  BY Shape, RangeOfSeq DEF IInv, TypeOK, Route, Banner
<1>3. /\ wire' \in Seq(Nat) /\ Range(wire') \subseteq Range(wire) \cup {Banner}
      /\ Increasing(wire')
  <2>1. Before(LinesOf(wire), {Banner} \ {Banner})
    BY DEF Before
  <2> QED
    BY <1>1, <1>2, <2>1, AppendLine
<1>4. LinesOf(wire') \subseteq LinesOf(wire) /\ Before(LinesOf(rxbuf), LinesOf(wire'))
  <2>1. LinesOf(wire') \subseteq LinesOf(wire)
    BY <1>3 DEF LinesOf
  <2> QED
    BY <1>2, <2>1 DEF Before
<1>5. uart' \in Seq(Requests) /\ Range(uart') \subseteq Range(uart) /\ Increasing(uart')
  <2>1. uart' \in Seq(Nat) /\ Range(uart') \subseteq Range(uart) /\ Increasing(uart')
    BY <1>0, <1>2, CutLines
  <2>2. Range(uart) \subseteq Requests
    BY RangeOfSeq DEF IInv, TypeOK
  <2> QED
    BY <2>1, <2>2, Typed
<1>6. /\ torn \subseteq torn' /\ torn' \subseteq torn \cup Range(uart')
      /\ \A t \in torn' \ torn : \A q \in Range(uart') : t <= q
  <2> SUFFICES ASSUME n + 1 \in DOMAIN uart, torn' = torn \cup {uart[n + 1]}
               PROVE  uart[n + 1] \in Range(uart') /\ \A q \in Range(uart') : uart[n + 1] <= q
    BY <1>0
  <2>1. /\ Len(uart) \in Nat /\ DOMAIN uart = 1 .. Len(uart)
        /\ \A i \in 1 .. Len(uart) : uart[i] \in Requests
    BY LenProperties, ElementOfSeq DEF IInv, TypeOK
  <2>2. n + 1 \in 1 .. Len(uart) /\ n \in Nat
    BY <2>1
  <2>3. /\ Len(uart') = Len(uart) - n
        /\ \A i \in 1 .. Len(uart) - n : uart'[i] = uart[n + i]
    <3>1. /\ \A i \in n + 1 .. Len(uart) : uart[i] \in Requests
          /\ n + 1 \in Int /\ Len(uart) \in Int
      BY <2>1, <2>2
    <3>2. /\ Len(uart') = IF n + 1 <= Len(uart) THEN Len(uart) - (n + 1) + 1 ELSE 0
          /\ \A i \in 1 .. Len(uart) - (n + 1) + 1 : uart'[i] = uart[(n + 1) + i - 1]
      BY <1>0, <3>1, SubSeqProperties
    <3>3. /\ Len(uart) - (n + 1) + 1 = Len(uart) - n
          /\ \A i \in 1 .. Len(uart) - n : (n + 1) + i - 1 = n + i
      BY <2>1, <2>2
    <3> QED
      BY <2>1, <2>2, <3>2, <3>3
  <2>4. Range(uart') = {uart'[i] : i \in 1 .. Len(uart')}
    BY <1>5, RangeEquality
  <2>5. 1 \in 1 .. Len(uart') /\ uart'[1] = uart[n + 1]
    BY <2>1, <2>2, <2>3
  <2>6. ASSUME NEW q \in Range(uart')
        PROVE  uart[n + 1] <= q
    <3>1. PICK i \in 1 .. Len(uart') : q = uart'[i]
      BY <2>4
    <3>2. q = uart[n + i] /\ n + i \in 1 .. Len(uart) /\ n + 1 <= n + i
      BY <2>1, <2>2, <2>3, <3>1
    <3>3. uart[n + 1] \in Nat \ {Banner} /\ q \in Nat \ {Banner}
      BY <2>1, <2>2, <3>2, Shape DEF IInv
    <3>4. n + 1 < n + i => uart[n + 1] < q
      BY <1>2, <2>2, <3>2, <3>3 DEF Increasing
    <3> QED
      BY <2>2, <3>2, <3>3, <3>4
  <2> QED
    BY <2>4, <2>5, <2>6
<1>7. TypeOK'
  <2>1. wire' \in Seq(Requests \cup {Banner})
    BY <1>2, <1>3, Typed
  <2>2. torn' \subseteq Requests
    BY <1>5, <1>6, RangeOfSeq DEF IInv, TypeOK
  <2> QED
    BY <1>1, <1>5, <2>1, <2>2 DEF IInv, TypeOK, host
<1>8. AnswersInOrder' /\ Replied'
  BY <1>1, <1>4, RepliesStay DEF IInv, host, LinesOf, Replies
<1>9. Route'
  <2>1. rxbuf' = rxbuf /\ UNCHANGED <<sent, sending, handling, applied>>
    BY <1>1 DEF host
  <2>2. Replies' \subseteq Replies /\ Written \in Int /\ Written' = Written
    BY <1>2, <1>4, <2>1 DEF Replies, LinesOf, Written
  <2> QED
    BY <1>2, <1>3, <1>4, <1>5, <1>6, <2>1, <2>2, RouteStays DEF IInv
<1>10. Calls' /\ Connecting' /\ SwipeGoesOn' /\ FullByFailures'
  BY <1>1, BooksStay DEF IInv, host
<1>11. FingerSince'
  <2>1. ~finger /\ handling = Banner /\ ~finger' /\ handling' = Banner
    BY <1>1 DEF IInv, FingerSince
  <2>2. Pending' = Range(uart') /\ Pending = Range(uart)
    BY <2>1 DEF Handled, Pending
  <2>3. ASSUME NEW t \in Range(uart')
        PROVE  Behind(t)'
    <3> SUFFICES ASSUME NEW q \in 1 .. sent, q > t, says[q] \in Touching, q \in Range(uart)
                 PROVE  q \in Range(uart')
      BY <1>1, <1>5, <2>2 DEF IInv, FingerSince, Behind, host
    <3>1. /\ uart \in Seq(Nat) /\ n \in 0 .. Len(uart) /\ Increasing(uart)
          /\ Range(uart) \subseteq Nat \ {Banner}
      BY <1>2, Shape, RangeOfSeq DEF IInv, TypeOK
    <3> DEFINE lost == SubSeq(uart, 1, n)
    <3>2. /\ Range(lost) \subseteq Range(uart) /\ Range(uart) \subseteq Range(lost) \cup Range(uart')
          /\ Before(LinesOf(lost), LinesOf(uart'))
      BY <1>0, <3>1, CutLines
    <3>3. q \in Range(lost) => q < t
      BY <1>5, <2>3, <3>1, <3>2 DEF Before, LinesOf
    <3>4. t \in Nat /\ q \in Nat
      BY <1>5, <2>3, <3>1
    <3> QED
      BY <3>2, <3>3, <3>4
  <2>4. \A t \in torn' \cap Range(uart') : \A q \in Range(uart') : t <= q
    BY <1>5, <1>6, <2>2 DEF IInv, FingerSince
  <2> QED
    BY <1>1, <2>1, <2>2, <2>3, <2>4 DEF FingerSince
<1> QED
  BY <1>7, <1>8, <1>9, <1>10, <1>11 DEF IInv

LEMMA TakeLineKeeps ==
  ASSUME IInv, TakeLine
  PROVE  IInv'
<1>1. /\ vm = "up" /\ agent = "up" /\ handling = Banner /\ uart # <<>>
      /\ handling' = Head(uart) /\ uart' = Tail(uart)
      /\ UNCHANGED <<host, wire, torn, agent, vm, restarts, applied, finger>>
  BY DEF TakeLine
<1>2. /\ uart \in Seq(Nat) /\ uart \in Seq(Requests) /\ Range(uart) \subseteq Requests
      /\ Increasing(uart) /\ Banner \notin Requests
  BY Shape, RangeOfSeq DEF IInv, TypeOK, Route
<1>3. /\ Range(uart) = {Head(uart)} \cup Range(uart') /\ Increasing(uart')
      /\ Head(uart) \in Requests /\ uart' \in Seq(Requests)
      /\ Before({Head(uart)} \ {Banner}, LinesOf(uart'))
  BY <1>1, <1>2, HeadLine, HeadTailProperties
<1>4. /\ Handled' = {Head(uart)} /\ LinesOf(uart') = Range(uart')
      /\ Pending' = Pending /\ {Head(uart)} \ {Banner} = {Head(uart)}
  BY <1>1, <1>2, <1>3 DEF Handled, Pending, LinesOf
<1>5. TypeOK'
  BY <1>1, <1>3 DEF IInv, TypeOK, host
<1>6. AnswersInOrder' /\ Replied'
  BY <1>1, RepliesStay DEF IInv, host, Replies, LinesOf
<1>7. Route'
  <2>1. Before(Handled', Range(uart'))
    BY <1>3, <1>4
  <2>2. UNCHANGED <<rxbuf, wire, applied, sent, sending, torn>>
    BY <1>1 DEF host
  <2>3. Replies' = Replies /\ Written' = Written
    BY <2>2 DEF Replies, LinesOf, Written
  <2> QED
    BY <1>3, <1>4, <2>1, <2>2, <2>3 DEF IInv, Route, Before, LinesOf, Increasing
<1>8. Calls' /\ Connecting' /\ SwipeGoesOn' /\ FullByFailures'
  BY <1>1, BooksStay DEF IInv, host
<1>9. FingerSince'
  <2>1. \A t : Behind(t)' <=> Behind(t)
    BY <1>1, <1>4 DEF Behind, host
  <2> QED
    BY <1>1, <1>4, <2>1 DEF IInv, FingerSince, host
<1> QED
  BY <1>5, <1>6, <1>7, <1>8, <1>9 DEF IInv

LEMMA FinishKeeps ==
  ASSUME IInv, Finish
  PROVE  IInv'
<1>1. PICK h \in Requests : h = handling
  BY DEF Finish, IInv, TypeOK
<1>2. /\ vm = "up" /\ handling' = Banner /\ applied' = Append(applied, h)
      /\ wire' = (IF fd = "open" THEN Append(wire, h) ELSE wire)
      /\ finger' = CASE says[h] = "touch" -> TRUE
                     [] says[h] \in {"tap", "release"} -> FALSE
                     [] OTHER -> finger
      /\ h \notin torn /\ UNCHANGED <<host, uart, torn, agent, vm, restarts>>
  BY <1>1 DEF Finish, Write
<1>3. /\ wire \in Seq(Nat) /\ Range(wire) \subseteq Requests \cup {Banner} /\ Increasing(wire)
      /\ applied \in Seq(Nat) /\ Increasing(applied) /\ applied \in Seq(Requests)
      /\ LinesOf(applied) = Range(applied) /\ Requests \subseteq Nat /\ h # Banner
      /\ Replies \subseteq Range(applied) \cup torn
      /\ Before(LinesOf(rxbuf), LinesOf(wire))
      /\ LinesOf(rxbuf) \subseteq Nat
      /\ Range(uart) \subseteq Requests
  BY <1>1, Shape, NoBannerUnderWay, RangeOfSeq DEF IInv, TypeOK, Route, LinesOf
<1>4. /\ Handled = {h} /\ Handled' = {} /\ {h} \ {Banner} = {h}
      /\ Pending = {h} \cup Range(uart) /\ Pending' = Range(uart)
  BY <1>1, <1>2, <1>3 DEF Handled, Pending
<1>5. /\ Before(Range(applied) \cup Replies, {h}) /\ Before({h}, Range(uart))
      /\ Before(Range(applied) \cup Replies, Range(uart)) /\ h \in 1 .. sent
  BY <1>4, SentLines DEF IInv, Route, Before
<1>6. /\ applied' \in Seq(Requests) /\ Range(applied') = Range(applied) \cup {h}
      /\ Increasing(applied')
  <2>1. applied' \in Seq(Requests)
    BY <1>2, <1>3, AppendProperties
  <2>2. Before(LinesOf(applied), {h} \ {Banner})
    BY <1>3, <1>4, <1>5 DEF Before
  <2> QED
    BY <1>1, <1>2, <1>3, <2>1, <2>2, AppendLine
<1>7. /\ wire' \in Seq(Nat) /\ Range(wire') \subseteq Range(wire) \cup {h} /\ Increasing(wire')
  <2>1. Before(LinesOf(wire), {h})
    BY <1>5 DEF Before, Replies
  <2> QED
    BY <1>1, <1>2, <1>3, <1>4, <2>1, AppendLine
<1>8. LinesOf(wire') \subseteq LinesOf(wire) \cup {h} /\ Replies' \subseteq Replies \cup {h}
  BY <1>2, <1>7 DEF LinesOf, Replies, host
<1>9. TypeOK'
  <2>1. wire' \in Seq(Requests \cup {Banner})
    BY <1>1, <1>3, <1>7, Typed
  <2>2. finger' \in BOOLEAN
    <3>1. finger \in BOOLEAN
      BY DEF IInv, TypeOK
    <3> QED
      BY <1>2, <3>1
  <2> QED
    BY <1>2, <1>6, <2>1, <2>2 DEF IInv, TypeOK, host
<1>10. AnswersInOrder'
  BY <1>2 DEF IInv, AnswersInOrder, Answered, host
<1>11. Replied'
  <2> SUFFICES ASSUME NEW r \in Requests, outcome[r] = "answered"
               PROVE  /\ reply[r] \in Range(applied') /\ reply[r] <= r
                      /\ Before({reply[r]}, Replies')
    BY <1>2 DEF Replied, Answered, Before, host
  <2>1. reply[r] \in Range(applied) /\ reply[r] <= r /\ Before({reply[r]}, Replies)
    BY DEF IInv, Replied, Answered
  <2>2. Before({reply[r]}, {h})
    BY <1>5, <2>1 DEF Before
  <2> QED
    BY <1>6, <1>8, <2>1, <2>2 DEF Before
<1>12. Route'
  <2>1. Before(LinesOf(rxbuf), LinesOf(wire'))
    BY <1>3, <1>5, <1>8 DEF Before, Replies
  <2>2. Before(Range(applied') \cup Replies', Range(uart)) /\ Before({}, Range(uart))
    BY <1>5, <1>6, <1>8 DEF Before
  <2>3. Replies' \subseteq Range(applied') \cup torn
    BY <1>3, <1>6, <1>8
  <2>4. Range(applied') \cup Replies' \cup Range(uart) \cup torn \subseteq 1 .. Written
    BY <1>4, <1>6, <1>8 DEF IInv, Route
  <2>5. Increasing(rxbuf) /\ Increasing(uart)
    BY DEF IInv, Route
  <2>6. UNCHANGED <<rxbuf, uart, torn, sent, sending>> /\ Written' = Written
    BY <1>2 DEF host, Written
  <2> QED
    BY <1>4, <1>6, <1>7, <2>1, <2>2, <2>3, <2>4, <2>5, <2>6 DEF Route, Before, LinesOf, Increasing
<1>13. Calls' /\ Connecting' /\ SwipeGoesOn' /\ FullByFailures'
  BY <1>2, BooksStay DEF IInv, host
<1>14. FingerSince'
  <2>1. UNCHANGED <<sent, sending, says, outcome, uart, torn, agent, vm>> /\ sent \in Nat
    BY <1>2, Shape DEF host, IInv
  <2>2. agent # "down"
    BY <1>1, <1>3 DEF IInv, FingerSince
  <2>3. ASSUME NEW t \in Nat, Behind(t), t >= h \/ says[h] \notin Touching
        PROVE  Behind(t)'
    <3> SUFFICES ASSUME NEW q \in 1 .. sent, q > t, says[q] \in Touching
                 PROVE  q \in Range(uart) \/ outcome[q] = "failed" \/ (q = sent /\ sending)
      BY <1>4, <2>1 DEF Behind
    <3>1. q \in {h} \cup Range(uart) \/ outcome[q] = "failed" \/ (q = sent /\ sending)
      BY <1>4, <2>3 DEF Behind
    <3>2. q # h
      BY <1>1, <1>3, <2>3
    <3> QED
      BY <3>1, <3>2
  <2>4. \A t \in Range(uart) : Behind(t)'
    <3> SUFFICES ASSUME NEW t \in Range(uart)
                 PROVE  Behind(t)'
      OBVIOUS
    <3>1. h < t /\ h \in Nat /\ t \in Nat
      BY <1>1, <1>3, <1>5 DEF Before
    <3>2. t >= h
      BY <3>1
    <3>3. Behind(t)
      BY <1>4 DEF IInv, FingerSince
    <3> QED
      BY <2>3, <3>1, <3>2, <3>3
  <2>5. ASSUME finger'
        PROVE  \E t \in Range(applied') : says[t] = "touch" /\ Behind(t)'
    <3>1. CASE says[h] = "touch"
      <4>1. Behind(h) /\ h \in Nat /\ h >= h
        BY <1>1, <1>3, <1>4 DEF IInv, FingerSince
      <4>2. Behind(h)'
        BY <2>3, <4>1
      <4> QED
        BY <1>6, <3>1, <4>2
    <3>2. CASE says[h] # "touch"
      <4>1. says[h] \notin {"tap", "release"}
        BY <1>2, <2>5, <3>2
      <4>2. finger /\ says[h] \notin Touching
        BY <1>2, <2>5, <3>2, <4>1 DEF Touching
      <4>3. PICK t \in Range(applied) : says[t] = "touch" /\ Behind(t)
        BY <4>2 DEF IInv, FingerSince
      <4>4. t \in Nat
        BY <1>3, RangeOfSeq
      <4>5. Behind(t)'
        BY <2>3, <4>2, <4>3, <4>4
      <4> QED
        BY <1>6, <4>3, <4>5
    <3> QED
      BY <3>1, <3>2
  <2>6. torn \cap Range(uart) = {}
    <3> SUFFICES ASSUME NEW t \in torn, t \in Range(uart)
                 PROVE  FALSE
      OBVIOUS
    <3>1. t <= h /\ h < t /\ h \in Nat /\ t \in Nat
      BY <1>1, <1>3, <1>4, <1>5 DEF IInv, FingerSince, Before
    <3> QED
      BY <3>1
  <2> QED
    BY <1>2, <1>4, <2>1, <2>2, <2>4, <2>5, <2>6 DEF FingerSince
<1> QED
  BY <1>9, <1>10, <1>11, <1>12, <1>13, <1>14 DEF IInv

LEMMA RefuseKeeps ==
  ASSUME IInv, Refuse
  PROVE  IInv'
<1>1. PICK h \in Requests : h = handling
  BY DEF Refuse, IInv, TypeOK
<1>2. /\ vm = "up" /\ h \in torn /\ handling' = Banner
      /\ wire' = (IF fd = "open" THEN Append(wire, h) ELSE wire)
      /\ UNCHANGED <<host, uart, torn, agent, vm, restarts, applied, finger>>
  BY <1>1 DEF Refuse, Write
<1>3. /\ wire \in Seq(Nat) /\ Range(wire) \subseteq Requests \cup {Banner} /\ Increasing(wire)
      /\ Requests \subseteq Nat /\ h # Banner /\ Range(uart) \subseteq Requests
      /\ Before(LinesOf(rxbuf), LinesOf(wire))
  BY <1>1, Shape, RangeOfSeq DEF IInv, TypeOK, Route
<1>4. /\ Handled = {h} /\ Handled' = {} /\ {h} \ {Banner} = {h}
      /\ Pending = {h} \cup Range(uart) /\ Pending' = Range(uart)
  BY <1>1, <1>2, <1>3 DEF Handled, Pending
<1>5. /\ Before(Range(applied) \cup Replies, {h}) /\ Before({h}, Range(uart))
      /\ Before(Range(applied) \cup Replies, Range(uart))
  BY <1>4 DEF IInv, Route, Before
<1>6. /\ wire' \in Seq(Nat) /\ Range(wire') \subseteq Range(wire) \cup {h} /\ Increasing(wire')
  <2>1. Before(LinesOf(wire), {h})
    BY <1>5 DEF Before, Replies
  <2> QED
    BY <1>1, <1>2, <1>3, <1>4, <2>1, AppendLine
<1>7. LinesOf(wire') \subseteq LinesOf(wire) \cup {h} /\ Replies' \subseteq Replies \cup {h}
  BY <1>2, <1>6 DEF LinesOf, Replies, host
<1>8. TypeOK'
  <2>1. wire' \in Seq(Requests \cup {Banner})
    BY <1>1, <1>3, <1>6, Typed
  <2> QED
    BY <1>2, <2>1 DEF IInv, TypeOK, host
<1>9. AnswersInOrder'
  BY <1>2 DEF IInv, AnswersInOrder, Answered, host
<1>10. Replied'
  <2> SUFFICES ASSUME NEW r \in Requests, outcome[r] = "answered"
               PROVE  /\ reply[r] \in Range(applied) /\ reply[r] <= r
                      /\ Before({reply[r]}, Replies')
    BY <1>2 DEF Replied, Answered, Before, host
  <2>1. reply[r] \in Range(applied) /\ reply[r] <= r /\ Before({reply[r]}, Replies)
    BY DEF IInv, Replied, Answered
  <2>2. Before({reply[r]}, {h})
    BY <1>5, <2>1 DEF Before
  <2> QED
    BY <1>7, <2>1, <2>2 DEF Before
<1>11. Route'
  <2>1. Before(LinesOf(rxbuf), LinesOf(wire'))
    BY <1>3, <1>5, <1>7 DEF Before, Replies
  <2>2. Before(Range(applied) \cup Replies', Range(uart)) /\ Before({}, Range(uart))
    BY <1>5, <1>7 DEF Before
  <2>3. Replies' \subseteq Range(applied) \cup torn
    BY <1>2, <1>7 DEF IInv, Route
  <2>4. Range(applied) \cup Replies' \cup Range(uart) \cup torn \subseteq 1 .. Written
    BY <1>4, <1>7 DEF IInv, Route
  <2>5. Increasing(rxbuf) /\ Increasing(uart) /\ Increasing(applied)
    BY DEF IInv, Route
  <2>6. UNCHANGED <<rxbuf, uart, torn, applied, sent, sending>> /\ Written' = Written
    BY <1>2 DEF host, Written
  <2> QED
    BY <1>4, <1>6, <2>1, <2>2, <2>3, <2>4, <2>5, <2>6 DEF Route, Before, LinesOf, Increasing
<1>12. Calls' /\ Connecting' /\ SwipeGoesOn' /\ FullByFailures'
  BY <1>2, BooksStay DEF IInv, host
<1>13. FingerSince'
  <2>1. UNCHANGED <<sent, sending, says, outcome, uart, torn, agent, vm, finger>>
    BY <1>2 DEF host
  <2>2. ~finger /\ \A q \in Range(uart) : h < q /\ h \in Nat /\ q \in Nat
    BY <1>1, <1>2, <1>3, <1>4, <1>5 DEF IInv, FingerSince, Before
  <2>3. agent # "down"
    BY <1>1, <1>3 DEF IInv, FingerSince
  <2>4. ASSUME NEW t \in Range(uart)
        PROVE  Behind(t)'
    <3> SUFFICES ASSUME NEW q \in 1 .. sent, q > t, says[q] \in Touching, q \in Pending
                 PROVE  q \in Range(uart)
      BY <1>4, <2>1 DEF IInv, FingerSince, Behind
    <3>1. q # h
      BY <2>2
    <3> QED
      BY <1>4, <3>1
  <2>5. torn \cap Range(uart) = {}
    <3> SUFFICES ASSUME NEW t \in torn, t \in Range(uart)
                 PROVE  FALSE
      OBVIOUS
    <3>1. t <= h
      BY <1>4 DEF IInv, FingerSince
    <3> QED
      BY <2>2, <3>1
  <2> QED
    BY <1>2, <1>4, <2>1, <2>2, <2>3, <2>4, <2>5 DEF FingerSince
<1> QED
  BY <1>8, <1>9, <1>10, <1>11, <1>12, <1>13 DEF IInv

\* The agent loses the line it is in, and the child, when it exits, those it has
\* not read.
LEMMA GuestDies ==
  ASSUME IInv, handling' = Banner, agent' = "down", finger' = FALSE,
         uart' = uart \/ uart' = <<>>, vm' = "down" => uart' = <<>>,
         vm' \in {"up", "down"}, restarts' \in 0 .. MaxRestarts,
         UNCHANGED <<host, wire, torn, applied>>
  PROVE  IInv'
<1>1. /\ uart \in Seq(Requests) /\ Range(uart) \subseteq Nat /\ Increasing(uart)
      /\ handling \in Nat /\ <<>> \in Seq(Requests)
  BY Shape, RangeOfSeq, EmptySeq DEF IInv, TypeOK, Route
<1>2. /\ uart' \in Seq(Requests) /\ Increasing(uart') /\ Handled' = {}
      /\ Range(uart') \subseteq Range(uart)
      /\ Pending' = Range(uart') /\ Pending' \subseteq Pending
  BY <1>1, NoLines DEF Handled, Pending
<1>3. TypeOK'
  BY <1>2 DEF IInv, TypeOK, host
<1>4. AnswersInOrder' /\ Replied'
  BY RepliesStay DEF IInv, host, Replies, LinesOf
<1>5. Route'
  <2>1. Before(Range(applied) \cup Replies, Pending') /\ Before({}, Range(uart'))
    BY <1>2 DEF IInv, Route, Before
  <2>2. Range(applied) \cup Replies \cup Pending' \cup torn \subseteq 1 .. Written
    BY <1>2 DEF IInv, Route
  <2>3. UNCHANGED <<rxbuf, wire, applied, sent, sending, torn>>
    BY DEF host
  <2>4. Replies' = Replies /\ Written' = Written
    BY <2>3 DEF Replies, LinesOf, Written
  <2> QED
    BY <1>2, <2>1, <2>2, <2>3, <2>4 DEF IInv, Route, Before, LinesOf, Increasing
<1>6. Calls' /\ Connecting' /\ SwipeGoesOn' /\ FullByFailures'
  BY BooksStay DEF IInv, host
<1>7. FingerSince'
  <2>1. ASSUME NEW t \in Range(uart')
        PROVE  Behind(t)'
    <3>1. uart' = uart
      BY <2>1, NoLines
    <3> SUFFICES ASSUME NEW q \in 1 .. sent, q > t, says[q] \in Touching, q \in Pending
                 PROVE  q \in Range(uart)
      BY <1>2, <2>1, <3>1 DEF IInv, FingerSince, Behind, Pending, host
    <3>2. q \notin Handled
      BY <1>1, <2>1, <3>1 DEF IInv, Route, Before, Handled
    <3> QED
      BY <3>2 DEF Pending
  <2>2. \A t \in torn \cap Pending' : \A q \in Pending' : t <= q
    BY <1>2 DEF IInv, FingerSince
  <2> QED
    BY <1>2, <2>1, <2>2 DEF FingerSince
<1> QED
  BY <1>3, <1>4, <1>5, <1>6, <1>7 DEF IInv

LEMMA RestartKeeps ==
  ASSUME IInv, Restart
  PROVE  IInv'
<1>1. restarts' \in 0 .. MaxRestarts
  BY Bounds DEF Restart, IInv, TypeOK
<1> QED
  BY <1>1, GuestDies DEF Restart

LEMMA ExitKeeps ==
  ASSUME IInv, Exit
  PROVE  IInv'
<1>1. restarts' \in 0 .. MaxRestarts
  BY DEF Exit, IInv, TypeOK
<1> QED
  BY <1>1, GuestDies DEF Exit

--------------------------------------------------------------------------------
(* The theorems.                                                           *)

LEMMA AtStart == Init => IInv
<1> SUFFICES ASSUME Init
             PROVE  IInv
  OBVIOUS
<1>1. \A S : <<>> \in Seq(S)
  BY EmptySeq
<1>2. Range(<<>>) = {} /\ Increasing(<<>>) /\ Len(<<>>) = 0 /\ <<>> \in Rests
  BY NoLines, SwipeRests, EmptySeq
<1>3. 0 \in 0 .. MaxSent /\ 0 \in 0 .. MaxRestarts /\ 1 .. 0 = {}
  BY Bounds
<1>4. Replies = {} /\ LinesOf(rxbuf) = {} /\ Handled = {} /\ Pending = {} /\ Written = 0
  BY <1>2 DEF Init, LinesOf, Replies, Handled, Pending, Written
<1>5. TypeOK
  BY <1>1, <1>2, <1>3 DEF Init, TypeOK
<1>6. AnswersInOrder /\ Replied
  BY DEF Init, AnswersInOrder, Replied, Answered
<1>7. Route
  BY <1>2, <1>4 DEF Init, Route, Before
<1>8. Calls /\ Connecting /\ SwipeGoesOn /\ FullByFailures
  BY <1>2, <1>3 DEF Init, Calls, Connecting, SwipeGoesOn, FullByFailures
<1>9. FingerSince
  BY <1>2, <1>4 DEF Init, FingerSince
<1> QED
  BY <1>5, <1>6, <1>7, <1>8, <1>9 DEF IInv

\* The inductive invariant: what the lines under way, the books of the host and
\* the state of the guest have to do with each other (AgentLink::request,
\* ensure_agent, apply_swipe, agent_task, handle_line).
THEOREM Invariant == Spec => []IInv
<1>1. ASSUME IInv, [Next]_vars
      PROVE  IInv'
  <2>1. CASE CallAgain
    BY <1>1, <2>1, CallAgainKeeps
  <2>2. CASE CallFirst
    BY <1>1, <2>2, CallFirstKeeps
  <2>3. CASE Receive
    BY <1>1, <2>3, ReceiveKeeps
  <2>4. CASE SkipBanner
    BY <1>1, <2>4, SkipBannerKeeps
  <2>5. CASE ReadRefusal \/ TimeOut \/ Disconnected \/ Interrupted
    BY <1>1, <2>5, FailuresKeep
  <2>6. CASE ReadReply
    BY <1>1, <2>6, ReadReplyKeeps
  <2>7. CASE ReadPong
    BY <1>1, <2>7, ReadPongKeeps
  <2>8. CASE Expire
    BY <1>1, <2>8, ExpireKeeps
  <2>9. CASE StartAgent
    BY <1>1, <2>9, StartAgentKeeps
  <2>10. CASE TakeLine
    BY <1>1, <2>10, TakeLineKeeps
  <2>11. CASE Finish
    BY <1>1, <2>11, FinishKeeps
  <2>12. CASE Restart
    BY <1>1, <2>12, RestartKeeps
  <2>13. CASE Exit
    BY <1>1, <2>13, ExitKeeps
  <2>14. CASE SendResumes
    BY <1>1, <2>14, SendResumesKeeps
  <2>15. CASE Refuse
    BY <1>1, <2>15, RefuseKeeps
  <2>16. CASE UNCHANGED vars
    <3>1. TypeOK'
      BY <1>1, <2>16 DEF IInv, TypeOK, vars, host, guest
    <3>2. AnswersInOrder' /\ Replied'
      BY <1>1, <2>16, RepliesStay DEF IInv, vars, host, guest, Replies, LinesOf
    <3>3. Route'
      BY <1>1, <2>16 DEF IInv, vars, host, guest, Route, Replies, LinesOf, Pending,
         Handled, Written
    <3>4. Calls' /\ Connecting' /\ SwipeGoesOn' /\ FullByFailures'
      BY <1>1, <2>16, BooksStay DEF IInv, vars, host
    <3>5. FingerSince'
      BY <1>1, <2>16, GuestStays DEF IInv, vars, host, guest
    <3> QED
      BY <3>1, <3>2, <3>3, <3>4, <3>5 DEF IInv
  <2> QED
    BY <1>1, <2>1, <2>2, <2>3, <2>4, <2>5, <2>6, <2>7, <2>8, <2>9, <2>10, <2>11, <2>12, <2>13, <2>14, <2>15, <2>16
       DEF Next, Host, ReadLine, Guest
<1> QED
  BY <1>1, AtStart, PTL DEF Spec

\* Type correctness; a reply is booked exactly for the requests that were answered.
THEOREM TypeCorrect == Spec => []TypeOK
<1>1. IInv => TypeOK
  BY DEF IInv
<1> QED
  BY <1>1, Invariant, PTL

\* request() and read_line consume what they read, so a later request is answered
\* with a later reply, over timeouts, reconnections and firmware restarts.
THEOREM AnswersStayInOrder == Spec => []AnswersInOrder
<1>1. IInv => AnswersInOrder
  BY DEF IInv
<1> QED
  BY <1>1, Invariant, PTL

\* The link falls behind by at most one reply per request that failed: the earlier
\* requests that were answered used up as many of the earlier replies.
THEOREM SlipAccounted == Spec => []SlipIsAccounted
<1>1. ASSUME IInv
      PROVE  SlipIsAccounted
  <2> SUFFICES ASSUME NEW r \in Requests, outcome[r] = "answered"
               PROVE  /\ reply[r] <= r
                      /\ r - reply[r] <= Cardinality({q \in 1 .. r - 1 : outcome[q] = "failed"})
    BY DEF SlipIsAccounted, Answered
  <2>1. PICK k \in Nat : k = reply[r] /\ k # Banner
    BY <1>1, Shape DEF IInv, TypeOK, Requests
  <2>2. /\ k <= r /\ k \in 1 .. r /\ r - 1 \in Nat /\ k - 1 \in Nat /\ r <= sent /\ r <= MaxSent
        /\ sent \in Nat /\ r \in Nat
    <3>1. k <= r /\ k \in Range(applied)
      BY <1>1, <2>1 DEF IInv, Replied, Answered
    <3>2. ~(r > sent) /\ sent \in Nat /\ r \in Nat /\ r <= MaxSent /\ k \in 1 .. sent
      BY <1>1, <3>1, Shape, SentLines, Bounds DEF IInv, Calls, Requests
    <3> QED
      BY <3>1, <3>2
  <2>3. \A q \in 1 .. r - 1 : q \in 1 .. sent /\ q # sent /\ q < r /\ q \in Requests
    BY <2>2, Bounds DEF Requests
  <2>4. \A q \in 1 .. r - 1 : outcome[q] \in {"failed", "answered"}
    BY <1>1, <2>3 DEF IInv, Calls
  <2>5. \A q \in 1 .. r - 1 : outcome[q] = "answered" => reply[q] \in 1 .. k - 1
    <3> SUFFICES ASSUME NEW q \in 1 .. r - 1, outcome[q] = "answered"
                 PROVE  reply[q] \in 1 .. k - 1
      OBVIOUS
    <3>1. reply[q] < k /\ reply[q] \in Nat /\ reply[q] # Banner
      BY <1>1, <2>1, <2>3, Shape DEF IInv, AnswersInOrder, Answered, TypeOK
    <3> QED
      BY <2>1, <3>1 DEF Banner
  <2>6. \A p, q \in 1 .. r - 1 :
          p < q /\ outcome[p] = "answered" /\ outcome[q] = "answered" => reply[p] < reply[q]
    BY <1>1, <2>3 DEF IInv, AnswersInOrder, Answered
  <2>7. IsFiniteSet(1 .. k - 1) /\ Cardinality(1 .. k - 1) = k - 1 /\ 1 .. k - 1 \in SUBSET Nat
    <3>1. k - 1 \in Int /\ 1 \in Int /\ k - 1 >= 0
      BY <2>2
    <3>2. /\ IsFiniteSet(1 .. k - 1)
          /\ Cardinality(1 .. k - 1) = IF 1 > k - 1 THEN 0 ELSE k - 1 - 1 + 1
      BY <3>1, FS_Interval
    <3> QED
      BY <3>1, <3>2
  <2> DEFINE F == {q \in 1 .. r - 1 : outcome[q] = "failed"}
  <2>8. r - 1 <= Cardinality(F) + Cardinality(1 .. k - 1)
    BY <2>2, <2>4, <2>5, <2>6, <2>7, Failures
  <2>9. Cardinality(F) \in Nat
    BY <2>2, FailedNat
  <2> HIDE DEF F
  <2>10. k <= r /\ r - k <= Cardinality(F)
    BY <2>1, <2>2, <2>7, <2>8, <2>9
  <2>11. reply[r] <= r /\ r - reply[r] <= Cardinality(F)
    BY <2>1, <2>10
  <2> QED
    BY <2>11 DEF F
<1> QED
  BY <1>1, Invariant, PTL

\* The guest carries out a line at most once and in the order sent, and what was
\* reported as done rests on a line that was carried out.
THEOREM AppliedAtMostOnce == Spec => []AppliedOnce
<1>1. ASSUME IInv
      PROVE  AppliedOnce
  <2>1. Range(applied) = {applied[i] : i \in 1 .. Len(applied)} /\ Banner \notin Range(applied)
    BY <1>1, Shape, RangeEquality, RangeOfSeq DEF IInv, TypeOK
  <2>2. \A i, j \in 1 .. Len(applied) : i < j => applied[i] < applied[j]
    BY <1>1, <2>1 DEF IInv, Route, Increasing
  <2>3. \A r \in Requests : Answered(r) => \E i \in 1 .. Len(applied) : applied[i] = reply[r]
    BY <1>1, <2>1 DEF IInv, Replied
  <2> QED
    BY <2>2, <2>3 DEF AppliedOnce
<1> QED
  BY <1>1, Invariant, PTL

\* Only an operation that fails leaves the finger on the glass: a touch that did not
\* fail is followed by the next line of its swipe, and no line is lost between the
\* two that the guest carries out.
THEOREM FingerLeftOnlyByFailure == Spec => []FingerDownOnlyAfterFailure
<1>1. ASSUME IInv
      PROVE  FingerDownOnlyAfterFailure
  <2> SUFFICES ASSUME finger, pc = "idle", todo = <<>>, uart = <<>>, handling = Banner
               PROVE  \E r \in {q \in 1 .. sent : says[q] \in Touching} :
                        \A q \in {q \in 1 .. sent : says[q] \in Touching} :
                          r <= q => outcome[q] = "failed"
    BY DEF FingerDownOnlyAfterFailure
  <2>1. Pending = {} /\ ~sending
    BY <1>1, NoLines DEF Pending, Handled, IInv, Calls
  <2>2. PICK t \in Range(applied) : says[t] = "touch" /\ Behind(t)
    BY <1>1 DEF IInv, FingerSince
  <2>3. t \in 1 .. sent /\ sent \in Nat /\ says[t] \in Touching
    BY <1>1, <2>2, Shape, SentLines DEF IInv, Touching
  <2>4. \A q \in 1 .. sent : q > t /\ says[q] \in Touching => outcome[q] = "failed"
    BY <2>1, <2>2 DEF Behind
  <2>5. CASE outcome[t] = "failed"
    BY <2>3, <2>4, <2>5
  <2>6. CASE outcome[t] # "failed"
    <3>1. t < sent /\ says[t + 1] \in {"touch", "release"}
      BY <1>1, <2>2, <2>3, <2>6 DEF IInv, SwipeGoesOn
    <3>2. t + 1 \in 1 .. sent /\ says[t + 1] \in Touching /\ \A q \in 1 .. sent : t + 1 <= q => q > t
      BY <2>3, <3>1 DEF Touching
    <3> QED
      BY <2>4, <3>2
  <2> QED
    BY <2>5, <2>6
<1> QED
  BY <1>1, Invariant, PTL

\* A request waits in send() for room on the link only when at least as many requests
\* have failed before as the link holds lines (AgentLink::request).
THEOREM FullAfterFailures == Spec => []FullByFailures
<1>1. IInv => FullByFailures
  BY DEF IInv
<1> QED
  BY <1>1, Invariant, PTL

================================================================================
