-------------------------- MODULE CommandLine_proofs --------------------------
(***************************************************************************)
(* CmdInv is an invariant of CmdSpec, and with it the type invariant and   *)
(* the safety properties that the run of CommandLine checks.  The session  *)
(* comes first: SessionInv is kept by every step of DaemonSession, and the *)
(* invocation takes those steps, or boots and shuts down as the session    *)
(* does.                                                                   *)
(***************************************************************************)
EXTENDS CommandLine, SequenceTheorems, TLAPS

--------------------------------------------------------------------------------
(* Widget trees and the bytes of the input.                                *)

LEMMA NoWidgets == <<>> \in Trees
<1>1. /\ <<>> \in Seq(Centers)
      /\ Len(<<>>) = 0
  BY EmptySeq
<1>2. <<>> \in [1 .. 0 -> Centers]
  BY <1>1, LenProperties
<1>3. 0 \in 0 .. MaxWidgets
  BY DaemonConstants, SMT
<1> QED
  BY <1>2, <1>3 DEF Trees

LEMMA WidgetOf ==
  ASSUME NEW t \in Trees, NEW r \in DOMAIN t
  PROVE  r \in 1 .. MaxWidgets /\ t[r] \in Centers
<1>1. PICK n \in 0 .. MaxWidgets : t \in [1 .. n -> Centers]
  BY DEF Trees
<1> QED
  BY <1>1, DaemonConstants, SMT

\* What a read takes, and what it leaves.
LEMMA Taken ==
  ASSUME TypeOK, stdin # <<>>
  PROVE  Tail(stdin) \in Seq({Char, Newline})
BY HeadTailProperties DEF TypeOK

--------------------------------------------------------------------------------
(* The session keeps SessionInv.                                           *)

LEMMA SessionNumbers ==
  ASSUME SessionInv
  PROVE  /\ LineMax \in Nat /\ LineMax > 1 /\ got \in Nat /\ got < LineMax
         /\ MaxBytes \in Nat /\ written \in Nat /\ lines \in Nat /\ replies \in Nat
<1>1. /\ got \in 0 .. LineMax - 1 /\ written \in 0 .. MaxBytes
      /\ lines \in Nat /\ replies \in Nat
  BY DEF SessionInv, TypeOK
<1> QED
  BY <1>1, DaemonConstants, SMT

LEMMA ChildStays ==
  ASSUME ChildIsSelected, UNCHANGED session, pc' # "exited"
  PROVE  ChildIsSelected'
BY DEF ChildIsSelected, NoChildOutlives, session

LEMMA RefsStay ==
  ASSUME RefsKept, booted = 1, booted' = 1, UNCHANGED <<refs, shown>>, tapped' = NoTap
  PROVE  RefsKept'
BY DEF RefsKept, RefsAsShown

LEMMA ScreenStays ==
  ASSUME ScreenOK, RefsKept, UNCHANGED <<booted, screen>>
  PROVE  ScreenOK' /\ RefsKept'
BY DEF ScreenOK, RefsKept, RefsAsShown, screen

\* A step of the session that leaves what is booted and the screen alone.
LEMMA Elsewhere ==
  ASSUME SessionInv, UNCHANGED <<session, screen>>, pc' # "exited", ScreenOK' => TypeOK', Ledger'
  PROVE  SessionInv'
<1>1. UNCHANGED booted
  BY DEF session
<1>2. ScreenOK' /\ RefsKept'
  BY <1>1, ScreenStays DEF SessionInv, TypeOK
<1> QED
  BY <1>2, ChildStays DEF SessionInv

\* Waiting for a line, and the reads.
LEMMA ReadingKeeps ==
  ASSUME SessionInv,
         \/ ResetFlag \/ DrainSelfPipe \/ Check \/ Poll
         \/ ReadByte \/ ReadEnd \/ Block \/ DrainByte \/ DrainEnd
  PROVE  SessionInv'
<1>0. /\ Ledger /\ got \in 0 .. LineMax - 1 /\ got \in Nat /\ LineMax \in Nat /\ LineMax > 1
      /\ lines \in Nat /\ replies \in Nat
  BY SessionNumbers DEF SessionInv, TypeOK
<1>1. CASE ResetFlag
  <2>1. UNCHANGED <<session, screen>> /\ pc' # "exited"
    BY <1>1 DEF ResetFlag, session, screen
  <2>2. got' \in 0 .. LineMax - 1 /\ lines' \in Nat /\ replies' \in Nat
    BY <1>0, <1>1 DEF Ledger, ResetFlag, input, signals, counts
  <2>3. Ledger'
    BY <1>0, <1>1 DEF Ledger, ResetFlag, input, signals, counts
  <2>4. ScreenOK' => TypeOK'
    BY <1>1, <2>1, <2>2 DEF SessionInv, TypeOK, ResetFlag, input, session, counts
  <2> QED
    BY <2>1, <2>3, <2>4, Elsewhere
<1>2. CASE DrainSelfPipe
  <2>1. UNCHANGED <<session, screen>> /\ pc' # "exited"
    BY <1>2 DEF DrainSelfPipe, session, screen
  <2>2. got' \in 0 .. LineMax - 1 /\ lines' \in Nat /\ replies' \in Nat
    BY <1>0, <1>2 DEF Ledger, DrainSelfPipe, input, signals, counts
  <2>3. Ledger'
    BY <1>0, <1>2 DEF Ledger, DrainSelfPipe, input, signals, counts
  <2>4. ScreenOK' => TypeOK'
    BY <1>2, <2>1, <2>2 DEF SessionInv, TypeOK, DrainSelfPipe, input, session, counts
  <2> QED
    BY <2>1, <2>3, <2>4, Elsewhere
<1>3. CASE Check
  <2>1. UNCHANGED <<session, screen>> /\ pc' # "exited"
    BY <1>3 DEF Check, session, screen
  <2>2. got' \in 0 .. LineMax - 1 /\ lines' \in Nat /\ replies' \in Nat
    BY <1>0, <1>3 DEF Ledger, Check, input, signals, counts
  <2>3. Ledger'
    BY <1>0, <1>3 DEF Ledger, Check, input, signals, counts
  <2>4. ScreenOK' => TypeOK'
    BY <1>3, <2>1, <2>2 DEF SessionInv, TypeOK, Check, input, signals, session, counts
  <2> QED
    BY <2>1, <2>3, <2>4, Elsewhere
<1>4. CASE Poll
  <2>1. UNCHANGED <<session, screen>> /\ pc' # "exited"
    BY <1>4 DEF Poll, session, screen
  <2>2. got' \in 0 .. LineMax - 1 /\ lines' \in Nat /\ replies' \in Nat
    BY <1>0, <1>4 DEF Ledger, Poll, input, signals, counts
  <2>3. Ledger'
    BY <1>0, <1>4 DEF Ledger, Poll, input, signals, counts
  <2>4. ScreenOK' => TypeOK'
    BY <1>4, <2>1, <2>2 DEF SessionInv, TypeOK, Poll, input, signals, session, counts
  <2> QED
    BY <2>1, <2>3, <2>4, Elsewhere
<1>5. CASE ReadByte
  <2>0. Tail(stdin) \in Seq({Char, Newline})
    BY <1>5, Taken DEF SessionInv, ReadByte
  <2>1. UNCHANGED <<session, screen>> /\ pc' # "exited"
    BY <1>5 DEF ReadByte, session, screen
  <2>2. got' \in 0 .. LineMax - 1 /\ lines' \in Nat /\ replies' \in Nat
    BY <1>0, <1>5 DEF Ledger, ReadByte, input, signals, counts
  <2>3. Ledger'
    BY <1>0, <1>5 DEF Ledger, ReadByte, input, signals, counts
  <2>4. ScreenOK' => TypeOK'
    BY <1>5, <2>0, <2>1, <2>2 DEF SessionInv, TypeOK, ReadByte, signals, session
  <2> QED
    BY <2>1, <2>3, <2>4, Elsewhere
<1>6. CASE ReadEnd
  <2>1. UNCHANGED <<session, screen>> /\ pc' # "exited"
    BY <1>6 DEF ReadEnd, session, screen
  <2>2. got' \in 0 .. LineMax - 1 /\ lines' \in Nat /\ replies' \in Nat
    BY <1>0, <1>6 DEF Ledger, ReadEnd, input, signals, counts
  <2>3. Ledger'
    BY <1>0, <1>6 DEF Ledger, ReadEnd, input, signals, counts
  <2>4. ScreenOK' => TypeOK'
    BY <1>6, <2>1, <2>2 DEF SessionInv, TypeOK, ReadEnd, input, signals, session
  <2> QED
    BY <2>1, <2>3, <2>4, Elsewhere
<1>7. CASE Block
  <2>1. UNCHANGED <<session, screen>> /\ pc' # "exited"
    BY <1>7 DEF Block, session, screen
  <2>2. got' \in 0 .. LineMax - 1 /\ lines' \in Nat /\ replies' \in Nat
    BY <1>0, <1>7 DEF Ledger, Block, input, signals, counts
  <2>3. Ledger'
    BY <1>0, <1>7 DEF Ledger, Block, input, signals, counts
  <2>4. ScreenOK' => TypeOK'
    BY <1>7, <2>1, <2>2 DEF SessionInv, TypeOK, Block, input, signals, session, counts
  <2> QED
    BY <2>1, <2>3, <2>4, Elsewhere
<1>8. CASE DrainByte
  <2>0. Tail(stdin) \in Seq({Char, Newline})
    BY <1>8, Taken DEF SessionInv, DrainByte
  <2>1. UNCHANGED <<session, screen>> /\ pc' # "exited"
    BY <1>8 DEF DrainByte, session, screen
  <2>2. got' \in 0 .. LineMax - 1 /\ lines' \in Nat /\ replies' \in Nat
    BY <1>0, <1>8 DEF Ledger, DrainByte, input, signals, counts
  <2>3. Ledger'
    BY <1>0, <1>8 DEF Ledger, DrainByte, input, signals, counts
  <2>4. ScreenOK' => TypeOK'
    BY <1>8, <2>0, <2>1, <2>2 DEF SessionInv, TypeOK, DrainByte, signals, session, counts
  <2> QED
    BY <2>1, <2>3, <2>4, Elsewhere
<1>9. CASE DrainEnd
  <2>1. UNCHANGED <<session, screen>> /\ pc' # "exited"
    BY <1>9 DEF DrainEnd, session, screen
  <2>2. got' \in 0 .. LineMax - 1 /\ lines' \in Nat /\ replies' \in Nat
    BY <1>0, <1>9 DEF Ledger, DrainEnd, input, signals, counts
  <2>3. Ledger'
    BY <1>0, <1>9 DEF Ledger, DrainEnd, input, signals, counts
  <2>4. ScreenOK' => TypeOK'
    BY <1>9, <2>1, <2>2 DEF SessionInv, TypeOK, DrainEnd, input, signals, session
  <2> QED
    BY <2>1, <2>3, <2>4, Elsewhere
<1> QED
  BY <1>1, <1>2, <1>3, <1>4, <1>5, <1>6, <1>7, <1>8, <1>9

\* A boot that the session or the invocation performs, while nothing is booted.
LEMMA BootingKeeps ==
  ASSUME TypeOK, ChildIsSelected, RefsKept, booted = 0, pc # "exited", pc' # "exited",
         NEW kind \in {"native", "qemu"}, BootBackend(kind),
         UNCHANGED shown, UNCHANGED tapped \/ tapped' = NoTap
  PROVE  /\ ChildIsSelected' /\ RefsKept'
         /\ booted' \in {0, 1} /\ selected' \in {"native", "qemu"}
         /\ qemu' \in {"none", "live"} /\ {tree', refs'} \subseteq Trees
         /\ qemu' = "live" => kind = "qemu"
<1>1. shown = <<>> /\ qemu = "none"
  BY DEF RefsKept, ChildIsSelected
<1>2. RefsKept'
  BY <1>1 DEF RefsKept, RefsAsShown
<1>3. ChildIsSelected'
  BY <1>1 DEF BootBackend, ChildIsSelected, NoChildOutlives
<1>4. /\ booted' \in {0, 1} /\ selected' \in {"native", "qemu"}
      /\ qemu' \in {"none", "live"}
      /\ qemu' = "live" => kind = "qemu"
  BY <1>1 DEF BootBackend, TypeOK
<1>5. {tree', refs'} \subseteq Trees
  BY NoWidgets DEF BootBackend, FirmwareRuns, TypeOK, ScreenOK
<1> QED
  BY <1>2, <1>3, <1>4, <1>5

\* What every answered command does to the books.
LEMMA Replying ==
  ASSUME SessionInv, Reply
  PROVE  /\ Ledger' /\ pc' = "check" /\ replies' \in Nat
         /\ UNCHANGED <<input, got, signals, lines>>
<1>1. replies + 1 \in Nat /\ (pc = "run" => lines = replies + 1)
  BY SessionNumbers DEF SessionInv, Ledger
<1> QED
  BY <1>1 DEF Reply, Ledger, input, signals

\* A command that is answered and leaves what is booted alone.
LEMMA Answered ==
  ASSUME SessionInv, Reply, UNCHANGED session, ScreenOK', RefsKept'
  PROVE  SessionInv'
<1>1. /\ Ledger' /\ pc' = "check" /\ replies' \in Nat
      /\ UNCHANGED <<input, got, signals, lines>>
  BY Replying
<1>2. TypeOK'
  BY <1>1 DEF SessionInv, TypeOK, input, signals, session
<1>3. ChildIsSelected'
  BY <1>1, ChildStays DEF SessionInv
<1> QED
  BY <1>1, <1>2, <1>3 DEF SessionInv

\* The commands.
LEMMA CommandKeeps ==
  ASSUME SessionInv, Rejected \/ Boot \/ Ui \/ Operate \/ TapRef \/ Quit \/ Leave
  PROVE  SessionInv'
<1> USE DaemonConstants
<1>0. ScreenOK /\ RefsKept
  BY DEF SessionInv, TypeOK
<1>1. CASE Rejected
  <2>1. ScreenOK'
    BY <1>0, <1>1 DEF ScreenOK, Rejected
  <2>2. RefsKept'
    BY <1>0, <1>1 DEF Rejected, session, RefsKept, RefsAsShown
  <2> QED
    BY <1>1, <2>1, <2>2, Answered DEF Rejected
<1>2. CASE Boot
  <2>1. PICK kind \in {"native", "qemu"} : BootBackend(kind)
    BY <1>2 DEF Boot
  <2>2. /\ Ledger' /\ pc' = "check" /\ replies' \in Nat
        /\ UNCHANGED <<input, got, signals, lines>>
    BY <1>2, Replying DEF Boot
  <2>3. /\ ChildIsSelected' /\ RefsKept'
        /\ booted' \in {0, 1} /\ selected' \in {"native", "qemu"}
        /\ qemu' \in {"none", "live"} /\ {tree', refs'} \subseteq Trees
    BY <1>2, <2>1, <2>2, BootingKeeps DEF SessionInv, Boot, Reply
  <2>4. ScreenOK'
    BY <1>0, <1>2, <2>3 DEF ScreenOK, Boot
  <2>5. TypeOK'
    BY <2>2, <2>3, <2>4 DEF SessionInv, TypeOK, input, signals
  <2> QED
    BY <2>2, <2>3, <2>5 DEF SessionInv
<1>3. CASE Ui
  <2>1. ScreenOK'
    BY <1>0, <1>3 DEF ScreenOK, Ui
  <2>2. RefsKept'
    BY <1>0, <1>3 DEF Ui, Native, session, RefsKept, RefsAsShown
  <2> QED
    BY <1>3, <2>1, <2>2, Answered DEF Ui
<1>4. CASE Operate
  <2>1. ScreenOK'
    BY <1>0, <1>4 DEF ScreenOK, Operate, FirmwareRuns
  <2>2. RefsKept'
    BY <1>0, <1>4, RefsStay DEF Operate, session
  <2> QED
    BY <1>4, <2>1, <2>2, Answered DEF Operate
<1>5. CASE TapRef
  <2>1. refs' \in Trees /\ tree' \in Trees
    BY <1>0, <1>5 DEF ScreenOK, TapRef, FirmwareRuns
  <2>2. \/ tapped' = NoTap
        \/ \E r \in DOMAIN refs' : tapped' = <<r, refs'[r]>>
    BY <1>5 DEF TapRef
  <2>3. tapped' \in (1 .. MaxWidgets) \X Centers \cup {NoTap}
    BY <2>1, <2>2, WidgetOf
  <2>4. ScreenOK'
    BY <1>0, <1>5, <2>1, <2>3 DEF ScreenOK, TapRef
  <2>5. RefsKept'
    BY <1>0, <1>5, <2>2 DEF TapRef, Native, session, RefsKept, RefsAsShown
  <2> QED
    BY <1>5, <2>4, <2>5, Answered DEF TapRef
<1>6. CASE Quit
  <2>1. UNCHANGED <<session, screen>> /\ pc' # "exited"
    BY <1>6 DEF Quit, session, screen
  <2>2. Ledger'
    BY <1>6 DEF Ledger, Quit
  <2>3. ScreenOK' => TypeOK'
    BY <1>6 DEF SessionInv, TypeOK, Quit, input, signals, session, counts
  <2> QED
    BY <2>1, <2>2, <2>3, Elsewhere
<1>7. CASE Leave
  <2>1. ScreenOK' /\ RefsKept'
    BY <1>0, <1>7, ScreenStays DEF Leave
  <2>2. TypeOK'
    BY <1>7, <2>1 DEF SessionInv, TypeOK, Leave, input, signals, counts
  <2>3. Ledger'
    BY <1>7 DEF Ledger, Leave
  <2>4. ChildIsSelected'
    BY <1>7 DEF SessionInv, TypeOK, Leave, ChildIsSelected, NoChildOutlives
  <2> QED
    BY <2>1, <2>2, <2>3, <2>4 DEF SessionInv
<1> QED
  BY <1>1, <1>2, <1>3, <1>4, <1>5, <1>6, <1>7

LEMMA DaemonKeeps ==
  ASSUME SessionInv, Daemon
  PROVE  SessionInv'
BY ReadingKeeps, CommandKeeps DEF Daemon

\* The client and the signals.
LEMMA OthersKeep ==
  ASSUME SessionInv, Write \/ CloseInput \/ Signal
  PROVE  SessionInv' /\ UNCHANGED <<session, screen>>
<1> USE DaemonConstants
<1>0. Ledger /\ lines \in Nat /\ replies \in Nat
  BY SessionNumbers DEF SessionInv
<1>1. ScreenOK /\ RefsKept
  BY DEF SessionInv, TypeOK
<1>2. UNCHANGED <<session, screen>>
  BY DEF Write, CloseInput, Signal, session, screen
<1>3. UNCHANGED booted
  BY <1>2 DEF session
<1>4. ScreenOK' /\ RefsKept'
  BY <1>1, <1>2, <1>3, ScreenStays
<1>5. ChildIsSelected'
  <2>1. pc' = "exited" => pc = "exited"
    BY DEF Write, CloseInput, Signal
  <2> QED
    BY <1>2, <2>1 DEF SessionInv, ChildIsSelected, NoChildOutlives, session
<1>6. CASE Write
  <2>1. PICK byte \in {Char, Newline} : stdin' = Append(stdin, byte)
    BY <1>6 DEF Write
  <2>2. stdin' \in Seq({Char, Newline})
    BY <2>1, AppendProperties DEF SessionInv, TypeOK
  <2>3. written' \in 0 .. MaxBytes
    BY <1>6, SessionNumbers DEF Write
  <2>4. TypeOK'
    BY <1>2, <1>4, <1>6, <2>2, <2>3 DEF SessionInv, TypeOK, Write, signals, session, counts
  <2>5. Ledger'
    BY <1>6 DEF SessionInv, Ledger, Write, counts
  <2> QED
    BY <1>2, <1>4, <1>5, <2>4, <2>5 DEF SessionInv
<1>7. CASE CloseInput
  <2>1. TypeOK'
    BY <1>2, <1>4, <1>7 DEF SessionInv, TypeOK, CloseInput, signals, session, counts
  <2>2. Ledger'
    BY <1>7 DEF SessionInv, Ledger, CloseInput, counts
  <2> QED
    BY <1>2, <1>4, <1>5, <2>1, <2>2 DEF SessionInv
<1>8. CASE Signal
  <2>1. Ledger' /\ lines' \in Nat /\ replies' \in Nat
    <3>1. CASE pc = "drain_blocked"
      <4>1. lines = replies /\ lines + 1 \in Nat
        BY <1>0, <3>1 DEF Ledger
      <4> QED
        BY <1>8, <3>1, <4>1 DEF Ledger, Signal
    <3>2. CASE pc # "drain_blocked"
      BY <1>0, <1>8, <3>2 DEF Ledger, Signal, counts
    <3> QED
      BY <3>1, <3>2
  <2>2. TypeOK'
    BY <1>2, <1>4, <1>8, <2>1 DEF SessionInv, TypeOK, Signal, input, session
  <2> QED
    BY <1>2, <1>4, <1>5, <2>1, <2>2 DEF SessionInv
<1> QED
  BY <1>6, <1>7, <1>8

LEMMA SessionStarts ==
  ASSUME Init
  PROVE  SessionInv
<1>1. stdin \in Seq({Char, Newline})
  BY EmptySeq DEF Init
<1>2. got \in 0 .. LineMax - 1 /\ written \in 0 .. MaxBytes
  BY DaemonConstants, SMT DEF Init
<1>3. ScreenOK
  BY NoWidgets DEF Init, ScreenOK
<1>4. TypeOK
  BY <1>1, <1>2, <1>3 DEF Init, TypeOK
<1>5. Ledger /\ ChildIsSelected /\ RefsKept
  BY DEF Init, Ledger, ChildIsSelected, NoChildOutlives, RefsKept, RefsAsShown
<1> QED
  BY <1>4, <1>5 DEF SessionInv

LEMMA SessionStutters ==
  ASSUME SessionInv, UNCHANGED vars
  PROVE  SessionInv'
<1>1. TypeOK' /\ Ledger'
  BY DEF SessionInv, TypeOK, ScreenOK, Ledger, vars, input, signals, session, screen, counts
<1>2. ChildIsSelected' /\ RefsKept'
  BY DEF SessionInv, ChildIsSelected, NoChildOutlives, RefsKept, RefsAsShown, vars, session, screen
<1> QED
  BY <1>1, <1>2 DEF SessionInv

\* The session of run (esprite_daemon): between commands there is one reply for
\* each line read, no QEMU child is left when it has ended, and a tap by ref
\* lands where the client was last shown the widget.
THEOREM SessionSafe == Spec => [](OneReplyPerLine /\ NoChildOutlives /\ RefsAsShown)
<1>1. Init => SessionInv
  BY SessionStarts
<1>2. SessionInv /\ [Next]_vars => SessionInv'
  BY DaemonKeeps, OthersKeep, SessionStutters DEF Next
<1>3. SessionInv => OneReplyPerLine /\ NoChildOutlives /\ RefsAsShown
  BY DEF SessionInv, Ledger, OneReplyPerLine, ChildIsSelected, RefsKept
<1> QED
  BY <1>1, <1>2, <1>3, PTL DEF Spec

--------------------------------------------------------------------------------
(* The tables of the command line.                                         *)

LEMMA OneShotNames ==
  OneShots = {"serial", "screenshot", "inject", "snapshot", "native"}
BY DEF OneShots, Needs

LEMMA ExitKinds ==
  DOMAIN Exit =
    {"ok", "no_match", "bad_args", "no_target", "unknown_target", "backend_unavailable",
     "bind_failed", "ref_not_found", "conflict", "post_failed", "unsupported",
     "expect_failed", "capture_failed", "agent_failed"}
BY DEF Exit

LEMMA OutcomesExit ==
  ASSUME NEW c \in OneShots
  PROVE  Outcomes[c] \subseteq DOMAIN Exit
<1>1. c \in {"serial", "screenshot", "inject", "snapshot", "native"}
  BY OneShotNames
<1>2. CASE c = "serial"
  BY <1>2, ExitKinds DEF Outcomes
<1>3. CASE c = "screenshot"
  BY <1>3, ExitKinds DEF Outcomes
<1>4. CASE c = "inject"
  BY <1>4, ExitKinds DEF Outcomes
<1>5. CASE c = "snapshot"
  BY <1>5, ExitKinds DEF Outcomes
<1>6. CASE c = "native"
  BY <1>6, ExitKinds DEF Outcomes
<1> QED
  BY <1>1, <1>2, <1>3, <1>4, <1>5, <1>6

LEMMA FailuresExit == Failures \cup {"ok"} \subseteq DOMAIN Exit
BY ExitKinds DEF Failures

LEMMA OkIsZero == Exit["ok"] = 0
BY DEF Exit

LEMMA Ending ==
  ASSUME NEW kind \in DOMAIN Exit, Ends(kind)
  PROVE  at' = "leaving" /\ code' \in {Exit[k] : k \in DOMAIN Exit} \cup {Running}
BY DEF Ends

--------------------------------------------------------------------------------
(* The steps of a scenario.                                                *)

Ended == Failures \cup {"ok"}

\* A step that ends keeps first the first failure.
LEMMA StepKeepsFirst ==
  ASSUME done \in Seq(Ended), Len(done) < steps, steps \in Nat, first \in Ended, FirstKept,
         NEW kind \in Ended, StepEnds(kind)
  PROVE  /\ done' \in Seq(Ended) /\ Len(done') <= steps /\ first' \in Ended
         /\ FirstKept' /\ at' = "steps"
<1>1. done' = Append(done, kind) /\ at' = "steps"
  BY DEF StepEnds
<1>2. first' = IF first = "ok" THEN kind ELSE first
  BY DEF StepEnds
<1>3. /\ done' \in Seq(Ended) /\ Len(done') = Len(done) + 1
      /\ \A i \in 1 .. Len(done) : done'[i] = done[i]
      /\ done'[Len(done) + 1] = kind
  BY <1>1, AppendProperties
<1>4. /\ Len(done) \in Nat /\ DOMAIN done = 1 .. Len(done)
      /\ DOMAIN done' = 1 .. Len(done) + 1
  BY <1>3, LenProperties
<1>5. Len(done') <= steps
  BY <1>3, <1>4
<1>6. FirstKept'
  <2>1. CASE first = "ok" /\ kind = "ok"
    <3>1. \A i \in DOMAIN done : done[i] = "ok"
      BY <2>1 DEF FirstKept
    <3>2. \A i \in DOMAIN done' : done'[i] = "ok"
      BY <1>3, <1>4, <2>1, <3>1
    <3>3. first' = "ok"
      BY <1>2, <2>1
    <3> QED
      BY <3>2, <3>3, Zenon DEF FirstKept
  <2>2. CASE first = "ok" /\ kind # "ok"
    <3>1. \A i \in DOMAIN done : done[i] = "ok"
      BY <2>2 DEF FirstKept
    <3>2. \A j \in 1 .. (Len(done) + 1) - 1 : done'[j] = "ok"
      BY <1>3, <1>4, <3>1
    <3>3. Len(done) + 1 \in DOMAIN done' /\ done'[Len(done) + 1] = first' /\ first' # "ok"
      BY <1>2, <1>3, <1>4, <2>2
    <3>4. \E i \in DOMAIN done' : done'[i] = first' /\ \A j \in 1 .. i - 1 : done'[j] = "ok"
      BY <3>2, <3>3, Zenon
    <3> QED
      BY <3>3, <3>4, Zenon DEF FirstKept
  <2>3. CASE first # "ok"
    <3>1. PICK i \in DOMAIN done : done[i] = first /\ \A j \in 1 .. i - 1 : done[j] = "ok"
      BY <2>3 DEF FirstKept
    <3>2. i \in DOMAIN done' /\ done'[i] = first' /\ first' # "ok"
      BY <1>2, <1>3, <1>4, <2>3, <3>1
    <3>3. \A j \in 1 .. i - 1 : done'[j] = "ok"
      BY <1>3, <1>4, <3>1
    <3>4. \E k \in DOMAIN done' : done'[k] = first' /\ \A j \in 1 .. k - 1 : done'[j] = "ok"
      BY <3>2, <3>3, Zenon
    <3> QED
      BY <3>2, <3>4, Zenon DEF FirstKept
  <2> QED
    BY <2>1, <2>2, <2>3
<1> QED
  BY <1>1, <1>2, <1>3, <1>5, <1>6

--------------------------------------------------------------------------------
(* The invocation keeps CmdInv.                                            *)

\* Nothing changes what was asked for, so a child is of use as long as its
\* target can do what the command needs.
LEMMA SameUse ==
  ASSUME UNCHANGED invocation
  PROVE  Unsupported' <=> Unsupported
BY DEF Unsupported, OnQemu, invocation

LEMMA Composed ==
  ASSUME CmdInv, UNCHANGED invocation, SessionInv', ProgressOK', Places', FirstKept',
         at' = "exited" => qemu' = "none",
         Unsupported => qemu' = "none"
  PROVE  CmdInv'
<1>1. CommandOK'
  BY DEF CmdInv, CommandOK, SessionInv, invocation
<1>2. ChildHasAUse'
  <2>1. NoChildOutlives'
    BY DEF SessionInv, ChildIsSelected
  <2> QED
    BY <2>1, SameUse DEF ChildHasAUse
<1> QED
  BY <1>1, <1>2 DEF CmdInv

\* A step of the invocation that leaves the session and the steps alone.
LEMMA Moved ==
  ASSUME CmdInv, UNCHANGED <<vars, invocation, done, first>>, at # "exited", at' # "exited",
         ProgressOK', Places'
  PROVE  CmdInv'
<1>1. SessionInv' /\ qemu' = qemu
  BY SessionStutters DEF CmdInv, vars, session
<1>2. FirstKept'
  BY DEF CmdInv, FirstKept
<1>3. Unsupported => qemu' = "none"
  BY <1>1 DEF CmdInv, ChildHasAUse
<1> QED
  BY <1>1, <1>2, <1>3, Composed

\* The firmware of a native target draws, and nothing else of the session changes.
LEMMA FirmwareKeeps ==
  ASSUME SessionInv, tree' \in Trees,
         UNCHANGED <<pc, input, got, signals, session, refs, shown, tapped, counts>>
  PROVE  SessionInv'
<1>1. ScreenOK' /\ RefsKept'
  BY DEF SessionInv, TypeOK, ScreenOK, RefsKept, RefsAsShown, session
<1>2. TypeOK' /\ Ledger'
  BY <1>1 DEF SessionInv, TypeOK, Ledger, input, signals, session, counts
<1>3. ChildIsSelected'
  BY DEF SessionInv, ChildIsSelected, NoChildOutlives, session
<1> QED
  BY <1>1, <1>2, <1>3 DEF SessionInv

\* The boot of a one-shot command, of serve and of a scenario.
LEMMA BootIntoKeeps ==
  ASSUME CmdInv, at = "main", target # NoTarget, BootBackend(target.backend),
         UNCHANGED <<pc, input, got, signals, shown, tapped, counts, invocation, scenario>>
  PROVE  /\ SessionInv' /\ FirstKept' /\ booted' \in {0, 1}
         /\ pc' = "start" /\ done' = <<>> /\ first' = "ok"
<1>1. target.backend \in {"native", "qemu"}
  BY CommandLineConstants DEF CmdInv, CommandOK
<1>2. booted = 0 /\ pc = "start" /\ done = <<>> /\ first = "ok"
  BY DEF CmdInv, Places
<1>3. SessionInv /\ TypeOK /\ ScreenOK /\ Ledger /\ ChildIsSelected /\ RefsKept
  BY DEF CmdInv, SessionInv, TypeOK
<1>4. pc' # "exited" /\ UNCHANGED <<shown, tapped>>
  BY <1>2
<1>5. /\ ChildIsSelected' /\ RefsKept'
      /\ booted' \in {0, 1} /\ selected' \in {"native", "qemu"}
      /\ qemu' \in {"none", "live"} /\ {tree', refs'} \subseteq Trees
  BY <1>1, <1>2, <1>3, <1>4, BootingKeeps
<1>6. ScreenOK'
  BY <1>3, <1>5 DEF ScreenOK
<1>7. TypeOK' /\ Ledger'
  BY <1>3, <1>5, <1>6 DEF TypeOK, Ledger, input, signals, counts
<1>8. FirstKept'
  BY DEF CmdInv, FirstKept, scenario
<1> QED
  BY <1>2, <1>3, <1>5, <1>7, <1>8 DEF SessionInv, scenario

\* What the steps below know of the state.
LEMMA CmdShape ==
  ASSUME CmdInv
  PROVE  /\ SessionInv /\ TypeOK /\ ProgressOK /\ Places /\ FirstKept
         /\ steps \in Nat /\ Len(done) \in Nat /\ Len(done) <= steps
         /\ done \in Seq(Ended) /\ first \in Ended
         /\ Unsupported => qemu = "none"
<1>1. steps \in Nat
  BY CommandLineConstants DEF CmdInv, CommandOK
<1>2. done \in Seq(Ended) /\ first \in Ended /\ Len(done) <= steps
  BY DEF CmdInv, CommandOK, ProgressOK, Ended
<1>3. Len(done) \in Nat
  BY <1>2, LenProperties
<1> QED
  BY <1>1, <1>2, <1>3 DEF CmdInv, CommandOK, ChildHasAUse

LEMMA RefuseKeeps ==
  ASSUME CmdInv, Refuse
  PROVE  CmdInv'
<1>1. at' = "leaving" /\ code' \in {Exit[k] : k \in DOMAIN Exit} \cup {Running}
  BY ExitKinds, Ending DEF Refuse
<1>2. ProgressOK'
  BY <1>1, CmdShape DEF Refuse, ProgressOK, scenario, invocation
<1>3. Places'
  BY <1>1, CmdShape DEF Refuse, Places, vars, session, scenario, invocation
<1> QED
  BY <1>1, <1>2, <1>3, Moved DEF Refuse, scenario

\* A boot: the caller says where the invocation goes from there.
LEMMA Booted ==
  ASSUME CmdInv, at = "main", target # NoTarget, BootBackend(target.backend),
         UNCHANGED <<pc, input, got, signals, shown, tapped, counts, invocation, scenario>>,
         ~Unsupported,
         code' \in {Exit[k] : k \in DOMAIN Exit} \cup {Running},
         \/ at' = "leaving" /\ (command # "scenario" \/ booted' = 0)
         \/ at' = "act" /\ command \in OneShots
         \/ at' = "steps" /\ command = "scenario"
         \/ at' = "loop" /\ command = "serve"
  PROVE  CmdInv'
<1>1. /\ SessionInv' /\ FirstKept' /\ booted' \in {0, 1}
      /\ pc' = "start" /\ done' = <<>> /\ first' = "ok"
  BY BootIntoKeeps
<1>2. ProgressOK'
  BY CmdShape DEF ProgressOK, scenario, invocation
<1>3. Places'
  BY <1>1 DEF Places, invocation
<1> QED
  BY <1>1, <1>2, <1>3, Composed

LEMMA BootsKeep ==
  ASSUME CmdInv, BootTarget \/ StartScenario \/ StartServing
  PROVE  CmdInv'
<1>1. /\ at = "main" /\ target # NoTarget /\ BootBackend(target.backend)
      /\ UNCHANGED <<pc, input, got, signals, shown, tapped, counts, invocation, scenario>>
  BY DEF BootTarget, StartScenario, StartServing, BootInto
<1>2. ~Unsupported
  BY OneShotNames DEF BootTarget, StartScenario, StartServing, Unsupported
<1>3. code \in {Exit[k] : k \in DOMAIN Exit} \cup {Running}
  BY CmdShape DEF ProgressOK
<1>4. CASE booted' = 0
  <2>1. Ends("backend_unavailable")
    BY <1>4 DEF BootTarget, StartScenario, StartServing, BootInto
  <2>2. at' = "leaving" /\ code' \in {Exit[k] : k \in DOMAIN Exit} \cup {Running}
    BY <2>1, ExitKinds, Ending
  <2> QED
    BY <1>1, <1>2, <1>4, <2>2, Booted
<1>5. CASE booted' # 0 /\ BootTarget
  <2>1. at' = "act" /\ UNCHANGED code /\ command \in OneShots
    BY <1>5 DEF BootTarget, BootInto
  <2> QED
    BY <1>1, <1>2, <1>3, <2>1, Booted
<1>6. CASE booted' # 0 /\ StartScenario
  <2>1. at' = "steps" /\ UNCHANGED code /\ command = "scenario"
    BY <1>6 DEF StartScenario, BootInto
  <2> QED
    BY <1>1, <1>2, <1>3, <2>1, Booted
<1>7. CASE booted' # 0 /\ StartServing
  <2>1. command = "serve"
    BY <1>7 DEF StartServing
  <2>2. \/ at' = "loop" /\ UNCHANGED code
        \/ Ends("bind_failed")
        \/ Ends("unsupported")
    BY <1>7 DEF StartServing, BootInto
  <2>3. \/ at' = "loop"
        \/ at' = "leaving"
    BY <2>2 DEF Ends
  <2>4. code' \in {Exit[k] : k \in DOMAIN Exit} \cup {Running}
    BY <1>3, <2>2, ExitKinds, Ending
  <2> QED
    BY <1>1, <1>2, <2>1, <2>3, <2>4, Booted
<1> QED
  BY <1>4, <1>5, <1>6, <1>7

LEMMA StartSessionKeeps ==
  ASSUME CmdInv, StartSession
  PROVE  CmdInv'
<1>1. ProgressOK'
  BY CmdShape DEF StartSession, ProgressOK, scenario, invocation
<1>2. Places'
  BY CmdShape DEF StartSession, Places, vars, session, scenario, invocation
<1> QED
  BY <1>1, <1>2, Moved DEF StartSession, scenario

LEMMA ActKeeps ==
  ASSUME CmdInv, Act
  PROVE  CmdInv'
<1>1. command \in OneShots /\ pc = "start"
  BY CmdShape DEF Act, Places
<1>2. PICK kind \in Outcomes[command] : Ends(kind)
  BY DEF Act
<1>3. at' = "leaving" /\ code' \in {Exit[k] : k \in DOMAIN Exit} \cup {Running}
  BY <1>1, <1>2, OutcomesExit, Ending
<1>4. SessionInv' /\ qemu' = qemu
  <2>1. tree' \in Trees
    BY CmdShape DEF Act, FirmwareRuns, TypeOK, ScreenOK
  <2> QED
    BY <2>1, CmdShape, FirmwareKeeps DEF Act, session
<1>5. ProgressOK'
  BY <1>3, CmdShape DEF Act, ProgressOK, scenario, invocation
<1>6. command # "scenario" /\ command # "run"
  BY <1>1, OneShotNames
<1>7. Places'
  BY <1>3, <1>6 DEF Act, Places, scenario, invocation
<1>8. FirstKept'
  BY CmdShape DEF Act, FirstKept, scenario
<1> QED
  BY <1>3, <1>4, <1>5, <1>7, <1>8, CmdShape, Composed DEF Act

LEMMA StallKeeps ==
  ASSUME CmdInv, Stall
  PROVE  CmdInv'
<1>1. command = "serve" /\ pc = "start" /\ at' \in {"loop", "stalled"}
  BY CmdShape DEF Stall, Places
<1>2. ProgressOK'
  BY <1>1, CmdShape DEF Stall, ProgressOK, scenario, invocation
<1>3. Places'
  BY <1>1 DEF Stall, Places, vars, invocation
<1> QED
  BY <1>1, <1>2, <1>3, Moved DEF Stall, scenario

LEMMA StopServingKeeps ==
  ASSUME CmdInv, StopServing
  PROVE  CmdInv'
<1>1. at' = "leaving" /\ code' \in {Exit[k] : k \in DOMAIN Exit} \cup {Running}
  BY ExitKinds, Ending DEF StopServing
<1>2. command = "serve"
  BY CmdShape DEF StopServing, Places
<1>3. ProgressOK'
  BY <1>1, CmdShape DEF StopServing, ProgressOK, scenario, invocation
<1>4. Places'
  BY <1>1, <1>2 DEF StopServing, Places, scenario, invocation
<1> QED
  BY <1>1, <1>3, <1>4, Moved DEF StopServing, scenario

LEMMA StepKeeps ==
  ASSUME CmdInv, Step
  PROVE  CmdInv'
<1>1. at = "steps" /\ Len(done) < steps
  BY DEF Step
<1>2. command = "scenario" /\ pc = "start"
  BY <1>1, CmdShape DEF Places
<1>3. PICK kind \in Ended : StepEnds(kind)
  BY DEF Step, Ended
<1>4. /\ done' \in Seq(Ended) /\ Len(done') <= steps /\ first' \in Ended
      /\ FirstKept' /\ at' = "steps"
  BY <1>1, <1>3, CmdShape, StepKeepsFirst
<1>5. SessionInv' /\ qemu' = qemu
  <2>1. tree' \in Trees
    BY CmdShape DEF Step, FirmwareRuns, TypeOK, ScreenOK
  <2> QED
    BY <2>1, CmdShape, FirmwareKeeps DEF Step, session
<1>6. ProgressOK'
  <2>1. copy' \in {"none"} \cup Captured /\ UNCHANGED <<late, code, steps>>
    BY CmdShape DEF Step, ProgressOK, invocation
  <2> QED
    BY <1>4, <2>1, CmdShape DEF ProgressOK, Ended
<1>7. Places'
  BY <1>2, <1>4 DEF Step, Places, invocation
<1> QED
  BY <1>4, <1>5, <1>6, <1>7, CmdShape, Composed DEF Step

LEMMA PixelKeeps ==
  ASSUME CmdInv, StartPixel \/ Look \/ Deadline
  PROVE  CmdInv'
<1>1. command = "scenario" /\ pc = "start" /\ Len(done) < steps
  BY CmdShape DEF StartPixel, Look, Deadline, Places
<1>2. UNCHANGED <<vars, invocation, code>> /\ at \in {"steps", "pixel"}
  BY DEF StartPixel, Look, Deadline
<1>3. pc' = "start" /\ command' = "scenario" /\ steps' = steps
  BY <1>1, <1>2 DEF vars, invocation
<1>4. /\ copy' \in {"none"} \cup Captured
      /\ late' \in {0, 1}
  BY CmdShape DEF StartPixel, Look, Deadline, ProgressOK
<1>5. CASE UNCHANGED <<done, first>> /\ at' = "pixel"
  <2>1. ProgressOK'
    BY <1>2, <1>3, <1>4, <1>5, CmdShape DEF ProgressOK
  <2>2. Places'
    BY <1>1, <1>3, <1>5 DEF Places
  <2> QED
    BY <1>2, <1>5, <2>1, <2>2, Moved
<1>6. CASE \E kind \in Ended : StepEnds(kind)
  <2>1. /\ done' \in Seq(Ended) /\ Len(done') <= steps /\ first' \in Ended
        /\ FirstKept' /\ at' = "steps"
    BY <1>1, <1>6, CmdShape, StepKeepsFirst
  <2>2. ProgressOK'
    BY <1>2, <1>3, <1>4, <2>1, CmdShape DEF ProgressOK, Ended
  <2>3. Places'
    BY <1>3, <2>1 DEF Places
  <2>4. SessionInv' /\ qemu' = qemu
    BY <1>2, CmdShape, SessionStutters DEF vars, session
  <2> QED
    BY <1>2, <2>1, <2>2, <2>3, <2>4, CmdShape, Composed
<1>7. CASE StartPixel
  BY <1>5, <1>7 DEF StartPixel
<1>8. CASE Deadline
  BY <1>5, <1>8 DEF Deadline
<1>9. CASE Look
  <2>1. \/ \E kind \in {"ok", "expect_failed", "bad_args"} : StepEnds(kind)
        \/ UNCHANGED <<at, done, first>>
    BY <1>9 DEF Look
  <2>2. {"ok", "expect_failed", "bad_args"} \subseteq Ended
    BY DEF Ended, Failures
  <2> QED
    BY <1>5, <1>6, <1>9, <2>1, <2>2 DEF Look
<1> QED
  BY <1>7, <1>8, <1>9

LEMMA EndScenarioKeeps ==
  ASSUME CmdInv, EndScenario
  PROVE  CmdInv'
<1>1. first \in DOMAIN Exit
  BY CmdShape, FailuresExit DEF Ended
<1>2. at' = "leaving" /\ code' \in {Exit[k] : k \in DOMAIN Exit} \cup {Running}
  BY <1>1, Ending DEF EndScenario
<1>3. code' = Exit[first] /\ Len(done) = steps
  BY DEF EndScenario, Ends
<1>4. ProgressOK'
  BY <1>2, CmdShape DEF EndScenario, ProgressOK, scenario, invocation
<1>5. Places'
  BY <1>2, <1>3 DEF EndScenario, Places, scenario, invocation
<1> QED
  BY <1>2, <1>4, <1>5, Moved DEF EndScenario, scenario

LEMMA SessionKeeps ==
  ASSUME CmdInv, InSession \/ EndSession
  PROVE  CmdInv'
<1>1. at = "session" /\ command = "run"
  BY CmdShape DEF InSession, EndSession, Places
<1>2. ~Unsupported
  BY <1>1, OneShotNames DEF Unsupported
<1>3. CASE InSession
  <2>1. SessionInv'
    BY <1>3, CmdShape, DaemonKeeps DEF InSession
  <2>2. ProgressOK'
    BY <1>3, CmdShape DEF InSession, ProgressOK, scenario, invocation
  <2>3. Places' /\ FirstKept'
    BY <1>1, <1>3, CmdShape DEF InSession, Places, FirstKept, scenario, invocation
  <2> QED
    BY <1>1, <1>2, <1>3, <2>1, <2>2, <2>3, Composed DEF InSession
<1>4. CASE EndSession
  <2>1. at' = "leaving" /\ code' \in {Exit[k] : k \in DOMAIN Exit} \cup {Running}
    BY <1>4, ExitKinds, Ending DEF EndSession
  <2>2. ProgressOK'
    BY <1>4, <2>1, CmdShape DEF EndSession, ProgressOK, scenario, invocation
  <2>3. Places'
    BY <1>1, <1>4, <2>1 DEF EndSession, Places, scenario, invocation
  <2> QED
    BY <1>4, <2>1, <2>2, <2>3, Moved DEF EndSession, scenario
<1> QED
  BY <1>3, <1>4

LEMMA LeaveMainKeeps ==
  ASSUME CmdInv, LeaveMain
  PROVE  CmdInv'
<1>1. qemu' = "none"
  BY CmdShape DEF LeaveMain, SessionInv, TypeOK, ChildIsSelected
<1>2. SessionInv'
  <2>1. ScreenOK' /\ RefsKept'
    BY CmdShape, ScreenStays DEF LeaveMain, SessionInv, TypeOK
  <2>2. TypeOK' /\ Ledger'
    BY <1>1, <2>1, CmdShape DEF LeaveMain, SessionInv, TypeOK, Ledger, input, signals, counts
  <2>3. ChildIsSelected'
    BY <1>1 DEF ChildIsSelected, NoChildOutlives
  <2> QED
    BY <2>1, <2>2, <2>3 DEF SessionInv
<1>3. ProgressOK'
  BY CmdShape DEF LeaveMain, ProgressOK, scenario, invocation
<1>4. Places' /\ FirstKept'
  BY CmdShape DEF LeaveMain, Places, FirstKept, scenario, invocation
<1> QED
  BY <1>1, <1>2, <1>3, <1>4, Composed DEF LeaveMain

LEMMA OutsideKeeps ==
  ASSUME CmdInv, Outside
  PROVE  CmdInv'
<1>1. SessionInv' /\ UNCHANGED <<session, screen>>
  BY CmdShape, OthersKeep DEF Outside
<1>2. UNCHANGED <<booted, qemu, command, steps, done, first, at, code>> /\ at # "exited"
  BY <1>1 DEF Outside, session, invocation, scenario, Signal
<1>3. ProgressOK'
  BY CmdShape DEF Outside, ProgressOK, scenario, invocation
<1>4. pc = "start" => pc' = "start"
  BY DEF Outside, Write, CloseInput, Signal
<1>5. Places' /\ FirstKept'
  BY <1>2, <1>4, CmdShape DEF Places, FirstKept
<1> QED
  BY <1>1, <1>2, <1>3, <1>5, CmdShape, Composed DEF Outside

LEMMA CmdStutters ==
  ASSUME CmdInv, UNCHANGED cmdVars
  PROVE  CmdInv'
<1>1. SessionInv' /\ UNCHANGED <<invocation, qemu, at>>
  BY CmdShape, SessionStutters DEF cmdVars, vars, session
<1>2. ProgressOK'
  BY CmdShape DEF cmdVars, ProgressOK, scenario, invocation
<1>3. Places' /\ FirstKept'
  BY CmdShape DEF cmdVars, vars, session, Places, FirstKept, scenario, invocation
<1>4. at = "exited" => qemu = "none"
  BY DEF CmdInv, ChildHasAUse
<1> QED
  BY <1>1, <1>2, <1>3, <1>4, CmdShape, Composed

LEMMA CmdStarts ==
  ASSUME CmdInit
  PROVE  CmdInv
<1>1. SessionInv /\ qemu = "none" /\ booted = 0 /\ pc = "start"
  BY SessionStarts DEF CmdInit, Init
<1>2. /\ steps \in 0 .. MaxSteps /\ steps \in Nat
      /\ command \in OneShots \cup {"run", "serve", "scenario", "unknown"}
      /\ target \in Targets \cup {NoTarget}
      /\ wants \subseteq {"shot", "window", "ble"}
  BY CommandLineConstants DEF CmdInit
<1>3. done \in Seq(Ended) /\ Len(done) = 0
  BY EmptySeq DEF CmdInit
<1>4. ProgressOK
  BY <1>2, <1>3 DEF CmdInit, ProgressOK, Ended
<1>5. CommandOK
  BY <1>1, <1>2, <1>4 DEF CommandOK, SessionInv
<1>6. Places /\ FirstKept
  BY <1>1 DEF CmdInit, Places, FirstKept
<1>7. ChildHasAUse
  BY <1>1 DEF ChildHasAUse, NoChildOutlives
<1> QED
  BY <1>1, <1>5, <1>6, <1>7 DEF CmdInv

\* CmdInv is inductive: the state of an invocation of esprite, whatever its
\* command, target and signals, satisfies it.
THEOREM Invariant == CmdSpec => []CmdInv
<1>1. CmdInit => CmdInv
  BY CmdStarts
<1>2. CmdInv /\ [CmdNext]_cmdVars => CmdInv'
  BY RefuseKeeps, BootsKeep, StartSessionKeeps, ActKeeps, StallKeeps, StopServingKeeps, StepKeeps,
     PixelKeeps, EndScenarioKeeps, SessionKeeps, LeaveMainKeeps, OutsideKeeps, CmdStutters
     DEF CmdNext, Process
<1> QED
  BY <1>1, <1>2, PTL DEF CmdSpec

\* Every variable of an invocation has its type.
THEOREM TypeCorrect == CmdSpec => []CommandOK
<1>1. CmdInv => CommandOK
  BY DEF CmdInv
<1> QED
  BY <1>1, Invariant, PTL

\* A QEMU child is only ever spawned for a command its target can do, and none
\* outlives the session or the invocation (BackendShutdownGuard).
THEOREM ChildrenAreUsed == CmdSpec => []ChildHasAUse
<1>1. CmdInv => ChildHasAUse
  BY DEF CmdInv
<1> QED
  BY <1>1, Invariant, PTL

\* The session replies once to each line, and a scenario exits with the code of
\* its first step that failed, having run them all (scenario_run).
THEOREM AnswersRight == CmdSpec => []Answers
<1>1. CmdInv => OneReplyPerLine
  BY DEF CmdInv, SessionInv, Ledger, OneReplyPerLine
<1>2. CmdInv => FirstFailureTold
  <2> SUFFICES ASSUME CmdInv, at \in {"leaving", "exited"}, command = "scenario", booted = 1
               PROVE  /\ Len(done) = steps
                      /\ \/ code = 0 /\ \A i \in DOMAIN done : done[i] = "ok"
                         \/ \E i \in DOMAIN done :
                              /\ done[i] # "ok" /\ code = Exit[done[i]]
                              /\ \A j \in 1 .. i - 1 : done[j] = "ok"
    BY DEF FirstFailureTold
  <2>1. Len(done) = steps /\ code = Exit[first]
    BY DEF CmdInv, Places
  <2>2. CASE first = "ok"
    <3>1. code = 0
      BY <2>1, <2>2, OkIsZero
    <3>2. \A i \in DOMAIN done : done[i] = "ok"
      BY <2>2 DEF CmdInv, FirstKept
    <3> QED
      BY <2>1, <3>1, <3>2
  <2>3. CASE first # "ok"
    <3>1. PICK i \in DOMAIN done : done[i] = first /\ \A j \in 1 .. i - 1 : done[j] = "ok"
      BY <2>3 DEF CmdInv, FirstKept
    <3>2. done[i] # "ok" /\ code = Exit[done[i]]
      BY <2>1, <2>3, <3>1
    <3> QED
      BY <2>1, <3>1, <3>2, Zenon
  <2> QED
    BY <2>2, <2>3
<1> QED
  BY <1>1, <1>2, Invariant, PTL DEF Answers

\* In an invocation, too, a tap by ref lands where the client was last shown the
\* widget (g_refs).
THEOREM TapsLandAsShown == CmdSpec => []RefsAsShown
<1>1. CmdInv => RefsAsShown
  BY DEF CmdInv, SessionInv, RefsKept
<1> QED
  BY <1>1, Invariant, PTL

================================================================================
