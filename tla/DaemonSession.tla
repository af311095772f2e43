----------------------------- MODULE DaemonSession -----------------------------
(***************************************************************************)
(* esprite_daemon (cli/cli.cpp): the session of "esprite run", one JSON    *)
(* command per line in, one reply per line out, until quit, the end of the *)
(* input, SIGINT or SIGTERM.  The handler sets g_interrupted and writes a  *)
(* byte to a self-pipe; the loop polls the input and the self-pipe before  *)
(* it lets fgets block.                                                    *)
(*                                                                         *)
(* The input is unbuffered, so fgets is one read per byte.  A command is a *)
(* choice of what it does to the session; QemuBackend is the detail of a   *)
(* boot and of the shutdown that ends the session.  Of the screen of an    *)
(* LVGL target the session holds the refs of the latest snapshot           *)
(* (peripherals/lvgl/lvgl_snapshot.cpp), so that a later tap can name one. *)
(***************************************************************************)
EXTENDS Naturals, Sequences

CONSTANTS LineMax,    \* sizeof(line)
          MaxBytes,   \* most bytes the client writes
          MaxWidgets, \* most widgets on the screen
          Centers     \* where the center of a widget can be

ASSUME DaemonConstants ==
  LineMax \in Nat \ {0, 1} /\ MaxBytes \in Nat /\ MaxWidgets \in Nat

\* The visible widgets in the order walk() visits them: "e0", "e1" ... name them
\* by their index.
Trees == UNION {[1 .. n -> Centers] : n \in 0 .. MaxWidgets}
NoTap == <<>>

Char == "c"
Newline == "n"

VARIABLES
  pc,           \* where the session is; "blocked" and "drain_blocked" are reads
                \* that have found nothing and sleep in the kernel
  stdin,        \* bytes in the input pipe
  written,      \* bytes written to it so far
  eof,          \* the client has closed it
  got,          \* bytes fgets has put into line
  interrupted,  \* g_interrupted
  selfPipe,     \* g_sigpipe holds a byte
  booted,
  selected,     \* the active backend, sim_backend()
  qemu,         \* the QEMU child: "none" or "live"
  tree,         \* the widgets of the native firmware's screen
  refs,         \* g_refs
  shown,        \* the latest reply to "ui"
  tapped,       \* the ref the last command tapped, and where
  lines,        \* lines of input read to their end
  replies       \* lines of output written

signals == <<interrupted, selfPipe>>
input == <<stdin, written, eof>>
session == <<booted, selected, qemu>>
screen == <<tree, refs, shown, tapped>>
counts == <<lines, replies>>
vars == <<pc, input, got, signals, session, screen, counts>>

ScreenOK ==
  /\ {tree, refs, shown} \subseteq Trees
  /\ tapped \in (1 .. MaxWidgets) \X Centers \cup {NoTap}

TypeOK ==
  /\ pc \in {"start", "drain_pipe", "check", "poll", "read", "blocked", "run",
             "drain", "drain_blocked", "leaving", "exited"}
  /\ stdin \in Seq({Char, Newline})
  /\ written \in 0 .. MaxBytes
  /\ eof \in {0, 1}
  /\ got \in 0 .. LineMax - 1
  /\ {interrupted, selfPipe, booted} \subseteq {0, 1}
  /\ selected \in {"native", "qemu"}
  /\ qemu \in {"none", "live"}
  /\ {lines, replies} \subseteq Nat
  /\ ScreenOK

Init ==
  /\ pc = "start"
  /\ stdin = <<>>
  /\ written = 0
  /\ eof = 0
  /\ got = 0
  /\ interrupted = 0
  /\ selfPipe = 0
  /\ booted = 0
  /\ selected = "native"
  /\ qemu = "none"
  /\ tree = <<>>
  /\ refs = <<>>
  /\ shown = <<>>
  /\ tapped = NoTap
  /\ lines = 0
  /\ replies = 0

--------------------------------------------------------------------------------
(* Waiting for a line.                                                     *)

\* The handlers are installed already; the flag starts afresh, and later the
\* bytes that an earlier session may have left go.
ResetFlag ==
  /\ pc = "start"
  /\ interrupted' = 0
  /\ pc' = "drain_pipe"
  /\ UNCHANGED <<input, got, selfPipe, session, screen, counts>>

DrainSelfPipe ==
  /\ pc = "drain_pipe"
  /\ selfPipe' = 0
  /\ pc' = "check"
  /\ UNCHANGED <<input, got, interrupted, session, screen, counts>>

\* The loop's own look at the flag and daemon_wait_input's.
Check ==
  /\ pc = "check"
  /\ pc' = IF interrupted = 1 THEN "leaving" ELSE "poll"
  /\ UNCHANGED <<input, got, signals, session, screen, counts>>

\* A faulty Poll: only the input is polled, and EINTR is left to wake it.
PollInputOnly ==
  /\ pc = "poll"
  /\ stdin # <<>> \/ eof = 1
  /\ pc' = "read"
  /\ got' = 0
  /\ UNCHANGED <<input, signals, session, screen, counts>>

\* poll() returns: for the self-pipe, or to let fgets read.
Poll ==
  /\ pc = "poll"
  /\ \/ selfPipe = 1 /\ pc' = "leaving" /\ UNCHANGED got
     \/ selfPipe = 0 /\ (stdin # <<>> \/ eof = 1) /\ pc' = "read" /\ got' = 0
  /\ UNCHANGED <<input, signals, session, screen, counts>>

--------------------------------------------------------------------------------
(* fgets, and the loop that drains a line it could not hold.               *)

\* A faulty ReadByte: no room is kept for the terminating NUL.
ReadByteOverrun ==
  /\ pc \in {"read", "blocked"}
  /\ stdin # <<>>
  /\ stdin' = Tail(stdin)
  /\ got' = got + 1
  /\ pc' = IF Head(stdin) = Newline THEN "run"
           ELSE IF got' = LineMax THEN "drain" ELSE "read"
  /\ lines' = IF Head(stdin) = Newline THEN lines + 1 ELSE lines
  /\ UNCHANGED <<written, eof, signals, session, screen, replies>>

\* One byte into line: to its end, or up to the room there is.
ReadByte ==
  /\ pc \in {"read", "blocked"}
  /\ stdin # <<>>
  /\ stdin' = Tail(stdin)
  /\ got' = got + 1
  /\ pc' = IF Head(stdin) = Newline THEN "run"
           ELSE IF got' = LineMax - 1 THEN "drain" ELSE "read"
  /\ lines' = IF Head(stdin) = Newline THEN lines + 1 ELSE lines
  /\ UNCHANGED <<written, eof, signals, session, screen, replies>>

\* The end of the input: of the session, or of a last line without newline.
ReadEnd ==
  /\ pc \in {"read", "blocked"}
  /\ stdin = <<>>
  /\ eof = 1
  /\ pc' = IF got = 0 THEN "leaving" ELSE "run"
  /\ lines' = IF got = 0 THEN lines ELSE lines + 1
  /\ UNCHANGED <<input, got, signals, session, screen, replies>>

\* A faulty DrainByte: the rest of the line is left for the next fgets.
DrainNothing ==
  /\ pc = "drain"
  /\ pc' = "check"
  /\ replies' = replies + 1
  /\ UNCHANGED <<input, got, signals, session, screen, lines>>

\* The line is too long: its rest is read and dropped, then one error is sent.
DrainByte ==
  /\ pc \in {"drain", "drain_blocked"}
  /\ stdin # <<>>
  /\ stdin' = Tail(stdin)
  /\ IF Head(stdin) = Newline
     THEN pc' = "check" /\ lines' = lines + 1 /\ replies' = replies + 1
     ELSE pc' = "drain" /\ UNCHANGED counts
  /\ UNCHANGED <<written, eof, got, signals, session, screen>>

DrainEnd ==
  /\ pc \in {"drain", "drain_blocked"}
  /\ stdin = <<>>
  /\ eof = 1
  /\ pc' = "check"
  /\ lines' = lines + 1
  /\ replies' = replies + 1
  /\ UNCHANGED <<input, got, signals, session, screen>>

\* read() finds nothing and sleeps.
Block ==
  /\ pc \in {"read", "drain"}
  /\ stdin = <<>>
  /\ eof = 0
  /\ pc' = IF pc = "read" THEN "blocked" ELSE "drain_blocked"
  /\ UNCHANGED <<input, got, signals, session, screen, counts>>

--------------------------------------------------------------------------------
(* The command on the line.                                                *)

\* Every command but quit ends in one line of output.
Reply ==
  /\ pc = "run"
  /\ pc' = "check"
  /\ replies' = replies + 1
  /\ UNCHANGED <<input, got, signals, lines>>

Native == booted = 1 /\ selected = "native"

\* The native firmware runs for some steps and draws what it likes.
FirmwareRuns == tree' \in Trees

\* Not JSON, not_booted, unsupported, an unknown target or command, bad
\* arguments, already_booted: an error, and the session is as it was.
Rejected ==
  /\ Reply
  /\ tapped' = NoTap
  /\ UNCHANGED <<session, tree, refs, shown>>

\* A faulty Boot: one boot per session is not enforced.
BootAgain ==
  /\ Reply
  /\ \E kind \in {"native", "qemu"} :
       /\ selected' = kind
       /\ booted' = 1
       /\ qemu' = IF kind = "qemu" THEN "live" ELSE qemu
  /\ FirmwareRuns
  /\ tapped' = NoTap
  /\ UNCHANGED <<refs, shown>>

\* The backend of the target is selected, then boots it.  A native boot resets
\* the refs (boot_reset) and warms the firmware up; a QEMU boot can fail, and
\* leaves no child then.
BootBackend(kind) ==
  /\ selected' = kind
  /\ \/ kind = "native" /\ booted' = 1 /\ refs' = <<>> /\ FirmwareRuns
        /\ UNCHANGED qemu
     \/ kind = "qemu" /\ booted' = 1 /\ qemu' = "live" /\ UNCHANGED <<tree, refs>>
     \/ kind = "qemu" /\ UNCHANGED <<booted, qemu, tree, refs>>

\* boot: one per session.
Boot ==
  /\ booted = 0
  /\ Reply
  /\ tapped' = NoTap
  /\ \E kind \in {"native", "qemu"} : BootBackend(kind)
  /\ UNCHANGED shown

\* lvgl_snapshot_json: the refs are those of the tree it prints.
Ui ==
  /\ Native
  /\ Reply
  /\ refs' = tree
  /\ shown' = tree
  /\ tapped' = NoTap
  /\ UNCHANGED <<session, tree>>

\* Any other command on a booted target: an injection, steps, screenshot,
\* serial.  It succeeds or reports why not; a native firmware runs meanwhile.
Operate ==
  /\ booted = 1
  /\ Reply
  /\ IF Native THEN FirmwareRuns ELSE UNCHANGED tree
  /\ tapped' = NoTap
  /\ UNCHANGED <<session, refs, shown>>

\* A faulty TapRef: the ref is looked up in the tree of the moment.
TapCurrentTree ==
  /\ Native
  /\ Reply
  /\ \E r \in DOMAIN tree : tapped' = <<r, tree[r]>>
  /\ refs' = tree
  /\ FirmwareRuns
  /\ UNCHANGED <<session, shown>>

\* tap by ref: where the latest snapshot had it, or with no snapshot to look at
\* (none taken, or empty) where a new one has it, which the client never sees.
TapRef ==
  /\ Native
  /\ Reply
  /\ refs' = IF refs = <<>> THEN tree ELSE refs
  /\ \/ /\ \E r \in DOMAIN refs' : tapped' = <<r, refs'[r]>>
        /\ FirmwareRuns
     \/ tapped' = NoTap /\ UNCHANGED tree   \* ref_not_found
  /\ UNCHANGED <<session, shown>>

\* quit and exit are not answered.
Quit ==
  /\ pc = "run"
  /\ pc' = "leaving"
  /\ UNCHANGED <<input, got, signals, session, screen, counts>>

\* BackendShutdownGuard: the active backend is shut down on every way out.
Leave ==
  /\ pc = "leaving"
  /\ qemu' = IF selected = "qemu" THEN "none" ELSE qemu
  /\ pc' = "exited"
  /\ UNCHANGED <<input, got, signals, booted, selected, screen, counts>>

--------------------------------------------------------------------------------
(* The client, and whoever sends the signal.                               *)

Write ==
  /\ eof = 0
  /\ written < MaxBytes
  /\ written' = written + 1
  /\ \E byte \in {Char, Newline} : stdin' = Append(stdin, byte)
  /\ UNCHANGED <<pc, eof, got, signals, session, screen, counts>>

CloseInput ==
  /\ eof = 0
  /\ eof' = 1
  /\ UNCHANGED <<pc, stdin, written, got, signals, session, screen, counts>>

\* SIGINT or SIGTERM is delivered.  A read that sleeps returns EINTR: fgets
\* returns NULL, and fgetc EOF, which ends the drained line.
Signal ==
  /\ pc # "exited"
  /\ interrupted = 0
  /\ interrupted' = 1
  /\ selfPipe' = 1
  /\ pc' = IF pc = "blocked" THEN "leaving"
           ELSE IF pc = "drain_blocked" THEN "check" ELSE pc
  /\ IF pc = "drain_blocked"
     THEN lines' = lines + 1 /\ replies' = replies + 1
     ELSE UNCHANGED counts
  /\ UNCHANGED <<input, got, session, screen>>

--------------------------------------------------------------------------------
Daemon ==
  \/ ResetFlag \/ DrainSelfPipe \/ Check \/ Poll
  \/ ReadByte \/ ReadEnd \/ Block \/ DrainByte \/ DrainEnd
  \/ Rejected \/ Boot \/ Ui \/ Operate \/ TapRef \/ Quit \/ Leave

Next == Daemon \/ Write \/ CloseInput \/ Signal

Spec == Init /\ [][Next]_vars

\* The session goes on whenever it can; every command it runs returns.
FairSpec == Spec /\ WF_vars(Daemon)

--------------------------------------------------------------------------------
(* Properties.                                                             *)

\* "1-in/1-out reply pairing": between commands there is one reply for each
\* line read, also when it was too long, had no newline, or was cut short.
OneReplyPerLine == pc \in {"check", "poll"} => replies = lines

\* However the session ends, no QEMU child outlives it.
NoChildOutlives == pc = "exited" => qemu = "none"

\* A client that closes the input ends the session, whatever it sent before.
EndOfInputEndsSession == eof = 1 ~> pc = "exited"

\* A signal is acted upon wherever the session is, with one exception: it can
\* still wait for the rest of a line of which some has come.
SignalIsSeen ==
  pc # "start" /\ interrupted = 1 ~>
    pc = "exited" \/ (pc \in {"blocked", "drain_blocked"} /\ got > 0)

\* What ends a session ends it.
SessionEnds == EndOfInputEndsSession /\ SignalIsSeen

\* "Refs from ui stay valid for tap within the session": a tap by ref lands
\* where the client was last shown the widget, whatever the firmware has redrawn
\* since, and whatever other commands have run in between.
RefsAsShown ==
  tapped # NoTap /\ shown # <<>> =>
    tapped[1] \in DOMAIN shown /\ tapped[2] = shown[tapped[1]]

\* The comments claim it without the exception: the self-pipe "closes the
\* signal-after-check-before-block window" (esprite_daemon).
SignalEndsSession == pc # "start" /\ interrupted = 1 ~> pc = "exited"

--------------------------------------------------------------------------------
(* The inductive invariant.                                                *)

\* A line that has been read to its end is answered before the next one is
\* begun, and what is read of the next leaves room for a NUL.
Ledger ==
  /\ pc = "run" => lines = replies + 1
  /\ pc \notin {"run", "leaving", "exited"} => lines = replies
  /\ pc \in {"read", "blocked"} => got + 1 < LineMax

\* A child belongs to the backend that is selected, which is the one that leaving
\* shuts down.
ChildIsSelected ==
  /\ booted = 0 => qemu = "none"
  /\ qemu = "live" => selected = "qemu"
  /\ NoChildOutlives

\* The refs are those that were shown last, if any were.
RefsKept ==
  /\ booted = 0 => shown = <<>>
  /\ shown # <<>> => refs = shown
  /\ RefsAsShown

SessionInv == TypeOK /\ Ledger /\ ChildIsSelected /\ RefsKept

================================================================================
