------------------------------ MODULE CommandLine ------------------------------
(***************************************************************************)
(* One invocation of esprite (esprite_main, cli/cli.cpp): a one-shot       *)
(* command, which boots its target, does one thing and exits; serve, which *)
(* pumps the target until it is interrupted or its window is closed; a     *)
(* scenario file, whose steps all run (scenario_run, cli/scenario.cpp);    *)
(* or run, the session of DaemonSession.  A SIGINT or SIGTERM can come at  *)
(* any time, and BackendShutdownGuard unwinds whatever was booted.         *)
(*                                                                         *)
(* A command is the class of those that need the same of a target.         *)
(***************************************************************************)
EXTENDS DaemonSession

CONSTANTS Targets,  \* the targets that can be named: [backend, can]
          MaxSteps  \* most steps of a scenario

ASSUME CommandLineConstants ==
  /\ \A t \in Targets :
       t.backend \in {"native", "qemu"} /\ t.can \subseteq {"display", "agent", "http"}
  /\ MaxSteps \in Nat

NoTarget == [backend |-> "native", can |-> {}, missing |-> TRUE]

\* What a target on QEMU must declare for a command (qemu_command_allowed);
\* "native" stands for what none can: a widget tree, sensors, BLE.
Needs == [serial |-> {}, screenshot |-> {"display"}, inject |-> {"agent"},
          snapshot |-> {"http"}, native |-> {"native"}]

OneShots == DOMAIN Needs

\* How a one-shot command can end once its target is up, and how only on QEMU.
Outcomes ==
  [serial |-> {"ok", "no_match", "bad_args", "backend_unavailable"},
   screenshot |-> {"ok", "unsupported", "capture_failed"},
   inject |-> {"ok", "bad_args", "conflict", "ref_not_found", "unsupported", "agent_failed"},
   snapshot |-> {"ok", "bad_args", "post_failed"},
   native |-> {"ok", "bad_args", "unsupported", "post_failed"}]

OnlyOnQemu ==
  [cmd \in OneShots |->
     {"backend_unavailable", "agent_failed"}
       \cup (IF cmd = "screenshot" THEN {"unsupported"} ELSE {})]

\* How a step of a scenario can fail.
Failures ==
  {"bad_args", "unsupported", "post_failed", "capture_failed", "expect_failed", "agent_failed"}

Exit ==
  [ok |-> 0, no_match |-> 1, bad_args |-> 2, no_target |-> 2, unknown_target |-> 2,
   backend_unavailable |-> 2, bind_failed |-> 3, ref_not_found |-> 4, conflict |-> 5,
   post_failed |-> 6, unsupported |-> 7, expect_failed |-> 8, capture_failed |-> 9,
   agent_failed |-> 10]

Running == 99  \* no exit code yet

VARIABLES
  command, target,
  wants,    \* options of serve: "shot", "window", "ble" (--ble-port)
  steps,    \* steps of the scenario file
  at,       \* where esprite_main is
  done,     \* how the steps so far have ended
  first,    \* first_kind: of the first step that failed
  copy,     \* the pixel a scenario looks at, in the framebuffer that was captured
  late,     \* the deadline of the pixel step has passed
  code      \* the exit code

\* Outside the framebuffer, not as expected, or as expected
Captured == {"outside", "other", "wanted"}

invocation == <<command, target, wants, steps>>
scenario == <<done, first, copy, late>>
cmdVars == <<vars, invocation, at, scenario, code>>

ProgressOK ==
  /\ at \in {"main", "act", "steps", "pixel", "loop", "stalled", "session", "leaving", "exited"}
  /\ done \in Seq(Failures \cup {"ok"}) /\ Len(done) <= steps
  /\ first \in Failures \cup {"ok"}
  /\ copy \in {"none"} \cup Captured
  /\ late \in {0, 1}
  /\ code \in {Exit[kind] : kind \in DOMAIN Exit} \cup {Running}

CommandOK ==
  /\ TypeOK
  /\ command \in OneShots \cup {"run", "serve", "scenario", "unknown"}
  /\ target \in Targets \cup {NoTarget}
  /\ wants \subseteq {"shot", "window", "ble"}
  /\ steps \in 0 .. MaxSteps
  /\ ProgressOK

\* The targets of a session are those its boot commands name.
CmdInit ==
  /\ Init
  /\ \/ command = "run" /\ target = NoTarget /\ wants = {} /\ steps = 0
     \/ command = "serve" /\ target \in Targets \cup {NoTarget} /\ steps = 0
        /\ wants \in SUBSET {"shot", "window", "ble"}
     \/ command = "scenario" /\ target \in Targets \cup {NoTarget} /\ wants = {}
        /\ steps \in 0 .. MaxSteps
     \/ command \in OneShots \cup {"unknown"} /\ target \in Targets \cup {NoTarget}
        /\ wants = {} /\ steps = 0
  /\ at = "main"
  /\ done = <<>>
  /\ first = "ok"
  /\ copy = "none"
  /\ late = 0
  /\ code = Running

--------------------------------------------------------------------------------
(* Before anything is booted.                                              *)

Ends(kind) == at' = "leaving" /\ code' = Exit[kind]

OnQemu == target # NoTarget /\ target.backend = "qemu"

\* What a command can never do on its target, whatever the firmware does.
Unsupported ==
  /\ OnQemu
  /\ \/ command \in OneShots /\ ~(Needs[command] \subseteq target.can)
     \/ command = "serve"
        /\ \/ wants \cap {"shot", "window"} # {} /\ "display" \notin target.can
           \/ "ble" \in wants

\* An unknown option or command, a scenario that cannot be read, no target or
\* an unknown one, or one that cannot do it.
Refuse ==
  /\ at = "main"
  /\ \/ Ends("bad_args")
     \/ target = NoTarget /\ command \notin {"run", "unknown"} /\ Ends("unknown_target")
     \/ target = NoTarget /\ command \in OneShots \cup {"serve"} /\ Ends("no_target")
     \/ Unsupported /\ Ends("unsupported")
  /\ UNCHANGED <<vars, invocation, scenario>>

\* The target boots.  serve and the scenario go on from there, serve only if
\* the firmware's web server has its port and the bridge what it needs.
BootInto(next) ==
  /\ at = "main"
  /\ target # NoTarget
  /\ BootBackend(target.backend)
  /\ IF booted' = 0 THEN Ends("backend_unavailable") ELSE next
  /\ OnQemu /\ interrupted = 1 => booted' = 0  \* settle_ms sees it at the latest
  /\ UNCHANGED <<pc, input, got, signals, shown, tapped, counts, invocation, scenario>>

\* A faulty BootTarget: the command is looked at only once the target is up.
BootTargetFirst ==
  /\ command \in OneShots
  /\ BootInto(at' = "act" /\ UNCHANGED code)

BootTarget ==
  /\ command \in OneShots
  /\ ~Unsupported
  /\ BootInto(at' = "act" /\ UNCHANGED code)

StartScenario ==
  /\ command = "scenario"
  /\ BootInto(at' = "steps" /\ UNCHANGED code)

StartServing ==
  /\ command = "serve"
  /\ ~Unsupported
  /\ BootInto(\/ at' = "loop" /\ UNCHANGED code
              \/ ~OnQemu /\ Ends("bind_failed")
              \/ "ble" \in wants /\ Ends("unsupported"))

StartSession ==
  /\ at = "main"
  /\ command = "run"
  /\ at' = "session"
  /\ UNCHANGED <<vars, invocation, scenario, code>>

--------------------------------------------------------------------------------
(* What the invocation is for.                                             *)

Act ==
  /\ at = "act"
  /\ \E kind \in Outcomes[command] : (OnQemu \/ kind \notin OnlyOnQemu[command]) /\ Ends(kind)
  /\ IF OnQemu THEN UNCHANGED tree ELSE FirmwareRuns
  /\ UNCHANGED <<pc, input, got, signals, session, refs, shown, tapped, counts,
                 invocation, scenario>>

\* A tick of serve sends to the client of its bridge, and stays in its send loop
\* for as long as that client reads nothing (BleBridge).
Stall ==
  /\ "ble" \in wants
  /\ \/ at = "loop" /\ at' = "stalled"
     \/ at = "stalled" /\ at' = "loop"
  /\ UNCHANGED <<vars, invocation, scenario, code>>

\* The loop pumps the target until the flag is set, or the window is closed.
StopServing ==
  /\ at = "loop"
  /\ interrupted = 1 \/ "window" \in wants
  /\ Ends("ok")
  /\ UNCHANGED <<vars, invocation, scenario>>

\* A faulty StepEnds: the last failure is told.
StepEndsLast(kind) ==
  /\ done' = Append(done, kind)
  /\ first' = IF kind # "ok" THEN kind ELSE first
  /\ at' = "steps"

\* step_failed remembers the first failure; the next step runs all the same.
StepEnds(kind) ==
  /\ done' = Append(done, kind)
  /\ first' = IF first = "ok" THEN kind ELSE first
  /\ at' = "steps"

\* Any step but a pixel step.  A screenshot on QEMU captures.
Step ==
  /\ at = "steps"
  /\ Len(done) < steps
  /\ \/ copy' = copy
     \/ OnQemu /\ copy' \in Captured
  /\ \E kind \in Failures \cup {"ok"} :
       /\ kind \in {"agent_failed", "capture_failed"} => OnQemu
       /\ StepEnds(kind)
  /\ IF OnQemu THEN UNCHANGED tree ELSE FirmwareRuns
  /\ UNCHANGED <<pc, input, got, signals, session, refs, shown, tapped, counts,
                 invocation, late, code>>

\* The step names a pixel of its own.
StartPixel ==
  /\ at = "steps"
  /\ Len(done) < steps
  /\ at' = "pixel"
  /\ late' = 0
  /\ copy' \in (IF copy = "none" THEN {copy} ELSE Captured)
  /\ UNCHANGED <<vars, invocation, done, first, code>>

\* One look of a pixel step: at a new capture, or at the old one if the capture
\* failed.  The wanted value ends the step; anything else does at the deadline,
\* also a pixel outside the framebuffer, which is empty before the first capture.
Look ==
  /\ at = "pixel"
  /\ \/ copy' \in Captured
     \/ OnQemu /\ copy' = copy
  /\ CASE copy' = "wanted" -> StepEnds("ok")
       [] copy' = "other" /\ late = 1 -> StepEnds("expect_failed")
       [] copy' \in {"none", "outside"} /\ late = 1 -> StepEnds("bad_args")
       [] OTHER -> UNCHANGED <<at, done, first>>
  /\ UNCHANGED <<vars, invocation, late, code>>

\* Time passes.
Deadline ==
  /\ at = "pixel"
  /\ late = 0
  /\ late' = 1
  /\ UNCHANGED <<vars, invocation, at, done, first, copy, code>>

EndScenario ==
  /\ at = "steps"
  /\ Len(done) = steps
  /\ Ends(first)
  /\ UNCHANGED <<vars, invocation, scenario>>

InSession ==
  /\ at = "session"
  /\ Daemon
  /\ UNCHANGED <<invocation, at, scenario, code>>

EndSession ==
  /\ at = "session"
  /\ pc = "exited"
  /\ Ends("ok")
  /\ UNCHANGED <<vars, invocation, scenario>>

\* BackendShutdownGuard of esprite_main.
LeaveMain ==
  /\ at = "leaving"
  /\ at' = "exited"
  /\ qemu' = IF selected = "qemu" THEN "none" ELSE qemu
  /\ UNCHANGED <<pc, input, got, signals, booted, selected, screen, counts,
                 invocation, scenario, code>>

--------------------------------------------------------------------------------
Process ==
  \/ Refuse \/ BootTarget \/ StartScenario \/ StartServing \/ StartSession
  \/ Act \/ StopServing \/ Step \/ StartPixel \/ Look \/ EndScenario
  \/ InSession \/ EndSession \/ LeaveMain

\* Whoever talks to the process: only a session reads its input.
Outside ==
  /\ \/ at = "session" /\ (Write \/ CloseInput)
     \/ at # "exited" /\ Signal
  /\ UNCHANGED <<invocation, at, scenario, code>>

CmdNext == Process \/ Deadline \/ Stall \/ Outside

CmdSpec == CmdInit /\ [][CmdNext]_cmdVars

\* The process goes on whenever it can, and time passes.
FairCmdSpec == CmdSpec /\ WF_cmdVars(Process) /\ WF_cmdVars(Deadline)

--------------------------------------------------------------------------------
(* Properties.                                                             *)

\* "No QEMU process is ever spawned" for a command its target can never do, and
\* none is left when the process has gone, however it went.
ChildHasAUse ==
  /\ NoChildOutlives
  /\ at = "exited" => qemu = "none"
  /\ Unsupported => qemu = "none"

\* "Run every step; remember the first failure": a scenario that has booted
\* ends with the exit code of its first step that failed, if any did, and no
\* step was skipped for an earlier one or for a signal.
FirstFailureTold ==
  at \in {"leaving", "exited"} /\ command = "scenario" /\ booted = 1 =>
    /\ Len(done) = steps
    /\ \/ code = 0 /\ \A i \in DOMAIN done : done[i] = "ok"
       \/ \E i \in DOMAIN done :
            /\ done[i] # "ok" /\ code = Exit[done[i]]
            /\ \A j \in 1 .. i - 1 : done[j] = "ok"

\* The replies of a session and the result of a scenario are each the right one.
Answers == OneReplyPerLine /\ FirstFailureTold

\* An invocation ends: serve once it is interrupted, unless the client of its
\* bridge stops reading, run with its session, and all others by themselves.
InvocationEnds ==
  \/ command \notin {"run", "serve"}
  \/ command = "serve" /\ interrupted = 1
  \/ pc = "exited"
  ~> at = "exited" \/ at = "stalled"

\* Sessions and invocations end when they should.
EverythingEnds == SessionEnds /\ InvocationEnds

--------------------------------------------------------------------------------
(* The inductive invariant.                                                *)

\* Where esprite_main is, and what has happened on the way there.
Places ==
  /\ at = "main" => booted = 0 /\ done = <<>> /\ first = "ok"
  /\ at \in {"main", "act", "steps", "pixel", "loop", "stalled"} => pc = "start"
  /\ at = "act" => command \in OneShots
  /\ at \in {"steps", "pixel"} => command = "scenario"
  /\ at \in {"loop", "stalled"} => command = "serve"
  /\ at = "session" => command = "run"
  /\ at = "pixel" => Len(done) < steps
  /\ at \in {"leaving", "exited"} /\ command = "scenario" /\ booted = 1 =>
       Len(done) = steps /\ code = Exit[first]

\* first is the first failure among the steps, if one has failed.
FirstKept ==
  \/ first = "ok" /\ \A i \in DOMAIN done : done[i] = "ok"
  \/ first # "ok" /\ \E i \in DOMAIN done :
       done[i] = first /\ \A j \in 1 .. i - 1 : done[j] = "ok"

CmdInv == CommandOK /\ SessionInv /\ Places /\ FirstKept /\ ChildHasAUse

================================================================================
