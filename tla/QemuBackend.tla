------------------------------ MODULE QemuBackend ------------------------------
(***************************************************************************)
(* QemuBackend (backends/qemu/qemu_backend.cpp) over QemuProcess: booting  *)
(* a target in a QEMU child, what the other SimBackend calls need of it,   *)
(* and shutdown.  The caller is one thread that makes any sequence of      *)
(* SimBackend calls, as the CLI, the run session and the tests do.         *)
(*                                                                         *)
(* The n-th boot, its scratch directory, its child and the child's host    *)
(* port all have the number n.                                             *)
(***************************************************************************)
EXTENDS QemuProcess

CONSTANTS MaxBoots,  \* most boots that get as far as a scratch directory
          Targets    \* records [agent : {0, 1}, http : {0, 1}]

ASSUME BackendConstants ==
  /\ MaxBoots \in Nat
  /\ Children = 1 .. MaxBoots
  /\ Targets \subseteq [agent : {0, 1}, http : {0, 1}]

None == [agent |-> 0, http |-> 0, none |-> 1]   \* no target

VARIABLES
  step,          \* how far the SimBackend call in progress is
  boot,          \* boots so far
  target,        \* the target of the boot in progress or last attempted
  bootResult,    \* what the last boot() returned: "none", "ok" or "failed"
  socketDir,     \* socket_dir_, 0 when empty
  dirs,          \* scratch directories on disk
  agentCapable,  \* agent_capable_
  httpPort,      \* http_port_
  agentFd,       \* the child whose agent socket the AgentLink holds open
  active         \* sim_active_target(), None before the first boot

backend == <<step, boot, target, bootResult, socketDir, dirs, agentCapable,
             httpPort, agentFd, active>>
vars == <<process, interrupted, backend>>

TypeOK ==
  /\ ProcessTypeOK
  /\ step \in {"idle", "clearing", "starting", "querying", "settling",
               "unwinding", "stopping"}
  /\ boot \in 0 .. MaxBoots
  /\ target \in Targets \cup {None}
  /\ bootResult \in {"none", "ok", "failed"}
  /\ socketDir \in 0 .. MaxBoots
  /\ dirs \subseteq 1 .. MaxBoots
  /\ agentCapable \in {0, 1}
  /\ httpPort \in 0 .. MaxBoots
  /\ agentFd \in {NoChild, socketDir}
  /\ active \in Targets \cup {None}

Init ==
  /\ ProcessInit
  /\ step = "idle"
  /\ boot = 0
  /\ target = None
  /\ bootResult = "none"
  /\ socketDir = 0
  /\ dirs = {}
  /\ agentCapable = 0
  /\ httpPort = 0
  /\ agentFd = NoChild
  /\ active = None

--------------------------------------------------------------------------------
(* shutdown() and cleanup_dir()                                            *)

\* shutdown up to process_.stop(); what is left of it is cleanup_dir.  The
\* first conjunct is AgentLink::close, the last QemuProcess::stop.
BeginShutdown ==
  /\ agentFd' = NoChild
  /\ agentCapable' = 0
  /\ httpPort' = 0
  /\ Stop

\* cleanup_dir: the socket and dump files go, then the directory.
CleanupDir ==
  /\ dirs' = dirs \ {socketDir}
  /\ socketDir' = 0

\* A faulty Shutdown: the AgentLink keeps its socket.
ShutdownKeepingAgent ==
  /\ step = "idle" /\ pc = "idle"
  /\ agentCapable' = 0
  /\ httpPort' = 0
  /\ Stop
  /\ step' = "stopping"
  /\ UNCHANGED <<pid, clock, started, child, signal, interrupted>>
  /\ UNCHANGED <<boot, target, bootResult, socketDir, dirs, agentFd, active>>

Shutdown ==
  /\ step = "idle" /\ pc = "idle"
  /\ BeginShutdown
  /\ step' = "stopping"
  /\ UNCHANGED <<pid, clock, started, child, signal, interrupted>>
  /\ UNCHANGED <<boot, target, bootResult, socketDir, dirs, active>>

\* stop() has returned.
ShutdownEnds ==
  /\ step = "stopping" /\ pc = "idle"
  /\ CleanupDir
  /\ step' = "idle"
  /\ UNCHANGED <<process, interrupted>>
  /\ UNCHANGED <<boot, target, bootResult, agentCapable, httpPort, agentFd, active>>

--------------------------------------------------------------------------------
(* boot()                                                                  *)

BootFails == step' = "idle" /\ bootResult' = "failed"

\* A faulty Boot: a child that still runs is not stopped.
BootOverRunning(t) ==
  /\ step = "idle" /\ pc = "idle"
  /\ boot < MaxBoots
  /\ agentFd' = NoChild
  /\ agentCapable' = 0
  /\ httpPort' = 0
  /\ step' = "clearing"
  /\ target' = t
  /\ bootResult' = "none"
  /\ UNCHANGED <<process, interrupted>>
  /\ UNCHANGED <<boot, socketDir, dirs, active>>

\* boot first shuts the previous boot down.
Boot(t) ==
  /\ step = "idle" /\ pc = "idle"
  /\ boot < MaxBoots
  /\ BeginShutdown
  /\ step' = "clearing"
  /\ target' = t
  /\ bootResult' = "none"
  /\ UNCHANGED <<pid, clock, started, child, signal, interrupted>>
  /\ UNCHANGED <<boot, socketDir, dirs, active>>

\* No machine spec, no QEMU binary, no flash image, or no scratch directory.
Unresolved ==
  /\ step = "clearing" /\ pc = "idle"
  /\ CleanupDir
  /\ BootFails
  /\ UNCHANGED <<process, interrupted>>
  /\ UNCHANGED <<boot, target, agentCapable, httpPort, agentFd, active>>

\* The scratch directory exists, but there is no port for the http forward:
\* cleanup_dir has removed the directory again.
NoPort ==
  /\ step = "clearing" /\ pc = "idle"
  /\ target.http = 1
  /\ CleanupDir
  /\ agentCapable' = target.agent
  /\ boot' = boot + 1
  /\ BootFails
  /\ UNCHANGED <<process, interrupted, target, httpPort, agentFd, active>>

\* Everything the child needs is there, and process_.start() begins.
Prepared ==
  /\ step = "clearing" /\ pc = "idle"
  /\ boot' = boot + 1
  /\ socketDir' = boot'
  /\ dirs' = (dirs \ {socketDir}) \cup {boot'}
  /\ agentCapable' = target.agent
  /\ httpPort' = IF target.http = 1 THEN boot' ELSE 0
  /\ Start(boot')
  /\ step' = "starting"
  /\ UNCHANGED <<interrupted, target, bootResult, agentFd, active>>

\* start() returned false: the child, if there was one, is stopped.
NotStarted ==
  /\ step = "starting" /\ pc = "idle"
  /\ started = "failed"
  /\ CleanupDir
  /\ BootFails
  /\ UNCHANGED <<process, interrupted>>
  /\ UNCHANGED <<boot, target, agentCapable, httpPort, agentFd, active>>

\* A signal came between the spawn and here.
StartInterrupted ==
  /\ step = "starting" /\ pc = "idle"
  /\ started = "ok"
  /\ interrupted = 1
  /\ Stop
  /\ step' = "unwinding"
  /\ UNCHANGED <<pid, clock, started, child, signal, interrupted>>
  /\ UNCHANGED <<boot, target, bootResult, socketDir, dirs, agentCapable,
                 httpPort, agentFd, active>>

Query ==
  /\ step = "starting" /\ pc = "idle"
  /\ started = "ok"
  /\ interrupted = 0
  /\ step' = "querying"
  /\ UNCHANGED <<process, interrupted>>
  /\ UNCHANGED <<boot, target, bootResult, socketDir, dirs, agentCapable,
                 httpPort, agentFd, active>>

\* A faulty NotRunning: the boot fails and the child is left alone.
NotRunningUnstopped ==
  /\ step = "querying" /\ pc = "idle"
  /\ CleanupDir
  /\ BootFails
  /\ UNCHANGED <<process, interrupted>>
  /\ UNCHANGED <<boot, target, agentCapable, httpPort, agentFd, active>>

\* query-status fails, cannot be parsed or does not say "running".  The
\* session, closed after a transport error, is open in the other cases.
NotRunning ==
  /\ step = "querying" /\ pc = "idle"
  /\ Stop
  /\ step' = "unwinding"
  /\ UNCHANGED <<pid, clock, started, child, signal, interrupted>>
  /\ UNCHANGED <<boot, target, bootResult, socketDir, dirs, agentCapable,
                 httpPort, agentFd, active>>

\* The child of a failing boot is stopped; its directory goes.
Unwound ==
  /\ step = "unwinding" /\ pc = "idle"
  /\ CleanupDir
  /\ BootFails
  /\ UNCHANGED <<process, interrupted>>
  /\ UNCHANGED <<boot, target, agentCapable, httpPort, agentFd, active>>

QuerySays ==
  /\ step = "querying" /\ pc = "idle"
  /\ qmp = "open"
  /\ step' = "settling"
  /\ UNCHANGED <<process, interrupted>>
  /\ UNCHANGED <<boot, target, bootResult, socketDir, dirs, agentCapable,
                 httpPort, agentFd, active>>

\* settle_ms sees the signal before its deadline.
SettleInterrupted ==
  /\ step = "settling" /\ pc = "idle"
  /\ interrupted = 1
  /\ BeginShutdown
  /\ step' = "unwinding"
  /\ UNCHANGED <<pid, clock, started, child, signal, interrupted>>
  /\ UNCHANGED <<boot, target, bootResult, socketDir, dirs, active>>

\* A faulty Booted: the booted target is not recorded.
BootedUnrecorded ==
  /\ step = "settling" /\ pc = "idle"
  /\ bootResult' = "ok"
  /\ step' = "idle"
  /\ UNCHANGED <<process, interrupted>>
  /\ UNCHANGED <<boot, target, socketDir, dirs, agentCapable, httpPort, agentFd, active>>

\* The warmup is over, whatever the child has done with it.
Booted ==
  /\ step = "settling" /\ pc = "idle"
  /\ active' = target
  /\ bootResult' = "ok"
  /\ step' = "idle"
  /\ UNCHANGED <<process, interrupted>>
  /\ UNCHANGED <<boot, target, socketDir, dirs, agentCapable, httpPort, agentFd>>

--------------------------------------------------------------------------------
(* Calls on a booted target.                                               *)

\* ensure_agent's connection, when it comes to stay (AgentLink).
ConnectAgent ==
  /\ step = "idle" /\ pc = "idle"
  /\ agentCapable = 1
  /\ pid # NoChild /\ child[pid] = "live"
  /\ agentFd = NoChild
  /\ agentFd' = socketDir
  /\ UNCHANGED <<process, interrupted>>
  /\ UNCHANGED <<step, boot, target, bootResult, socketDir, dirs, agentCapable,
                 httpPort, active>>

\* The calls that change only the process: running(), pump(), execute().  boot
\* itself pumps while it settles and executes while it queries.
Operate ==
  /\ \/ step = "idle" /\ (Poll \/ PumpToEnd \/ DropQmp)
     \/ step = "querying" /\ DropQmp
     \/ step = "settling" /\ PumpToEnd
  /\ UNCHANGED backend

Shutting == Shutdown \/ ShutdownEnds

Booting ==
  \/ Unresolved \/ NoPort \/ Prepared \/ NotStarted \/ StartInterrupted
  \/ Query \/ NotRunning \/ QuerySays \/ SettleInterrupted \/ Booted \/ Unwound

Environment ==
  /\ Expire \/ Interrupt \/ \E c \in Children : Die(c)
  /\ UNCHANGED backend

Inside == CallSteps /\ UNCHANGED backend

Next ==
  \/ \E t \in Targets : Boot(t)
  \/ Booting \/ Shutting \/ ConnectAgent \/ Operate \/ Inside \/ Environment

Spec == Init /\ [][Next]_vars

\* The one thread of the program goes on with the call it is in; the deadlines
\* of start() and stop() pass; SIGKILL kills.  That QuitEnds and the query end
\* is EveryCallReturns of QmpLink.
Fairness ==
  /\ WF_vars(Booting)
  /\ WF_vars(ShutdownEnds)
  /\ WF_vars(Inside)
  /\ WF_vars(Expire /\ UNCHANGED backend)
  /\ \A c \in Children : WF_vars(Killed(c) /\ UNCHANGED backend)

FairSpec == Spec /\ Fairness

--------------------------------------------------------------------------------
(* Properties.                                                             *)

\* A boot that fails, at whatever point and for whatever reason, and a
\* shutdown leave nothing behind: no child, no pipe, no session, no directory.
AtRest ==
  /\ Unreaped = {}
  /\ ends = {}
  /\ qmp = "closed"
  /\ dirs = {}
  /\ agentFd = NoChild

FailedBootLeavesNothing ==
  step = "idle" /\ bootResult = "failed" => AtRest

\* QEMU creates its sockets in the scratch directory, and writes screen dumps
\* there, whenever it pleases: the directory outlives the child, and it is the
\* only one there is.
DirOutlivesChild ==
  /\ \A c \in Children : child[c] = "live" => c \in dirs
  /\ dirs = {socketDir} \ {0}

\* An injection reaches the child that runs now, never the socket of a child
\* of an earlier boot.
AgentIsOfThisChild ==
  agentFd # NoChild => agentFd = boot /\ agentCapable = 1

\* What a caller sees between calls agrees: while a child runs, the active
\* target is the one it was booted with, and the port handed out by http_port
\* is forwarded by this child.
ActiveTargetRuns ==
  step = "idle" /\ pid # NoChild =>
    /\ bootResult = "ok"
    /\ active = target
    /\ agentCapable = target.agent
    /\ httpPort = IF target.http = 1 THEN pid ELSE 0

\* boot() and shutdown() return, even with a child that ignores all but
\* SIGKILL.
EveryCallReturns == step # "idle" ~> step = "idle"

\* Why they hold.  A call that waits has a child to wait for, and a call that
\* has stopped its child has nothing left of it.
Settled == /\ pid = NoChild /\ inFd = NoChild /\ outFd = NoChild
           /\ qmp = "closed"

Stopping == pc \notin {"idle", "connecting"}

Phases ==
  /\ pc # "idle" => pid # NoChild
  /\ step \in {"idle", "querying", "settling"} => pc = "idle"
  /\ pc = "connecting" => step = "starting" /\ started = "none"
  /\ step = "starting" /\ pc = "idle" => started \in {"ok", "failed"}
  /\ step = "starting" /\ Stopping => started = "failed"
  /\ pc \notin {"idle", "quitting"} => qmp = "closed"

Cleared ==
  /\ step \in {"clearing", "unwinding", "stopping"} /\ pc = "idle" => Settled
  /\ step = "starting" /\ pc = "idle" /\ started = "failed" => Settled
  /\ bootResult = "failed" => step \in {"idle", "stopping"}
  /\ step = "idle" /\ bootResult = "failed" => Settled /\ socketDir = 0

Numbered ==
  /\ pid # NoChild => pid = socketDir
  /\ socketDir # 0 => socketDir = boot
  /\ step = "clearing" => boot < MaxBoots
  /\ dirs = {socketDir} \ {0}
  /\ step # "idle" => agentFd = NoChild
  /\ agentFd # NoChild => agentCapable = 1

Forwards ==
  /\ agentCapable = target.agent
  /\ httpPort = IF target.http = 1 THEN socketDir ELSE 0

Current ==
  /\ step \in {"starting", "querying", "settling"} => Forwards
  /\ step = "idle" /\ pid # NoChild =>
       Forwards /\ bootResult = "ok" /\ active = target

IInv == TypeOK /\ NothingLeaks /\ Phases /\ Cleared /\ Numbered /\ Current

================================================================================
