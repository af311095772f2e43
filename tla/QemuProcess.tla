------------------------------ MODULE QemuProcess ------------------------------
(***************************************************************************)
(* QemuProcess (backends/qemu/qemu_process.cpp): one QEMU child at a time, *)
(* spawned, connected to over QMP, and stopped by escalation: QMP "quit",  *)
(* SIGTERM, SIGKILL, and a waitpid that always ends with the child reaped. *)
(*                                                                         *)
(* This module is the state and the operations; QemuBackend is the caller. *)
(* Children are numbered: a number stands for the child, its pid and the   *)
(* pipes it was spawned with.  QmpLink is the detail of "qmp" and of what  *)
(* ends an execute().  The text of the serial capture is left out.         *)
(***************************************************************************)
EXTENDS Naturals

CONSTANT Children  \* 1 .. the most children spawned

NoChild == 0   \* pid, in_fd and out_fd are -1

VARIABLES
  pc,           \* the call being served, "idle" when there is none
  pid,          \* QemuProcess::pid
  inFd, outFd,  \* the child whose pipe in_fd and out_fd are
  ends,         \* every pipe end this process holds open
  qmp,          \* "closed" or "open"
  clock,        \* the deadline of the wait in progress
  started,      \* what the last start() returned: "none", "ok" or "failed"
  child,        \* per child: "unborn", "live", "zombie" or "reaped"
  signal,       \* per child, the last signal sent to it
  interrupted   \* g_interrupted, set by the SIGINT and SIGTERM handlers

fds == <<inFd, outFd, ends>>
process == <<pc, pid, fds, qmp, clock, started, child, signal>>

ProcessTypeOK ==
  /\ pc \in {"idle", "connecting", "quitting", "check", "term", "terminating",
             "kill", "killing", "reaping"}
  /\ {pid, inFd, outFd} \subseteq Children \cup {NoChild}
  /\ ends \subseteq {"in", "out"} \X Children
  /\ qmp \in {"closed", "open"}
  /\ clock \in {"running", "expired"}
  /\ started \in {"none", "ok", "failed"}
  /\ child \in [Children -> {"unborn", "live", "zombie", "reaped"}]
  /\ signal \in [Children -> {"none", "TERM", "KILL"}]
  /\ interrupted \in {0, 1}

ProcessInit ==
  /\ pc = "idle"
  /\ pid = NoChild
  /\ inFd = NoChild
  /\ outFd = NoChild
  /\ ends = {}
  /\ qmp = "closed"
  /\ clock = "running"
  /\ started = "none"
  /\ child = [c \in Children |-> "unborn"]
  /\ signal = [c \in Children |-> "none"]
  /\ interrupted = 0

--------------------------------------------------------------------------------
\* The end of stop(): both pipe ends are closed.
CloseFds ==
  /\ ends' = ends \ {<<"in", inFd>>, <<"out", outFd>>}
  /\ inFd' = NoChild
  /\ outFd' = NoChild

\* stop(): a connected monitor is asked to quit before anything else.
Stop ==
  IF pid = NoChild
  THEN pc' = "idle" /\ qmp' = "closed" /\ CloseFds
  ELSE /\ pc' = IF qmp = "open" THEN "quitting" ELSE "check"
       /\ UNCHANGED <<qmp, fds>>

\* execute("quit") ends one way or another; then the session is closed.
QuitEnds ==
  /\ pc = "quitting"
  /\ pc' = "check"
  /\ qmp' = "closed"
  /\ UNCHANGED <<pid, fds, clock, started, child, signal, interrupted>>

Exited == pid # NoChild /\ child[pid] = "zombie"

\* running() finds the child gone: waitpid reaps it and the pid is forgotten.
Reap ==
  /\ child' = [child EXCEPT ![pid] = "reaped"]
  /\ pid' = NoChild

\* A faulty WaitEnds: whether the wait saw the child exit is not looked at.
WaitEndsUnchecked ==
  /\ pc \in {"check", "terminating", "killing", "reaping"}
  /\ Exited
  /\ Reap
  /\ IF pc = "terminating"
     THEN pc' = "kill" /\ UNCHANGED fds
     ELSE pc' = "idle" /\ CloseFds
  /\ UNCHANGED <<qmp, clock, started, signal, interrupted>>

\* stop() sees that the child has exited: in its first check, in either wait,
\* or in the blocking waitpid at the end.
WaitEnds ==
  /\ pc \in {"check", "terminating", "killing", "reaping"}
  /\ Exited
  /\ Reap
  /\ pc' = "idle"
  /\ CloseFds
  /\ UNCHANGED <<qmp, clock, started, signal, interrupted>>

\* The child still runs after "quit"; it may exit before the signal is sent.
StillRunning ==
  /\ pc = "check"
  /\ child[pid] = "live"
  /\ pc' = "term"
  /\ UNCHANGED <<pid, fds, qmp, clock, started, child, signal, interrupted>>

Terminate ==
  /\ pc = "term"
  /\ signal' = [signal EXCEPT ![pid] = "TERM"]
  /\ pc' = "terminating"
  /\ clock' = "running"
  /\ UNCHANGED <<pid, fds, qmp, started, child, interrupted>>

\* wait_for_exit runs out of time.  The child may have exited since its last
\* running(), but then it has not been reaped.
WaitTimesOut ==
  /\ pc \in {"terminating", "killing"}
  /\ clock = "expired"
  /\ pc' = IF pc = "terminating" THEN "kill" ELSE "reaping"
  /\ UNCHANGED <<pid, fds, qmp, clock, started, child, signal, interrupted>>

\* A faulty Kill: the escalation repeats the signal the child ignores.
KillPolitely ==
  /\ pc = "kill"
  /\ signal' = [signal EXCEPT ![pid] = "TERM"]
  /\ pc' = "killing"
  /\ clock' = "running"
  /\ UNCHANGED <<pid, fds, qmp, started, child, interrupted>>

Kill ==
  /\ pc = "kill"
  /\ signal' = [signal EXCEPT ![pid] = "KILL"]
  /\ pc' = "killing"
  /\ clock' = "running"
  /\ UNCHANGED <<pid, fds, qmp, started, child, interrupted>>

--------------------------------------------------------------------------------
(* start(): spawn_only, then QMP connection attempts until one succeeds.   *)

\* posix_spawn succeeds: the parent keeps its end of both pipes.
Spawn(c) ==
  /\ child[c] = "unborn"
  /\ child' = [child EXCEPT ![c] = "live"]
  /\ pid' = c
  /\ inFd' = c
  /\ outFd' = c
  /\ ends' = ends \cup {<<"in", c>>, <<"out", c>>}

\* spawn_only fails: no pipe, a pipe end that cannot be moved off the standard
\* streams, no file actions, no such binary.  Each path closes what it opened.
StartFails ==
  /\ started' = "failed"
  /\ UNCHANGED <<pc, pid, fds, qmp, clock, child, signal>>

\* The child runs, but its pipes cannot be made non-blocking: stop().
StartUnusable(c) ==
  /\ Spawn(c)
  /\ started' = "failed"
  /\ pc' = "check"
  /\ UNCHANGED <<qmp, clock, signal>>

StartSpawned(c) ==
  /\ Spawn(c)
  /\ started' = "none"
  /\ pc' = "connecting"
  /\ clock' = "running"
  /\ UNCHANGED <<qmp, signal>>

Start(c) == StartFails \/ StartUnusable(c) \/ StartSpawned(c)

\* connect_unix succeeds; the child may be gone again by the time it returns.
Connected ==
  /\ pc = "connecting"
  /\ child[pid] = "live"
  /\ qmp' = "open"
  /\ started' = "ok"
  /\ pc' = "idle"
  /\ UNCHANGED <<pid, fds, clock, child, signal, interrupted>>

\* The attempt failed and so did running(): stop() has only fds to close.
ExitedEarly ==
  /\ pc = "connecting"
  /\ Exited
  /\ Reap
  /\ started' = "failed"
  /\ pc' = "idle"
  /\ CloseFds
  /\ UNCHANGED <<qmp, clock, signal, interrupted>>

\* A faulty ConnectAbandoned: start() gives up without stop().
AbandonedUnstopped ==
  /\ pc = "connecting"
  /\ interrupted = 1 \/ clock = "expired"
  /\ started' = "failed"
  /\ pc' = "idle"
  /\ UNCHANGED <<pid, fds, qmp, clock, child, signal, interrupted>>

\* The attempt failed, and a signal came or the connection window closed.
ConnectAbandoned ==
  /\ pc = "connecting"
  /\ interrupted = 1 \/ clock = "expired"
  /\ started' = "failed"
  /\ Stop
  /\ UNCHANGED <<pid, clock, child, signal, interrupted>>

--------------------------------------------------------------------------------
(* The operations of a running child that change what this module keeps.   *)

\* running(), as http_port, agent_available and every injection call it.
Poll ==
  /\ pc = "idle"
  /\ Exited
  /\ Reap
  /\ UNCHANGED <<pc, fds, qmp, clock, started, signal, interrupted>>

\* pump() reads the end of the child's output.
PumpToEnd ==
  /\ pc = "idle"
  /\ outFd # NoChild
  /\ child[outFd] \in {"zombie", "reaped"}
  /\ ends' = ends \ {<<"out", outFd>>}
  /\ outFd' = NoChild
  /\ UNCHANGED <<pc, pid, inFd, qmp, clock, started, child, signal, interrupted>>

\* An execute() that ends in a transport error drops the session (QmpLink).
DropQmp ==
  /\ pc = "idle"
  /\ qmp = "open"
  /\ qmp' = "closed"
  /\ UNCHANGED <<pc, pid, fds, clock, started, child, signal, interrupted>>

--------------------------------------------------------------------------------
(* The child and the kernel.                                               *)

\* A child can exit at any time.  Whatever it makes of "quit" and SIGTERM, it
\* does not survive SIGKILL.
Die(c) ==
  /\ child[c] = "live"
  /\ child' = [child EXCEPT ![c] = "zombie"]
  /\ UNCHANGED <<pc, pid, fds, qmp, clock, started, signal, interrupted>>

Killed(c) == signal[c] = "KILL" /\ Die(c)

Expire ==
  /\ pc \in {"connecting", "terminating", "killing"}
  /\ clock = "running"
  /\ clock' = "expired"
  /\ UNCHANGED <<pc, pid, fds, qmp, started, child, signal, interrupted>>

\* SIGINT or SIGTERM is delivered to esprite.
Interrupt ==
  /\ interrupted = 0
  /\ interrupted' = 1
  /\ UNCHANGED process

StopSteps ==
  QuitEnds \/ WaitEnds \/ StillRunning \/ Terminate \/ WaitTimesOut \/ Kill

\* The steps of a call that has begun.
CallSteps == StopSteps \/ Connected \/ ExitedEarly \/ ConnectAbandoned

--------------------------------------------------------------------------------
(* Properties of the process on its own.                                   *)

Unreaped == {c \in Children : child[c] \in {"live", "zombie"}}

\* Nothing is lost track of: a child that is not reaped is the one pid names,
\* and the only pipe ends open are the ones stop() will close.
NothingLeaks ==
  /\ Unreaped = {pid} \ {NoChild}
  /\ ends = {e \in {<<"in", inFd>>, <<"out", outFd>>} : e[2] # NoChild}

\* stop() is about to signal: its target is a child that has not been reaped,
\* never a number the kernel may have given to another process, and never -1,
\* which is every process.
SignalsOwnChild ==
  pc \in {"term", "kill"} => pid \in Unreaped

================================================================================
