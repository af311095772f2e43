-------------------------- MODULE QemuBackend_proofs --------------------------
(***************************************************************************)
(* Proofs about QemuBackend and the QemuProcess it drives, for every       *)
(* number of boots and every set of targets.  The inductive invariant IInv *)
(* is a conjunction of six parts that hold each other up, so a step is     *)
(* shown to keep all of them at once.                                      *)
(***************************************************************************)
EXTENDS QemuBackend, TLAPS

USE DEF NoChild

LEMMA InvInit == Init => IInv
  BY BackendConstants DEF Init, ProcessInit, IInv, TypeOK, ProcessTypeOK,
     NothingLeaks, Unreaped, Phases, Stopping, Cleared, Numbered, Current

--------------------------------------------------------------------------------
LEMMA InvStep == IInv /\ [Next]_vars => IInv'
<1> SUFFICES ASSUME IInv, [Next]_vars PROVE IInv'
  OBVIOUS
<1> USE BackendConstants DEF IInv, TypeOK, ProcessTypeOK, None, NothingLeaks, Unreaped, Phases, Stopping,
  Cleared, Settled, Numbered, Current, Forwards
<1>1. CASE \E t \in Targets : Boot(t)
  BY <1>1 DEF Boot, BeginShutdown, Stop, CloseFds, fds
<1>2. CASE Unresolved
  BY <1>2 DEF Unresolved, CleanupDir, BootFails, process, fds
<1>3. CASE NoPort
  BY <1>3 DEF NoPort, CleanupDir, BootFails, process, fds
<1>4. CASE Prepared
  BY <1>4 DEF Prepared, Start, StartFails, StartUnusable, StartSpawned, Spawn, fds
<1>5. CASE NotStarted
  BY <1>5 DEF NotStarted, CleanupDir, BootFails, process, fds
<1>6. CASE StartInterrupted
  BY <1>6 DEF StartInterrupted, Stop, CloseFds, fds
<1>7. CASE Query \/ QuerySays \/ Booted
  BY <1>7 DEF Query, QuerySays, Booted, process, fds
<1>8. CASE NotRunning
  BY <1>8 DEF NotRunning, Stop, CloseFds, fds
<1>9. CASE SettleInterrupted
  BY <1>9 DEF SettleInterrupted, BeginShutdown, Stop, CloseFds, fds
<1>10. CASE Unwound
  BY <1>10 DEF Unwound, CleanupDir, BootFails, process, fds
<1>11. CASE Shutdown
  BY <1>11 DEF Shutdown, BeginShutdown, Stop, CloseFds, fds
<1>12. CASE ShutdownEnds
  BY <1>12 DEF ShutdownEnds, CleanupDir, process, fds
<1>13. CASE ConnectAgent
  BY <1>13 DEF ConnectAgent, process, fds
<1>14. CASE Operate
  BY <1>14 DEF Operate, Poll, PumpToEnd, DropQmp, Exited, Reap, fds, backend
<1>15. CASE Inside /\ QuitEnds
  BY <1>15 DEF Inside, QuitEnds, fds, backend
<1>16. CASE Inside /\ (WaitEnds \/ ExitedEarly)
  BY <1>16 DEF Inside, WaitEnds, ExitedEarly, Exited, Reap, CloseFds, fds, backend
<1>17. CASE Inside /\ (StillRunning \/ Terminate \/ WaitTimesOut \/ Kill)
  <2>1. CASE StillRunning
    BY <1>17, <2>1 DEF Inside, StillRunning, fds, backend
  <2>2. CASE Terminate
    BY <1>17, <2>2 DEF Inside, Terminate, fds, backend
  <2>3. CASE WaitTimesOut
    BY <1>17, <2>3 DEF Inside, WaitTimesOut, fds, backend
  <2>4. CASE Kill
    BY <1>17, <2>4 DEF Inside, Kill, fds, backend
  <2>5. QED
    BY <1>17, <2>1, <2>2, <2>3, <2>4
<1>18. CASE Inside /\ Connected
  BY <1>18 DEF Inside, Connected, fds, backend
<1>19. CASE Inside /\ ConnectAbandoned
  BY <1>19 DEF Inside, ConnectAbandoned, Stop, CloseFds, fds, backend
<1>20. CASE Environment
  BY <1>20 DEF Environment, Expire, Interrupt, Die, process, fds, backend
<1>21. CASE UNCHANGED vars
  BY <1>21 DEF vars, process, fds, backend
<1>22. QED
  BY <1>1, <1>2, <1>3, <1>4, <1>5, <1>6, <1>7, <1>8, <1>9, <1>10, <1>11, <1>12,
     <1>13, <1>14, <1>15, <1>16, <1>17, <1>18, <1>19, <1>20, <1>21
     DEF Next, Booting, Shutting, Inside, CallSteps, StopSteps

--------------------------------------------------------------------------------
(* The theorems.                                                           *)

\* The inductive invariant is an invariant of every run: between calls, and at
\* every step of boot(), stop() and shutdown(), the six parts agree.
THEOREM Invariant == Spec => []IInv
  BY InvInit, InvStep, PTL DEF Spec

\* Every variable keeps its type: in particular boots, directories, ports and
\* pids are numbered within the number of boots.
THEOREM TypeCorrect == Spec => []TypeOK
<1>1. IInv => TypeOK
  BY BackendConstants DEF IInv
<1>2. QED
  BY Invariant, <1>1, PTL

\* Whatever the child does and wherever start(), boot() or stop() gives up, a
\* child that is not reaped is the one in QemuProcess::pid, and the pipe ends
\* open are those stop() will close.
THEOREM NoLeak == Spec => []NothingLeaks
<1>1. IInv => NothingLeaks
  BY BackendConstants DEF IInv
<1>2. QED
  BY Invariant, <1>1, PTL

\* The SIGTERM and the SIGKILL of stop() go to a child that is not reaped: a
\* number the kernel may have given away, or -1, is never signalled.
THEOREM SignalsOwn == Spec => []SignalsOwnChild
<1>1. IInv => SignalsOwnChild
  BY BackendConstants DEF IInv, SignalsOwnChild, NothingLeaks, Phases, TypeOK, ProcessTypeOK
<1>2. QED
  BY Invariant, <1>1, PTL

\* A boot() that returns false has stopped and reaped its child, closed its
\* pipes, its monitor and its agent socket, and removed its directory.
THEOREM FailureIsClean == Spec => []FailedBootLeavesNothing
<1>1. IInv => FailedBootLeavesNothing
  BY BackendConstants DEF IInv, FailedBootLeavesNothing, AtRest, NothingLeaks, Cleared, Settled, Numbered,
  TypeOK
<1>2. QED
  BY Invariant, <1>1, PTL

\* The scratch directory is there for as long as a child lives that has its
\* sockets in it, and there is never a second one.
THEOREM DirStays == Spec => []DirOutlivesChild
<1>1. IInv => DirOutlivesChild
  BY BackendConstants DEF IInv, DirOutlivesChild, Unreaped, NothingLeaks, Numbered, TypeOK, ProcessTypeOK
<1>2. QED
  BY Invariant, <1>1, PTL

\* The AgentLink's socket is one of the child of the latest boot().
THEOREM AgentIsCurrent == Spec => []AgentIsOfThisChild
<1>1. IInv => AgentIsOfThisChild
  BY BackendConstants DEF IInv, AgentIsOfThisChild, Numbered, TypeOK
<1>2. QED
  BY Invariant, <1>1, PTL

\* Between calls, a child that runs was booted with the active target, and the
\* host port on record is forwarded to it.
THEOREM ActiveIsBooted == Spec => []ActiveTargetRuns
<1>1. IInv => ActiveTargetRuns
  BY BackendConstants DEF IInv, ActiveTargetRuns, Current, Forwards, Numbered, TypeOK
<1>2. QED
  BY Invariant, <1>1, PTL

================================================================================
