---------------------------- MODULE NativeFirmware ----------------------------
(***************************************************************************)
(* A native target in the process of esprite: the boot (core/runtime,      *)
(* core/backend), the commands that write the input bus and run iterations *)
(* of the firmware's loop (cli/actions, sim_wifi_post), and the shims the  *)
(* firmware uses on the way (HttpServer, Preferences).  One thread does it *)
(* all; HTTP clients and other processes act in between, and the process   *)
(* may be killed.                                                          *)
(*                                                                         *)
(* The firmware is external: setup() opens its settings and its server, an *)
(* iteration of loop() looks at the bus, calls handleClient() and may then *)
(* store a setting or stop the server.  A handler stores the setting that  *)
(* a whole request carries.                                                *)
(***************************************************************************)
EXTENDS HttpServer, Preferences

CONSTANTS Steps,        \* loop iterations a command runs at a time
          MaxCommands,  \* commands of the host, and boots
          Lines,        \* pressed, and released by the same command
          Levels,       \* set until another command sets them back
          WebHandle, UiHandle, WebKey, UiKey

ASSUME FirmwareConstants ==
  /\ Steps \in Nat \ {0} /\ MaxCommands \in Nat
  /\ {WebHandle, UiHandle} \subseteq Handles /\ {WebKey, UiKey} \subseteq Keys
  /\ Lines \cap (Levels \cup {"none", "boot", "post", "steps", "serve"}) = {}
  /\ Levels \cap {"none", "boot", "post", "steps", "serve"} = {}

VARIABLES
  at,        \* where the thread is: off, host, setup, client, ui, exited
  cmd,       \* the command: its op, the stages it still has, whether it went well
  left,      \* loop iterations until its next stage
  commands,  \* commands so far
  bus,       \* the lines that are asserted and the levels that are not as booted
  seen       \* an iteration has looked at the line of this command, asserted

hostVars == <<at, cmd, left, commands, bus, seen>>
vars == <<hostVars, httpVars, prefVars>>

Idle == [op |-> "none", stages |-> 0, ok |-> TRUE, conn |-> 0, ahead |-> 0]
Command(op, stages) == [Idle EXCEPT !.op = op, !.stages = stages]

Ops == Lines \cup Levels \cup {"none", "boot", "post", "steps", "serve"}

\* The commands there can be once n connections have been made
Cmds(n) ==
  [op : Ops, stages : {0, 1}, ok : BOOLEAN, conn : 0 .. n, ahead : Nat]

TypeOK ==
  /\ HttpTypeOK /\ PrefTypeOK
  /\ at \in {"off", "host", "setup", "client", "ui", "exited"}
  /\ cmd \in Cmds(made)
  /\ left \in 0 .. Steps /\ bus \subseteq Lines \cup Levels /\ seen \in BOOLEAN
  /\ at \in {"off", "host", "exited"} => current = 0
  /\ put # NoPut => at \in {"client", "ui"}

Init ==
  /\ at = "off" /\ cmd = Idle /\ left = 0 /\ commands = 0 /\ bus = {} /\ seen = FALSE
  /\ HttpInit /\ PrefInit
-----------------------------------------------------------------------------
(***************************************************************************)
(* The host: a boot, and the commands of a session.                        *)
(***************************************************************************)
Ready == at = "host" /\ left = 0 /\ cmd.stages = 0 /\ commands < MaxCommands

Start(c, n) == cmd' = c /\ left' = n /\ commands' = commands + 1 /\ seen' = FALSE

\* sim_boot: the hooks reset the bus, the link and the servers of an earlier
\* boot in the same process, and setup() runs.
Boot ==
  /\ \/ at = "off" /\ commands < MaxCommands
     \/ Ready /\ cmd.op # "serve"
  /\ at' = "setup" /\ Start(Command("boot", 0), 0) /\ bus' = {}
  /\ BootReset /\ UNCHANGED prefVars

\* setup() of the firmware, and the warmup of NativeBackend::boot after it
Setup ==
  /\ at = "setup" /\ at' = "host" /\ left' = Steps
  /\ \E readOnly \in SUBSET {UiHandle} : BeginAll(readOnly)
  /\ Begin
  /\ UNCHANGED <<cmd, commands, bus, seen>>

\* apply_tap, apply_button: press, run, release, run.
Press(line) ==
  /\ Ready /\ line \in Lines
  /\ Start(Command(line, 1), Steps) /\ bus' = bus \cup {line}
  /\ UNCHANGED <<at, httpVars, prefVars>>

ReleaseLine ==
  /\ at = "host" /\ left = 0 /\ cmd.stages = 1
  /\ cmd' = [cmd EXCEPT !.stages = 0] /\ left' = Steps /\ bus' = bus \ {cmd.op}
  /\ UNCHANGED <<at, commands, seen, httpVars, prefVars>>

\* apply_wifi: the link goes down or up.
SetLevel(level) ==
  /\ Ready /\ level \in Levels
  /\ Start(Command(level, 0), Steps)
  /\ \/ bus' = bus \cup {level}
     \/ bus' = bus \ {level}
  /\ UNCHANGED <<at, httpVars, prefVars>>

RunSteps ==
  Ready /\ Start(Command("steps", 0), Steps) /\ UNCHANGED <<at, bus, httpVars, prefVars>>

\* A faulty Post: to the configured port, whoever listens there
PostBlind ==
  /\ Ready
  /\ \E fits \in BOOLEAN :
       /\ Connect(IF fits THEN Parts ELSE 0, TRUE, TRUE)
       /\ Start([op |-> "post", stages |-> 0, ok |-> fits /\ Reached # "nobody",
                 conn |-> made + 1, ahead |-> Len(backlog)], Steps)
  /\ UNCHANGED <<at, bus, prefVars>>

\* sim_wifi_post: to the port of the bind status, all at once, and then the
\* loop runs; or nothing, when no server has bound.
Post ==
  /\ Ready /\ status = 1
  /\ \E fits \in BOOLEAN :
       /\ Connect(IF fits THEN Parts ELSE 0, TRUE, TRUE)
       /\ Start([op |-> "post", stages |-> 0, ok |-> fits /\ Reached # "nobody",
                 conn |-> made + 1, ahead |-> Len(backlog)], Steps)
  /\ UNCHANGED <<at, bus, prefVars>>

PostRefused ==
  /\ Ready /\ status # 1
  /\ Start([Command("post", 0) EXCEPT !.ok = FALSE], 0)
  /\ UNCHANGED <<at, bus, httpVars, prefVars>>

\* The backlog is full: connect() waits for an accept that only its own thread
\* could make, until the kernel gives up. The loop runs all the same.
PostTimesOut ==
  /\ Ready /\ status = 1 /\ Full
  /\ Start([Command("post", 0) EXCEPT !.ok = FALSE], Steps)
  /\ UNCHANGED <<at, bus, httpVars, prefVars>>

\* serve: refused when the server of the firmware could not bind, and then a
\* tick after the other until the process is told to stop.
Serve ==
  /\ Ready /\ cmd.op = "boot"
  /\ IF status = 0 THEN at' = "exited" /\ UNCHANGED <<cmd, left, commands, seen>>
     ELSE UNCHANGED at /\ Start(Command("serve", 0), Steps)
  /\ UNCHANGED <<bus, httpVars, prefVars>>

ServeTick ==
  /\ at = "host" /\ left = 0 /\ cmd.op = "serve"
  /\ \/ left' = Steps /\ UNCHANGED at
     \/ at' = "exited" /\ UNCHANGED left
  /\ UNCHANGED <<cmd, commands, bus, seen, httpVars, prefVars>>
-----------------------------------------------------------------------------
(***************************************************************************)
(* The firmware: one iteration of loop().                                  *)
(***************************************************************************)
Iterate ==
  /\ at = "host" /\ left > 0
  /\ seen' = (seen \/ cmd.op \in bus)
  /\ \/ Accept /\ at' = "client"
     \/ NothingToAccept /\ at' = "ui" /\ UNCHANGED httpVars
  /\ UNCHANGED <<cmd, left, commands, bus, prefVars>>

Reading ==
  /\ at = "client" /\ put = NoPut
  /\ \/ Receive /\ UNCHANGED at
     \/ CloseEmpty /\ at' = "ui"
  /\ UNCHANGED <<cmd, left, commands, bus, seen, prefVars>>

\* The handler stores what a whole request says, and answers an error to the rest.
Respond ==
  /\ at = "client" /\ put = NoPut /\ Handle
  /\ IF taken = Parts
     THEN \/ \E v \in Values : Put(WebHandle, WebKey, v) /\ UNCHANGED at
          \/ \E v \in Values : PutFails(WebHandle, WebKey, v) /\ at' = "ui"
     ELSE at' = "ui" /\ UNCHANGED prefVars
  /\ UNCHANGED <<cmd, left, commands, bus, seen>>

IterationEnds == at' = "host" /\ left' = left - 1

\* The rest of the loop
Rest ==
  /\ at = "ui" /\ put = NoPut
  /\ \/ IterationEnds /\ UNCHANGED <<httpVars, prefVars>>
     \/ IterationEnds /\ listening /\ Stop /\ UNCHANGED prefVars
     \/ IterationEnds /\ PutRejected(UiHandle) /\ UNCHANGED httpVars
     \/ /\ \E v \in Values : Put(UiHandle, UiKey, v)
        /\ UNCHANGED <<at, left, httpVars>>
  /\ UNCHANGED <<cmd, commands, bus, seen>>

SaveEnds ==
  /\ Saved
  /\ IF at = "client" THEN at' = "ui" /\ UNCHANGED left ELSE IterationEnds
  /\ UNCHANGED <<cmd, commands, bus, seen, httpVars>>

Kill ==
  /\ at # "off" /\ at' = "off" /\ cmd' = Idle /\ left' = 0 /\ bus' = {} /\ seen' = FALSE
  /\ ProcessDies /\ MemoryLost /\ UNCHANGED commands

Others ==
  /\ ClientConnects \/ ClientSends \/ ClientCloses \/ PortChanges
  /\ UNCHANGED <<hostVars, prefVars>>

Next ==
  \/ Boot \/ Setup \/ ReleaseLine \/ RunSteps \/ Post \/ PostTimesOut \/ PostRefused
  \/ Serve \/ ServeTick
  \/ \E line \in Lines : Press(line)
  \/ \E level \in Levels : SetLevel(level)
  \/ Iterate \/ Reading \/ Respond \/ Rest \/ SaveEnds \/ Kill \/ Others

Spec == Init /\ [][Next]_vars
-----------------------------------------------------------------------------
Finished(ops) == at = "host" /\ left = 0 /\ cmd.stages = 0 /\ cmd.ok /\ cmd.op \in ops

\* A press is over only when the firmware has seen it, and leaves nothing down.
PressesSeen ==
  Finished(Lines \cup {"none", "boot", "post", "steps"}) =>
    bus \subseteq Levels /\ (cmd.op \in Lines => seen)

\* A post that is reported as delivered went to the server of this firmware,
\* and has been handled whole when fewer requests waited than iterations ran;
\* only a firmware that stopped its server spoils it (the bind status is not
\* reset by stop()).
PostsArrive ==
  Finished({"post"}) /\ ~stopped =>
    /\ conn[cmd.conn].to \in {"us", "answered"}
    /\ cmd.ahead < Steps =>
         \E i \in DOMAIN handled : handled[i] = [conn |-> cmd.conn, parts |-> Parts]

\* serve never pumps a firmware whose server could not bind.
ServesBound == at = "host" /\ cmd.op = "serve" => status = 1

\* What the host reports as done has reached the firmware: the presses, the
\* posts among other clients' requests, the server it serves.
ReportedIsDone == PressesSeen /\ PostsArrive /\ ServesBound /\ RequestsHandled
-----------------------------------------------------------------------------
(***************************************************************************)
(* The inductive invariant.                                                *)
(***************************************************************************)
\* Where the thread is tells what it may be doing.
Control ==
  /\ current # 0 => at = "client" /\ put = NoPut
  /\ at \in {"client", "ui"} => left > 0
  /\ at \in {"host", "client", "ui"} => status # -1
  /\ status = 1 /\ ~stopped => listening
  /\ at = "setup" => cmd.op = "boot"
  /\ cmd.op = "serve" /\ at # "exited" => status = 1

\* How far a press is: the firmware sees the line in the first iteration.
PressRuns ==
  /\ cmd.stages = 1 =>
       /\ cmd.op \in Lines /\ cmd.op \in bus /\ bus \subseteq Levels \cup {cmd.op}
       /\ at \in {"host", "client", "ui"}
       /\ (at = "host" /\ left = Steps) \/ seen
  /\ cmd.stages = 0 => bus \subseteq Levels /\ (cmd.op \in Lines => seen)

\* The post has been handled whole.
PostHandled ==
  /\ conn[cmd.conn].to = "answered"
  /\ \E i \in DOMAIN handled : handled[i] = [conn |-> cmd.conn, parts |-> Parts]

\* The iterations of this command that are still to accept a connection
AcceptsLeft == IF at = "host" THEN left ELSE left - 1

\* It waits, and every iteration has brought it one place forward.
PostWaits ==
  \E i \in DOMAIN backlog :
    backlog[i] = cmd.conn /\ i + Steps <= cmd.ahead + AcceptsLeft + 1

\* How far a post is that the client has sent whole.
PostRuns ==
  cmd.op = "post" /\ cmd.ok /\ ~stopped =>
    /\ listening /\ cmd.conn # 0
    /\ conn[cmd.conn].sent = Parts /\ conn[cmd.conn].lengthy /\ conn[cmd.conn].closed
    /\ PostHandled \/ PostWaits \/ current = cmd.conn

IInv == TypeOK /\ PrefInv /\ HttpInv /\ Control /\ PressRuns /\ PostRuns
=============================================================================
