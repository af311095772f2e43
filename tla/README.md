# A TLA+ model of esprite

esprite runs ESP32 firmware on a desktop: natively, compiled against shims of
the Arduino libraries, or in a QEMU child process that it drives over two unix
sockets. One thread of C++ holds conversations with parties that die, hang,
answer late, or are never there: the QMP monitor, the guest agent, the child
process, the client of a run session or of the firmware's web server, the user's
Ctrl-C. This directory models those conversations, checks them with TLC and,
with TLAPS, proves every safety property and both refinements for all sizes.

## The system

| Part | State it keeps | Operations | Talks to | What makes it correct |
|---|---|---|---|---|
| QMP client (`backends/qemu/qmp.cpp`) | socket, receive buffer | `connect_unix`, `execute`, `close` | QEMU's monitor | a call returns its own reply or fails; the session that is kept is in step; no wait is unbounded |
| Agent link (`agent_link.cpp`) | socket, receive buffer | `connect_unix`, `request`, `close` | the guest agent, over a UART | the same, but see the findings |
| QEMU process (`qemu_process.cpp`) | pid, two pipe ends, the QMP client, captured output | `start`, `running`, `pump`, `serial_write`, `stop` | the child and the kernel | no leaked child, pipe or zombie; only the own child is signalled; `stop` returns |
| QEMU backend (`qemu_backend.cpp`) | process, agent link, scratch directory, port, capability | `boot`, `shutdown`, `settle_ms`, captures, injections | all of the above, the CLI | a boot is all or nothing; what callers read belongs to the running child |
| Guest agent (`tools/qemu/esprite_qemu_agent`) | injected levels, touch, counters | one line each: gpio, pulse, touch, tap, release | host, firmware tasks | no press is lost or seen with the wrong data |
| Guest fixtures (`rgb_demo`, `lvgl_demo`) | what they have seen and drawn | polling loop, UI tick, HTTP POST | the agent, the display device | the frame shows all input in the end |
| Run session (`cli/cli.cpp`, `esprite_daemon`) | booted, backend, line buffer, refs of the last listing, signal flag and self-pipe | one JSON command per line | client, signals, a backend | one reply per line; no exit leaves a child; a ref means what it was shown as; signals and end of input end it |
| Command line, serve loop (`cli/cli.cpp`) | flags, exit code | one-shot commands, frame loop | backends, window, bridge | no child for what it cannot do, none left; orderly exit on a signal |
| BLE bus and bridge (`sim_ble.cpp`, `ble_bridge.cpp`) | link state, two queues, one TCP client | connect, pair, send, drain, tick | firmware, desktop client | lines stay whole and in order; a client costs only itself |
| Input actions (`cli/actions.cpp`) | input bus | tap, swipe, button, levels | backends | a gesture ends with its release; the firmware has seen it |
| Scenario runner (`scenario.cpp`) | first failure | one step after the other, pixel retries | backends | every step runs, the first failure is told |
| Window (`sim_window.cpp`) | holds by mouse and key, overlays, power key | SDL events, ticks | input bus | nothing stays pressed; power edges fit the presses |
| Window layout (`window_layout.cpp`) | none | a function of board and scale | the window | nubs and panel inside and apart |
| Runtime and native backend (`core/runtime.cpp`, `core/backend.cpp`) | booted target | boot with reset hooks, loop iterations | firmware, shims | nothing of a boot outlives it |
| HTTP shim (`webserver.cpp`) | listener, bind status, one client | begin, stop, handleClient | firmware, HTTP clients, `sim_wifi_post` | a request handled once and whole; a reported post arrived |
| Preferences shim (`preferences.cpp`) | a copy of the file per handle | begin, put, save | firmware, file system | what was reported stored is there after a restart |
| HTML studio (`examples/html-studio`) | runner process, buffers, frame | HTTP actions, pump thread | a run session | replies pair with commands; close is final |

The parts meet in one thread: a CLI command, the serve loop or the session
calls the active `SimBackend`; `QemuBackend` calls `QemuProcess`, which owns the
`QmpClient`, and `AgentLink`. The concurrency is with the other processes, with
the tasks inside the guest, and with the signal handler, which shares
`g_interrupted` and a self-pipe with everything that waits. The hard behaviours
are listed with their lines under `hazards` in `PROJECT.json`.

## Modules

* `RequestReply` - what a connection promises its caller: a request waits, then
  it fails or gets the reply to itself; nothing overtakes.
* `QmpLink` - the QMP client and its monitor. `pc` is the call the thread is in
  (`connect_unix` waiting for the greeting, then for its capabilities reply, or
  `execute`), `fd` and `rxbuf` are the fields, `wire` and `inbox` the two
  directions of the socket. Each return path of `read_line`, `write_line` and
  `read_reply` is an action; `Close` is the method. The monitor is external: it
  may be silent, flood events, write garbage or exit.
* `AgentLink` - `AgentLink::request` as `ensure_agent` and the injections use
  it, with the guest task that serves the UART. Lines are numbered as they are
  sent and replies carry the number, which the protocol does not: that is what
  lets a property say whose reply was taken. What the guest has not read waits in
  the UART (`UartCap` lines) and in the socket (`LinkCap` in all); when both are
  full, `request` is in its `send`, which has no deadline (`sending`). A driver
  that starts late may get half of a line, which the agent answers with `err`
  (`torn`).
* `QemuProcess` - the child: `start`, `running`, `pump` to its end, and `stop`
  cut at every point where the child or a signal can come between.
* `QemuBackend` - extends it with `boot` and `shutdown`, cut the same way, the
  scratch directory, the port, the agent connection and the active target.
* `GuestInput` - the variables of the guest agent, and the two firmwares that
  read them: the polling loop of `rgb_demo` and the UI tick of `lvgl_demo` with
  its touch adapter, one read of a shared word per step, and the draw that
  blocks until the host captures.
* `DaemonSession` - `esprite_daemon`: poll, `fgets` one byte at a time (the
  stream is unbuffered), the drain of a long line, signals between any two
  steps, the widgets and the refs that `ui` hands out, and the shutdown guard.
* `CommandLine` - `esprite_main` around it: a one-shot command, refused before
  the boot where its target cannot do it (`Needs` is `qemu_command_allowed`);
  `serve`; a scenario, step by step with the retry loop of a pixel step; a
  session. `wants`, `steps` and `target` are the arguments, `code` the exit
  code. How a command ends is a choice among what the code can report. A tick of
  `serve` that is in the send loop of its BLE bridge is `Stall`, which may last.
* `BleBridge` - the tick of the bridge, step by step, with the bus. Lines are
  two pieces, for what a `recv` cuts apart; the queues of the bus are kept as
  all that was ever pushed and how far it was drained, so that a property can
  tell whose line went where. Clients and firmware are external.
* `WindowLayout` - `window_layout`, the help card and the panel, as functions.
* `SimWindow` - the event loop of the window: `mouseHeld`, `keyHeld` and
  `touching` are what the code thinks is held, `mouseDown` and `keysDown` what
  the user really holds; clicks go to whatever the layout has at their point.
* `PowerKey` - what a power key promises the firmware: edges in the order of
  the presses. `SimWindow` implements it under a refinement mapping (`Power`):
  the key is up when nothing holds it, long when `pwr_long_sent` is set.
* `HttpServer` - the listener, its backlog (`Backlog`, 8 in the code), and the
  receive loop of `handleClient` with its timeout; a request is three pieces. A
  client that connects to a full backlog waits in the kernel.
* `Preferences` - the file, a copy of it per handle, and the two points in
  `save` between which the file is empty. What `save` writes is all of the copy,
  or what a full disk has room for, which may end within a number; its put
  reports success either way.
* `NativeFirmware` - a native target in the process: boot, actions on the input
  bus, loop iterations, `sim_wifi_post` and `serve`, over the two shims. The
  firmware itself is external: a loop that looks at the bus, serves one client
  and may store a setting or stop its server.
* `MC*` - the instances TLC checks. `*_proofs` - the theorems.

Composition: `QemuBackend` extends `QemuProcess`; what ends an `execute` there
is any of the outcomes `QmpLink` allows. `CommandLine` extends `DaemonSession`,
and both take a boot as one step that fails or leaves a child
(`BootBackend`), which is what `QemuBackend` shows of it. `NativeFirmware`
extends `HttpServer` and `Preferences` and decides when the firmware calls
them. `SimWindow` extends `WindowLayout`, so that a click at a point is what
the code makes of that point.

Refinements: `QmpLink` implements `RequestReply`, and `SimWindow` implements
`PowerKey`; both are checked and proved.

## Runs

| Run | Question | Instance |
|---|---|---|
| `qmp_link` | does each `execute` return, with its own reply or none; is a kept session in step; is `RequestReply` implemented | three commands, three unread lines |
| `agent_link` | what is left of that on the agent link: order, a slip no larger than the failures before, each line applied at most once, a finger that stays down only after a failure; which request may not end | five lines, one firmware restart, a link that holds three |
| `agent_late` | (violated) is a reply the reply to its request | four lines, one restart |
| `qemu_backend` | does anything leak, is a foreign process signalled, what does a failed boot leave, do calls return | three boots, a plain and a full target |
| `guest_input` | is each press and each posted color shown in the end, by either firmware | four requests, two points, two colors |
| `guest_touch` | (violated) is each press seen with its own coordinates | the same |
| `daemon_session` | one reply per line, the first failure told, no child without a use or left, refs as shown, everything ends | every kind of invocation, three targets, three steps; a buffer of three, six bytes, two widgets in two places |
| `daemon_partial` | (violated) does a signal always end the session | the session alone, seven bytes, one widget |
| `ble_bridge` | are lines whole, in order and not repeated over clients that come and go; does a signal end serve | three clients, four pieces, two device lines |
| `ble_stall` | (violated) does a tick return | one client, two device lines |
| `sim_window` | is what the bus shows pressed held by someone, do power edges fit the presses, is the layout sound | three boards, one of the repository and one close to another of it, two edges; for the layout, a family of sizes, edges and one to nine buttons, two scales |
| `native_firmware` | has what the host reports as done reached the firmware; what can stale copies, a full disk and crashes cost the settings | two commands and boots, two connections and room for two, two iterations each, two handles on one file, a value that is cut to another |

Why the bounds are enough. Three commands are one that is abandoned, one that
its late reply meets, and one after that. Five agent lines are a ping that
fails, a second ping and its command, and two more requests; a link of three
lines is full after three of them have failed, so that the last two can wait for
room, and the UART keeps fewer, so that closing loses some. Three boots put a
failed one between two good ones; the numbers of children, directories and
ports need no more, as only one of each is ever current. Four guest requests
let two presses come during a draw that a third caused, and one between two
reads. Six bytes are a line that fits a three byte buffer, one that does not,
and a part of a third; the buffer of the code differs in size only. Two widgets
in two places can move, vanish and take each other's number. Three steps let a
scenario fail twice, in two ways, around one that succeeds, and the targets are
a native one and the least and the most that one on QEMU can declare. Three BLE
clients are one whose lines are left over, one that may be passed over or
refused, and one that gets them; four pieces are a half line before a whole
one, or two lines around a lost link; one more than fits `inbuf` is a runaway.
A power key starts no press once it has reported two edges: a long press and its
release, or a short press before another. Three boards have two buttons on one
key, a button on an overlay's key, and one no key presses; windows of the family
are closed at once, as their layout is all there is to see. Two commands on
a native target are a boot and one that runs on it, a second boot, or a boot after
a crash; its own iterations serve clients, store settings and stop the server. Two
connections are the host's and one of another client, in either order, or two of
others that fill the backlog for the host.

Deadlock is checked where the program cannot stop. `agent_*` switch it off as
the host may make no more calls after the child has exited, `daemon_*` and
`ble_*` as the process ends, `sim_window` as the user may have closed the window,
and `native_firmware` as it ends with its last command.

### What the violated runs show

* `agent_late`: `AgentLink::request` gives up at its deadline and the link stays
  open, so the late reply is read by the next request, and each request after
  it is one reply behind. `agent_link.h` calls the protocol "strictly
  request/reply". `QmpClient` closes in the same situation. What the failure
  cannot do is in `agent_link`.
* `guest_touch`: `esprite_agent_touch_events` reads x and y before the counter.
  A press stored between is counted as seen with the coordinates before it, and
  the loop does not look again. The header says the counter never misses a
  press and comes with the latest coordinates.
* `daemon_partial`: the session polls before it reads a line, not before each
  read of it. A signal between two reads of a line whose end has not been sent
  waits for that end. The comments claim the window is closed. With the
  exception stated, `SignalIsSeen` holds, as a part of `EverythingEnds`.
* `ble_stall`: the loop around `send` retries a full socket without an end, and
  the frame loop does nothing else until the client reads. `ble_bridge.h` calls
  the tick non-blocking, and `docs/reference.md` says Ctrl-C stops `serve`.
  With a client that reads, `InterruptEndsServe` holds.

Some effects are in the models and allowed for by the properties. A client
that closes while lines are streamed can end `serve` by SIGPIPE, which only the
QEMU backend ignores. A burst of short lines over the limit of `inbuf` is
taken for a runaway line, as the limit is checked before lines are taken out.
A signal does not end a scenario early; it ends when its steps have run. A pixel
step whose capture fails looks at the frame captured before, which may be the
wanted one. `stop()` of the web server leaves its bind status positive, so a post
can go to a port nobody, or another process, listens on; `PostsArrive` excepts it.
A post to a full backlog waits in `connect` for an accept that only its own thread
can make, until the kernel gives up, and is reported as failed (`PostTimesOut`). A
stored setting is lost to three things: a crash inside `Preferences::save`, a
handle with an older copy that saves it, and a full disk, where `save` ignores what
`fprintf` and `fclose` return and the put reports success over a file that ends
early. `StoredSurvives` says which keys are spoiled by these (`spoiled`) and that
all others are read at the next boot. A swipe that fails half way leaves the finger
down.

One such effect contradicts the code's documentation. `agent_link.h:8` says the
agent link has the "same bounded-blocking poll() discipline as QmpClient", but
`request` writes with a blocking `send` and neither `poll` nor its deadline. As the
link stays open after failed requests, those fill it when the guest does not read,
and the next `send` returns only if the guest reads again, the child exits or a
signal comes. `EveryCallReturns` of `agent_link` states that exception, and
`FullByFailures`, which is proved, that it needs as many failed requests as the link
holds lines.

## Fairness

Safety is checked without it. For liveness, each specification assumes weak
fairness of the steps of the thread that is in a call (it runs), and of
`Expire`, the passing of a deadline (every wait for QEMU, the agent or a child has
one but the `send` to the agent, which is excepted above; the clock is
`steady_clock`). Nothing is assumed of the monitor, the guest agent in
`AgentLink`, or the child, except that a child killed with SIGKILL dies. In
`BleBridge` only that the firmware's turns end and, for `ble_bridge` but not
`ble_stall`, that a connected client reads. In
`GuestInput` the guest's tasks run and the host goes on capturing, as the frame
loop of `serve` does. In `CommandLine` the process goes on whenever it can
(`Process`) and the deadline of a pixel step passes (`Deadline`, which keeps the
`Look` of the retry loop from going on for ever). Nothing is assumed of the client
of a BLE bridge there: `InvocationEnds` allows `serve` to stay in a tick that sends
to a client that reads nothing (`Stall`), and only `ble_bridge` assumes that it
reads. `SimWindow` and
`NativeFirmware` have safety properties only. No strong fairness is used anywhere.

## Proofs

Every invariant of a run that passes, and both refinements, hold for all values
of the constants. Each model states its inductive invariant `IInv` (`CmdInv` in
`CommandLine`) after its properties, in named parts, and its module `*_proofs`
shows that the initial states satisfy it, that each action keeps it, and that
the properties follow. TLC has checked each of them as an invariant of the runs'
instances. Hardly any of the properties survives a step on its own; what the
invariant adds, per module:

**QmpLink.** That a call returns its own reply depends on what is under way in
the socket, and that on what earlier calls left there. Of the command the client
waits for there is at most one trace between client and monitor, in `inbox` or
as a reply in `wire` or `rxbuf`, and outside a call there is none (`InStep`);
the fields agree with each other (`Shape`). A timeout keeps it only because
`execute` closes the session, and an error reply keeps it because the reply was
consumed: the distinction `ReplyStatus` makes. Each step is then a step of
`RequestReply` or a stutter.

**AgentLink.** The link stays open after a failure, so what counts is where
every line is. The numbers grow along `uart`, the line being handled, `applied`,
`wire` and `rxbuf` (`Route`), and a reply that was read is older than all that
can still be read (`Replied`). A slip then counts requests that were sent and
not answered: the requests that a reply has passed over go one to one into the
failures before, which is `SlipIsAccounted`. The lines that wait on the link go
one to one into the failures too, which is `FullByFailures`. For the finger, the
lines of a swipe follow each other (`SwipeGoesOn`), and no line about the touch
screen is lost while one sent before it is still on its way; a line is torn only
when nothing before it is left (`FingerSince`).

**QemuBackend.** Where `boot` gives up, what is left depends on how far `start`
had come and on whether the child was gone. `IInv` relates the call (`step`) to
the operation in it (`pc`) and both to what is held: a call that waits has a
child (`Phases`), one that has stopped its child holds nothing of it
(`Cleared`), pid, directory and boot have one number (`Numbered`), and what
callers read was set by this boot (`Current`). `QemuBackend` takes the end of an
`execute` as any of the outcomes `QmpLink` allows, so nothing here depends on
how the monitor behaves.

**GuestInput.** Reader and agent share words that change between two reads. That
the frame shows what the reader has seen rests on what each place of the loop
has left to draw (`Reader`); that the counters fit their type, on the host
having one request at a time, which at most one of the handlers serves
(`Accounts`).

**CommandLine, DaemonSession.** The session is proved first (`SessionInv`): a
line is answered before the next one is begun (`Ledger`), a child belongs to the
backend that leaving shuts down (`ChildIsSelected`), and the refs are those that
were shown last (`RefsKept`). A command line boots, runs and shuts down around
it; `Places` says which command is at each place of `esprite_main` and what has
been done on the way there, `FirstKept` that no later step hides the first
failure.

**BleBridge.** At most one client is the central, and only then may the link be
up (`OneCentral`). What that client wrote is delivered, in `inbuf`, or on the
wire, numbered without a gap (`InStep`); nothing concerns a client that comes
after it (`Sessions`); and lines not drained belong to the last client that had
any (`Leftovers`), which is why a client can get at most the leftovers of one
before it, and gets them first.

**SimWindow.** `IInv` is that the lines of the bus are what the mouse and the
keys hold, and that the layout is that of this board at this scale. A line that
no hold drives is at the idle level of its pin, which the code sets for all the
buttons of a board, the ones beyond the eighth too that the window does not
show; `OwnLines` therefore ranges over all of them. The refinement rests on the
one power key a board may have. `LayoutAlwaysSound` is arithmetic: the starts of
a stack are a pitch apart in each of the three ways `AutoStart` places them, a
stack that runs into the "..." nub can slide by its overrun when the edge has
the room, and the declared places of the controls of the panel are disjoint
however the card is shrunk. So what a run sees on a family of boards holds for
every size, number of buttons, position and scale.

**NativeFirmware.** Each shim has its own part (`PrefInv`, `HttpInv`), and each
of its operations is shown to keep it. A copy holds what was last reported as
stored but for the keys that are known to be stale, among them those that were
spoiled when it was loaded, and a save spoils the stale keys of its copy and those
it does not write, from which `StoredSurvives` follows. A post that is reported as done is in the backlog and
moves one place forward in every iteration (`PostWaits`), or is being read, or
has been handled whole; a press under way is seen in the first of its
iterations (`PressRuns`).

Assumed of the constants, and evaluated by TLC on the instances: bounds and
sizes are natural numbers (`WireCapIsNat`, `Bounds`, `BridgeConstants`,
`HttpConstants`), a socket holds a line at least and a backlog a connection; the
keys of settings are numbered in the order they are written; no request is the capabilities command or a mark of the model
(`RequestsAreCommands`); children, boots and directories share their numbers,
and a target says whether it has an agent and a forwarded port
(`BackendConstants`); coordinates, colors and stored values are positive, zero
being what a word or a missing key reads as (`InputConstants`,
`PreferencesConstants`); a line buffer has room for more than its terminator
(`DaemonConstants`); a target is native or on QEMU (`CommandLineConstants`); a
board is what a target can describe, with one power key at most
(`WindowConstants`); the names of commands and lines are distinct and an action
runs at least one iteration (`FirmwareConstants`).

Only model-checked: liveness, which this prover does not do (`EveryCallReturns`,
`FrameCatchesUp`, `EverythingEnds`, `InterruptEndsServe`), and the four violated
properties, each of which needs its counterexample only. In `HelpSound` the size
of the help text is one of three, in the theorem as in the run.

## Not modelled, and what comes next

Left out within the modelled parts: the text of the serial capture and
`serial_write`, a NUL byte in a session line, the PNG that `--shot` writes (on
QEMU from whatever was captured last), pairing and HID reports on the BLE bus,
headers, uploads and the size limit of the HTTP shim, the native swipe, motion
sensors, the simulated clock. Not modelled at all, with the reason for each part
in `PROJECT.json`: pixel drawing, board specs and the screen dump decoder
(sequential and covered by unit tests), the studio, vendored code, packaging.

The plan, most important first:

1. Serial input and output of `QemuProcess`: a capture that is cut, a write that
   ends in the middle of a line, a child blocked on a full pipe.
2. The studio (`examples/html-studio`): HTTP threads, pump thread and runner.
3. Pairing with a passkey in `BleBridge`, which a firmware may demand before it
   takes lines.

Theorems to prove next: that `BleBridge` implements a FIFO with loss at the
ends of sessions, and `DaemonSession` a sequence of line, effect and reply, once
these are stated as modules; that `AgentLink` implements `RequestReply` as long
as no request fails; action properties, such as that a reply once given is not
taken back, and that no boot starts while the child of an earlier one lives.
