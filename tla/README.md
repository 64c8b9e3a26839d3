# A formal model of chippy

chippy is a cycle-accurate emulator and debugger for the 6502 family (NMOS,
65C02, the NES variant and the 65816).  One CPU is driven from several sides: a
terminal user interface, a Debug Adapter Protocol (DAP) server for editors, and
hosts that embed the server.  This directory holds TLA+ modules for the parts of
it whose correctness depends on the order in which things happen, TLC
configurations that check them on small instances, and TLAPS proofs of the
properties that should hold for every size.

    tlc -workers 2 -config SessionSafety.cfg MCSession.tla   # one run
    tlapm DapSessionProofs.tla                               # one proof module

`PROJECT.json` names the runs, the code each definition models (`map`), a
mutated form of the code for each checked property (`mutants`), the
disagreements between code and documentation the runs show (`findings`), the
hazards the properties are for, and the theorems.

## The system

| part | state | operations | talks to |
|---|---|---|---|
| DAP server session (`dap/server.go`, `steps.go`, `attach.go`) | `running`, `pauseRequested`, `runDone`, `terminated`, `attachedFired`, `disconnectFired`, the debuggee | `Serve` / `dispatch`, one handler per request, the run-loop goroutine | editor (wire), host (callbacks, `cpuMu`), CPU |
| breakpoints (`dap/breakpoints.go`, `bpmeta.go`, `databreakpoints.go`, `exceptions.go`) | three tables and their modifiers, watch table, BRK filter, a pending watch hit | the four set requests, `runLoopIter`, `RunBudget`, the access hook | run loop, TUI tick |
| undo (`cpu/snapshot.go`, `snapshot_ring.go`, `memory.go`) | ring of register + page-delta snapshots, the shadow epoch of RAM | `Snapshot`, `TakeShadow`, `Restore`, `Push`, `Pop` | TUI `<`, DAP `stepBack`: each its own ring over the same RAM |
| deep rewind (`cpu/keyframe.go`, `internal/tui/rewind_deep.go`) | ring of full keyframes, `StepCount` | capture every 4096 steps, nearest keyframe, replay | TUI model, keyboard |
| CPU boundary (`cpu/exec.go`, `cpu.go`) | registers, `irqLine`, `nmiPending`, `nmiDue`, `irqDue`, `abortPending`, `Halted`, `stoppedBySTP` | `Step`, interrupt service, `WAI`, `STP`, `Reset` | bus tickers, peripherals |
| DMA (`cpu/dma.go`) | `needHalt`, sprite and DMC flags | `ProcessPendingDma` | CPU reads |
| instructions (`cpu/exec.go`, `opcodes*.go`, `addressing.go`, `exec816.go`, `ctrl816.go`, `addr816.go`, `arith816.go`) | registers, memory | two interpreters: one for the 8-bit variants, one for the 65816 | everything above |
| memory and devices (`cpu/memory.go`, `peripheral.go`, `peripheral/*.go`) | RAM, frozen bytes, device registers, queues | reads, writes, peeks, freeze | CPU, both debuggers |
| wire client (`dap/client.go`) | last number, pending table, closed flag | `Request`, `readLoop`, `Close` | DAP server, remote mirror |
| remote mirror (`internal/tui/source_remote.go`, `dap_attach.go`) | event queues, mirror CPU and RAM | `Step`, `Continue`, `Pause`, `demuxEvents`, refresh | wire client, TUI |
| TUI model (`internal/tui/model.go`, `prompt.go`, `syms.go`, ...) | run flag, speed, debt, breakpoint maps, prompt, history | keys, ticks, commands | all of the above |
| state file (`internal/tui/state.go`) | one JSON file for each program | `saveState`, `loadState` | TUI, the next session |
| trace replay, expressions, symbols, loader | cursors, tables | pure algorithms, files | TUI |
| launcher, WebAssembly shell | - | process start, browser glue | - |

Four goroutines or loops can touch one machine: the Serve goroutine of a session
(handlers), the run-loop goroutine every `continue` spawns, the TUI's update
loop, and a host's own game loop.  They share the machine through a mutex the
host may or may not pass (`AttachConfig.CPUMu`); without one, only the flag
`running` keeps them apart.

What is hard here:

- *concurrency*: the flag, the channel and the mutex above; breakpoint tables
  replaced under a running loop; two undo rings over one memory;
- *ordering*: the `stopped` event leaves before the clean-up that allows the next
  `continue`; pipelined requests; callbacks to the host;
- *failure*: the editor vanishes at any moment, handlers fail half way, requests
  time out while their answer is on the way, events are dropped by full queues,
  a session is killed while it saves;
- *copies*: the mirror of a remote machine; breakpoints kept in the panels, in the
  server and in a file; every 65C02 instruction written twice;
- *bounded history*: rings that evict, keyframes of timelines the user left.

What makes each part correct:

- session: one run loop at most, no handler drives the CPU beside it, an
  accepted pause and a disconnect take effect and leave no run loop behind, each
  callback pairs;
- breakpoints: no unconditional breakpoint or watchpoint is run through, in
  either engine; no stop is invented; a hit target of N stops at the Nth landing
  and at no other;
- CPU: every NMI edge enters a handler once and soon, a held IRQ waits for one
  instruction at most, what the devices and the CPU know of the line agrees, and
  every DMA transfer is carried out to the byte;
- instructions: widths, modes and stack stay consistent, calls and interrupts are
  undone by their returns, decimal arithmetic is decimal, and the emulated 65816
  is a 65C02;
- client and mirror: a response reaches the call it was made for or nobody, every
  call returns, and no byte the machine wrote is forgotten by the mirror;
- TUI: what the panels show as a breakpoint stops the run, a session resumes as
  it was left, and a throttled run is given what is due;
- undo and rewind: `<`, `stepBack` and `:rewind` give back a state the machine
  really was in; replay is bounded; the ring is a bounded stack.

## Modules

    BoundedHistory <--implements-- SnapshotRing <-- UndoProofs
    DapSession <-- MCSession
               <-- DapSessionProofs
    Rewind <-- MCRewind
           <-- UndoProofs
    Breakpoints <-- MCBreakpoints
                <-- BreakpointsProofs
    NesCpu <-- MCNesCpu
           <-- NesCpuProofs
    Interrupts <-- MCInterrupts
               <-- InterruptsProofs
    RequestReply <--implements-- Client <-- WireProofs
    RemoteMirror <-- WireProofs
    Machine <-- Cpu6502 <-- Cpu65816 <-- Cores <-- MCCores
                                               <-- CoresProofs
    Tui <-- MCTui
        <-- TuiProofs

An arrow from M to its right means "is extended by".  `Client` and
`RemoteMirror` are checked directly.  The surroundings of a component (its host, its
engine, the requests or keys in use) are records in the constant `Settings`
(`Sessions` in `Tui`, `Menus` in `Cores`); `Init` picks one and it never changes, so
one run covers several of them and a proof all of them.

### SnapshotRing, BoundedHistory

`SnapshotRing` is `cpu.SnapshotRing` as it is written: an array, the next-write
index `head` that wraps, the count `size`.  `Push`, `Pop` (split by its early
return into `PopEmpty` and `PopNewest`) and `Reset` (`RingReset`) are the actions;
`result` is what the last `Pop` returned.  `BoundedHistory` says what it is for: a stack that
holds the last `Capacity` snapshots.  The refinement mapping reads the used slots
from the oldest to the newest.

*Runs.* `ring`: capacity 3, three snapshots, so that every wrap position,
fullness and eviction occurs.  The implementation is checked as a PROPERTY.

### DapSession

One session: the editor, `Serve`, the run loops, `cpuMu`, and the hosting
process.  Actions follow the places where the goroutines can be interrupted.
`ServeRead` takes a request; `ServeLock` is `lockCPU` of `dispatch`, skipped for
continue and pause; each `Handle...` is a handler; a handler that touches the
machine stays at `"machine"` until `MachineDone`, so that others can be caught
beside it.  `StartRun` holds the three stores before `go s.runLoop()`, `SpawnRun`
the `go`.  A run loop polls, locks, iterates, sometimes reports state, emits
`stopped`, and then clears `running` and closes the channel in two steps, as its
deferred function does.  `runDone` is the number of the channel the field refers
to, so that "closing whatever the field holds by now" is visible.
`HandleDisconnect` and `AwaitRun` are the two halves of `stopRunLoop`.

Requests are command names.  `step` stands for every request that goes through
`requireStopped` (or its like) before it touches the machine, `inspect` for every
one that does not ask.  `setting.host` is the host: none (stdio and tcp server
mode), a TUI that steps whenever it likes, or a host gated by the callbacks;
`setting.mutex` says whether it passed `AttachConfig.CPUMu`.

*Assumed about the surroundings.*  Writes to the wire do not block.  Nobody else
uses the debuggee.  A session starts with launch or attach; afterwards the editor
sends what it likes, when it likes, and may hang up.

`close(s.runDone)` of a channel that is closed already is a panic, which ends the
process.  It comes about when a continue is handled between the two steps of a
loop's clean-up: the old loop closes the channel of the new run, and the new loop
closes it again.  Between the two a disconnect finds that channel closed and returns
beside a live loop.  `Overtaken` says that this has happened to some run; the
safety properties hold with it, the two about the end of a run leave it out, and
neither takes a panic for success (table below).

*Fairness* (`FairSpec`, used only by runs with a liveness property).  A goroutine
that can run eventually does: weak fairness of Serve, of each run loop, and of
the end of a TUI step.  Taking the mutex has strong fairness, because Go's
`sync.Mutex` hands itself to a waiter that has waited for a millisecond
(starvation mode).  The editor and the TUI's user are not assumed to do anything.

*Runs.*

| run | settings | shows |
|---|---|---|
| `session_safety` | all hosts, all eight commands | one live run loop; no step handler beside it; with a mutex the three steppers take turns; `OnDisconnected` exactly once per attached session |
| `session_liveness` | no host; TUI with mutex | an accepted pause ends its run; disconnect completes and leaves no run loop, unless a run was overtaken (the TUI setting sends no disconnect) |
| `session_blocked` | TUI with mutex | *violated*: disconnect deadlocks with the run loop |

`MaxRequests = 4` is launch plus three requests: enough for a continue, its end
with its two clean-up steps, a second continue in between and a disconnect, the
longest of the scenarios above.  A session may end, so these runs do not check
for deadlock; that nobody is stuck is what the liveness properties say.
`StepsNeverRace` is about `Model.step`, the handlers and the run loop; the TUI's
rewind keys take no mutex (`HostRewind`) and are not part of it, nor is the access
hook, which `runLoop` puts on the CPU and takes off without the mutex (table below).

### Rewind

A deterministic machine (`Program` is any function on machine states) with
memory in pages, a keyboard latch, and a part `hidden` that the program's
`Snapshot` leaves out.  `Step` is `Model.step` with its seeding and capture of
keyframes, `Undo` the `<` key, `RewindShort` and `RewindDeep` the two paths of
`rewindToStep`, `Reset` the `R` key, `SetBudget` `:rewind-budget`; `DapStep` is
`stepWithSnapshot` around one instruction or a sweep, `DapStepBack` `stepBack`;
`Poke` a memory edit between steps, `PushKey` a key press.  The shadow epoch of
`RAM` is a variable, because every writer shares it.  `seen` (which states this
run had at step k) and the fields `before` and `edited` of a snapshot are history
for the properties.  The rings are sequences here; that the array behaves like
one is what `SnapshotRing` shows.

`MCRewind` gives a two-instruction loop that adds a key or 1 to a page of its own.

*Runs.* `rewind` has three settings: the TUI without input, the TUI with typed
keys, and the DAP server with keys and memory edits.  The fine ring holds two
entries, keyframes come every second step and one or three of them are kept, so
that rewinds are deep, keyframes are evicted and timelines fork within five
steps.  `<` and `stepBack` must restore the machine exactly; `:rewind` must land
in a state the run had (where no key is typed), from a keyframe of the current
timeline, with a replay shorter than the interval.  Each surface has the memory to itself
(`OneSurface`): two rings over one RAM do not undo exactly (table below).

### Breakpoints

Breakpoint tables, watch table, BRK filter and the two engines that enforce
them: the server's run loop and the TUI-driven `RunBudget`
(`setting.engine`).
The program is a control-flow graph; each instruction has its data accesses in
order.  An iteration is split where the code gives up `bpMu` between
`isBreakpoint` and `lookupBPMeta`, so that a table can be replaced in between.
`StepPastBreakpoint` is the second step of `runLoopIter`.  Conditions may hold or
not; hit counts are kept up to `MaxHits`, beyond every target in use.  Several
source lines that map to one address count as one entry of the table, and one
source file stands for all.  `arrived`, `due`, `touched` and `landed` are
history for the properties; `landed` counts at each address how often the engine went
on to the breakpoint check there, whatever the entries count.

*Runs.* `breakpoints` has three settings: the loop with plain breakpoints and
watchpoints at every address and a host predicate; the loop with hit counts and
logpoints in two tables, including the second step; and `RunBudget` with
conditions, hit counts and logpoints.  In each the tables, the watches and the
filter are edited at any moment.  The
graph of four addresses has a loop, a branch, a BRK, an instruction that touches
two watched addresses and a halting self-jump.

`StopsOnNthHit` is about the comparison for equality with a hit target: the count
must be neither behind the landings nor past them, or the breakpoint stops late or
never.  It counts what the entry in force can have counted, so that `landed` starts
anew with a table that is sent again.

Limits of the properties: a log point may stop the loop when it is removed at the
wrong moment, a stale watch hit may stop `RunBudget`, and `StopsAtBreakpoint` and
`StopsOnNthHit` are about instructions reached by a checked step, not by the second
step of an iteration or by a single step.  A landing that a second table's entry
counts, or where the condition does not hold, spends a hit (all in the table
below).  A watch hit that was flagged before the watch table was replaced, and a
breakpoint the engine stands on when a table is edited, are promised nothing.

### NesCpu

The core of the NES variant on a ticking bus, where interrupts, branches and DMA
depend on single cycles.  One action is one bus cycle with what the code does up
to the next: `Cycle` is `busRead`, `write`, `idle` or `stallTick` within an
instruction (`op`, `done`), ending in `EndCycle`, where the devices have moved
their lines, `sampleNMI` moves the latches on and the instruction does its own
changes (`PollAfter`, `FlagAfter`).  Before a read with `needHalt`, `DmaHalt` and
the four cycles of the loop in `ProcessPendingDma` take the bus.  `StepNmi`,
`StepIrq` and `StepInstruction` are the decisions of `Step`; `Reset` is the
host's, with its eight warm-up cycles.

An instruction is its sequence of reads and writes: ten of them stand for the
table, chosen for their lengths (2 to 7) and for what they do to I and to the
latches.  `seen`, `parity` and some fields of `window` are history.

*Assumed about the devices* (external): lines move in any cycle; the APU asks
again only once the last sample was delivered or the abort was taken; stores to
`$4014` are any store.  Cycle counters are kept modulo 2, which is all the code
reads of them here.

*Run.* `nes_cpu` has programs with moving NMI and IRQ lines, with branches, with
OAM and sample transfers in every instruction, and with aborts and resets.  A page
has two bytes (`SpriteBytes`): a copy still has its alignment cycle, an inner and
a last byte, and room for two sample fetches (`MaxFetches`) in between.  An
NMI edge is answered once, within one instruction; a held IRQ likewise; a
handler is not interrupted by an IRQ before it clears I, and its first
instruction always runs; a transfer is not forgotten, and a copy is exact; the
length of a transfer follows from the parity of its first cycle, except during
an interrupt dispatch (next section).

### Interrupts

`Step` of the other three variants at the instruction boundary, together with
the ACIA that drives the IRQ line and the TUI around both.  Each branch of `Step`
is an action (`StepStopped`, `StepAbort`, `StepNmi`, `StepIrq`, `StepHalted`,
`StepInstruction`); `Accessed` is what a register access of the program does to
the ACIA and to the line.  `KeyStep` is `s`, and one step of the sweeps `S`, `n`
and `f`; `KeyRefused` their answer while the CPU is halted; `Tick` one step of the
run loop; `Undo`, `Reset`, `SetPC`, `AssertAbort` and `Type` the commands; and
`HostCall` what a program around the CPU package may call instead.
`told` is history.  The exception filter on BRK is left to `Breakpoints`.

*Runs.* `interrupts` runs each variant in the TUI, and a 65C02 in a host that
drives lines of its own, with two bytes in the queue and one undo entry, so that
the ring drops entries and undo crosses the arrival of a byte.  The line is high
exactly while a device holds it, and no byte waits in the queue unannounced.
The keys that a halted CPU refuses are `KeyRefused` (table below).

### Client, RequestReply

`Client` is `dap.Client` between its callers and the wire.  A call of `Request` is
an element of `Calls` and moves through `Number`, `Register`, `Write` and then
`TakeResponse` or `WaitTimesOut`; `Refuse` and `WriteFails` are its early returns.
Names are distinct from those of `RemoteMirror`, as one proof module, `WireProofs`,
extends both: `at` is where a call stands, `reader` where `readLoop` does.  A channel of
capacity one is `chan[c]`: empty, holding a response, or closed.  `readLoop` looks a
number up and takes it out of the table in one critical section (`LoopRead`), sends
outside of it (`LoopDeliver`), and ends in two steps, the failed read and the
closing of what is pending (`LoopFails`, `LoopEnds`).  The server and the connection
are external: it answers each request under its number when it likes, or hangs up;
`Close` may come at any point.  `early` is history.

`RequestReply` says what a caller may rely on: a call is idle, waiting, answered
or failed, and is answered only with what the server made for it.  The mapping
`Stage` reads a call's place and outcome; the zero `Response` of a closed channel
counts as a failure.

*Fairness* (`ClientFairSpec`).  The goroutine of a call that is inside `Request`, and
`readLoop`, are weakly fair, and the five seconds pass (`WaitTimesOut` is one of the
fair steps, as `time.After` fires whatever others do).  Nothing is asked of the
server, of the connection or of who closes it.

*Run.* `client`: three calls, so that one can time out, one be in hand and one
arrive late at the same time.  The refinement holds; every call returns; when
`readLoop` has ended no call that registered before it sits out the timeout.

### RemoteMirror

Attach mode: the server with its run loop and its access hook, the wire, the
demultiplexer of events, and the TUI with its mirror.  A machine state is a number
(`time`) and a memory; the mirror holds the number its PC and its other registers
were read at, and bytes.  `todo` is the list of requests and waits a TUI handler
has before it (`KeyStep`, `KeyRun`, `PumpStopped`); the head is what it is blocked
in.  Some keys write the mirror and tell the machine nothing: `KeyUndo` is `<`, which
pops what `s` pushed onto the TUI's own `ring` and restores the mirror's registers,
and `KeyEdit` stands for `:pc`, enter in the breakpoint manager and the edits of
memory (`memWrite`).  `dirty` is the bitmap with its bounds, `Marked` the hook, `Spans` the flush.
`TimeOut` leaves the request with the server (`inbox`) and drops the answer.
`lost` and `own` are history: the parts of the mirror that a dropped event or a
timed-out read has left behind, and those the user has written, until they are read
again.

*Run.* `mirror`: two addresses and two values; channels of one event (`EventCap`,
`StoppedCap`, `ExternalCap`), so that each overflows, while two events can be on
their way and overtaken by an answer; two machine steps (`MaxTime`) give a run a write before and after a flush; three keys
(`MaxKeys`) are a run, its pause and a step, two runs and a step, or a step, its
undo and a run; one timeout (`MaxTimeOuts`).  No byte is forgotten; a quiet mirror
is exact but for what was lost and what the user wrote; and the host's own access
hook sees every write.

Left out: breakpoint forwarding, which is a request like `continue` and changes
nothing the mirror shows; a deep `:rewind`, which restores a keyframe into the
mirror and then replays by stepping the *remote* machine forward (table below);
`RemoteSource.StepBack`, which nothing calls; and the pumped `terminated` event,
which ends the program.

### Machine, Cpu6502, Cpu65816, Cores

The instruction set.  A processor is a record with the fields of the `CPU` struct;
each method of the code that changes it is an operator from a processor to a
processor.  `Machine` has bytes, flags and decimal digits, `Cpu6502` the three
8-bit variants with their opcode tables and undocumented instructions, `Cpu65816`
the second interpreter with its widths, banks and modes.  `Cores` executes any
instruction of a variant's table with any operand of a menu, serves interrupts and
resets.  The program is not modelled: any sequence of instructions is a program.
Cycle counts and dummy accesses are left out here (`NesCpu` has those of the 2A03).
Memory is a function on the addresses written, over a fill that tells neighbours
apart.  `Processor` is the type of a processor.  `Cores` assumes what any menu must
satisfy (`CoresAssumption`: instructions with operands their mode can have, a start
with nothing written and an emulated stack on page one) and `Machine` that the fill
consists of bytes (`FillsBytes`).

*Run.* `cores` has three menus.  `each` runs every instruction of every table once
(`Length` 1) from eighteen processors: each 8-bit variant and the emulated 65816
plain, in decimal mode and with flags and page ends set, and native ones of all
four widths, and one whose JSR pushes onto its own operand; operands lie at the ends
of pages and banks.  `moves` is three block
moves, TDC or XCE in a row, at most three bytes each (`MaxBlock`), at the end of a
bank; `modes` three of what changes modes, stack and index registers.  One
instruction is enough for properties of a single step; three are enough to leave a
mode, change a register and come back.  `Decimals` are packed operands with
carries in every digit.

### Tui

The terminal front end in local mode: `Model.Update` one key, command or tick at a
time.  `bps` and `memBPs` are the maps the panels show, `inst` and `data` the tables
of the in-process server, `file` the state file.  Every route that edits is an
action with its own saving and forwarding (`Toggle`, `cmdBP`, `cmdBPMiss`,
`ManagerDelete`, `ManagerEnable`, `cmdMemBP`, `RunTo`, ...), every route that runs
goes through `RunBudget` over what was forwarded (`Tick`, `Burst`) or around it
(`Single`).  `Quit`, `Abandon` and `CrashInSave` are the ways a session ends;
`Restart` the next one, with the older array format, a torn and a newer file.
`runBudget` is the pacing as it is written, in scaled units: an `int64` that wraps
(`Wrap`), Go's division, which truncates toward zero (`Trunc`), and a wall clock
that may step back.  `cmdBP` toggles without modifiers and makes the breakpoint anew
with one, also where the modifier comes to nothing.  `promised`, `passed`, `kept` and
`pace` are history.

*Run.* `tui` has six sessions, each with some of the keys: `Editing`, `RunningTo`,
`Stepping`, `Watching`, `Returning` and `Throttling`.  The walk of three addresses has
a call, its return, a source line and a watched cell.  The time constants keep
their order and are small: a second is 4 units, 6 frames and 3 bursts in it, so
that speeds lie below a frame's worth, between, and above; `MaxElapsed = 5` is
longer than a second, and the clock may step back by as much; an `int64` ends at
`Word = 128`, which the speed 40 passes in four units of time and the others never;
and `MaxCalls = 4` throttled ticks since the speed was set are enough to be capped,
owe, pay back and be capped again.  Views, watches,
search and completion are layout; undo and rewind are in `Rewind`.

Limits of the properties, all from code that behaves otherwise (table below):
`ShownBreakpointsStop` promises nothing for a manager's edit until the next `r`, `S`,
`n` or `f`, nor for the watchpoints of `:run`; `RestartRestores` leaves out address
zero and a crash within a save; `PaceKept` lets each tick drop a fraction (or, where
the clock stepped back, gain one) and ends with the first overflow of `runBudget`'s
product or sum.

## Disagreements seen while modelling

One is a run that TLC must find violated (`session_blocked`, with a finding in
`PROJECT.json`): disconnect holds the mutex that the run loop it waits for needs
(`dap/server.go:512`).  The others were seen in the same models, which keep the
behaviour that shows them; the properties that hold state where they stop.

### Session, breakpoints, undo, CPU boundary

| where | the code | a doc or comment says |
|---|---|---|
| `dap/steps.go:110` | `stopped` goes out before `running` is cleared, so the continue an editor sends in answer may be refused | "the goroutine emits the `stopped` event when it exits" (steps.go:20) |
| `dap/memory.go:266` | handlers that do not go through `requireStopped` run beside the run loop, without a mutex in launch mode | "no other handler runs while running=true" (steps.go:76) |
| `internal/tui/model.go:827` | `<`, `R` and `:rewind` do not take `CPUMu` | "The TUI takes the mutex around every CPU / RAM / peripheral mutation" (model.go:308) |
| `dap/steps.go:82` | the run loop installs and removes its access hook outside of `cpuMu`, while a TUI step may be reading it | "serializes this step with a concurrent DAP server" (model.go:1082) |
| `dap/attach.go:121` | every attach fires `OnAttached`, one `OnDisconnected` answers them all | "OnAttached fires once" (attach.go:39) |
| `dap/server.go:213` | at end of file the host is told to resume while a run loop is live | "the only CPU stepper is the server's `continue` runLoop" (attach.go:41) |
| `dap/server.go:219` | `ReadMessage` wraps `io.EOF`, so Serve returns every end of file as an error | "Returns nil on a clean shutdown" (server.go:210) |
| `internal/tui/rewind_deep.go:66` | a key typed after the keyframe is missing from the replay | "buffered input replays correctly" (README.md:530) |
| `cpu/snapshot.go:51` | `stoppedBySTP` is not in a snapshot: after undoing an STP nothing runs | "captures the architectural and bookkeeping state" (snapshot.go:3) |
| `internal/tui/model.go:1123` | a step index reached again pushes a second keyframe, so `Oldest` may not be the lowest | "ordered by ascending step" (keyframe.go:52) |
| `dap/steps.go:83` | `running` is cleared before the channel is closed, so a disconnect in between finds nothing to wait for; a continue in between starts a run whose channel the old loop then closes, and a disconnect handled after that returns while the new loop lives | "Tears down the run goroutine" (docs/dap.md:117), "closed by the run loop on exit so other handlers can wait for it" (server.go:84) |
| `dap/steps.go:86` | after such a continue the new loop closes its channel a second time at its end: a panic, and the process dies, the host's with it | the same lines; `panicked` in `DapSession` |
| `internal/tui/model.go:838` | `<` and DAP `stepBack` each have a ring over one memory; a delta taken by one is missing from the other | "kept in a 256-entry FIFO ring" (README.md:514): one history |
| `dap/steps.go:331` | the second step is not preceded by the BRK filter, nor by the breakpoint test of the instruction it reaches | "before each `cpu.Step()`" (docs/dap.md), and steps.go:74 |
| `internal/tui/model.go:787` | the step keys are refused while a WAI waits, so no key can reach its wake-up | "WAI halts until any IRQ/NMI" (docs/context.md:284) |
| `dap/steps.go:237` | of two watched addresses one instruction touches, the last one decides alone | "the run stops with reason `data breakpoint`" (docs/dap.md) |
| `dap/steps.go:137` | `RunBudget` clears a pending watch hit only when a watchpoint is set | "flagged a watched read/write during the step" (steps.go:161) |
| `dap/steps.go:317` | a logpoint removed between `isBreakpoint` and `lookupBPMeta` stops the loop | "log + continue instead of pause" (bpmeta.go:22) |
| `dap/bpmeta.go:70` | only landings of checked steps on the entry that wins its address are counted: not those while another table's entry was in front, nor before the table was sent again, nor by single steps or the second step of an iteration | "fire on 5th hit" (bpmeta.go:43) |
| `dap/bpmeta.go:74` | a condition that is false at the Nth landing spends the hit target: the breakpoint never fires again | as above |
| `dap/breakpoints.go:168` | a modifier in one table takes away a plain breakpoint of another | "nil meta means plain bp - stop unconditionally" (bpmeta.go:12) |
| `cpu/dma.go:104` | an interrupt dispatch leaves `instrCycles` at the length of the last instruction; after an odd one, a transfer within the dispatch takes get cycles for put cycles | "getCycle must match its true parity" (dma.go:100) |
| `cpu/dma.go:107` | an abort that is pending when the sample read is due is noticed after the choice of the read: the sample is still delivered | "dropping dmcDmaRunning before issuing the read" (cpu.go:281) |
| `cpu/snapshot.go:68` | undo restores the line but not `irqSources` nor `abortPending` | "captures the architectural and bookkeeping state" (snapshot.go:3) |
| `internal/tui/prompt.go:263` | `:pc` clears `Halted` but not the STP latch: the CPU shows as running and never steps | "the only way out is c.Reset()" (exec.go:19) |
| `peripheral/acia.go:145` | a programmed reset clears COMMAND bit 1, which enables receiver interrupts | "programmed reset (clears IRQ enables + IRQ)" (acia.go:144) |
| `dap/databreakpoints.go:83` | the watch table changes under a live run's hook | "only mutated by setDataBreakpoints while the run loop is stopped" (steps.go:231) |

### Client and mirror

| where | the code | a doc or comment says, or one would expect |
|---|---|---|
| `dap/client.go:225` | a request pending when the read fails returns a zero `Response` and no error | "so callers see an actionable message" (client.go:49) |
| `dap/client.go:225` | a request registered after `readLoop` ended waits its five seconds | "Wake all pending requesters so they don't hang" (client.go:233) |
| `internal/tui/source_remote.go:334` | any buffered stop answers a step, also one of a run before it | "synchronization of a single stepIn" (source_remote.go:122) |
| `internal/tui/dap_attach.go` | the `stopped` of a step, handled after `r`, clears `Running` while the server runs | `Running` says whether the machine runs |
| `internal/tui/model.go:792` | a continue that is refused because `running` is not cleared yet leaves the TUI running | as above |
| `dap/steps.go:110` | a step in the same window is refused and waits five seconds for its stop | "the goroutine emits the `stopped` event when it exits" (steps.go:20) |
| `internal/tui/model.go:827` | in attach mode `<` sends nothing: it restores the registers of the mirror, and after `s`, `<` the panels show a state the machine has left; `RemoteSource.StepBack` (source_remote.go:170) has no caller | "those panels see a consistent post-operation state" (source_remote.go:32) |
| `internal/tui/prompt.go:262`, `711`, `model.go:1434` | so do `:pc`, edits of memory and enter in the breakpoint manager: the machine keeps its PC and its bytes, and the next refresh takes the edit back | as above |
| `internal/tui/rewind_deep.go:87` | in attach mode a deep `:rewind` restores a keyframe into the mirror and replays with `Source.Step`, which steps the remote machine forward | "advances one step during forward replay" (rewind_deep.go:80) |
| `internal/tui/source_remote.go:217` | `RunBudget` does nothing in attach mode: `S`, `f` and a step over a JSR execute no instruction, and `S` reports "stepped x16" | `R` is refused there "rather than silently doing nothing" (source_remote.go:163) |
| `dap/client.go` | a full event channel drops a `stopped` for good | a run that ended is noticed |
| `dap/steps.go:245` | a hook saved by one session is put back by it, also over one installed later | "restore the prior hook afterward" (access.go:46) |
| `dap/steps.go:275` | `End` is a `uint16`: a span up to `$FFFF` ends at 0 | "half-open [Start, End)" (steps.go:250) |

### Instructions

| where | the code | a doc or comment says |
|---|---|---|
| `cpu/ctrl816.go:288` | MVN and MVP count through 16-bit index registers and leave high bytes in narrow ones | narrow index registers have no high byte (exec816.go, `applyWidthTruncation`) |
| `cpu/cpu.go:332` | a reset sets P to U (which is M) and I, not X: CLC and XCE at once enter native mode with 16-bit index registers beside an 8-bit accumulator | "M/X forced 1" (cpu.go:335) |
| `cpu/exec816.go:944` | JSR reads all of its operand before it pushes, also in emulation mode; the 65C02's sees its last byte overwritten (exec.go:437) | "stack/operand overlap quirk" (exec.go:442), which `PushesOntoItself` sets apart |
| `cpu/addr816.go:101` | pointers of `(dp)` and `[dp]` increment flat, also in emulation mode | "pointer fetches wrap within page $00xx" (addr816.go:14) |
| `cpu/ctrl816.go:35` | JSL and PHD near SP 0 in emulation mode leave page one and are not undone by their pulls | as the silicon, which `OffPage` sets apart |
| `cpu/snapshot.go:27` | no B, high bytes, D, DBR, PBR, E, and no memory above bank 0 | "captures the architectural and bookkeeping state" (snapshot.go:3) |
| `cpu/opcodes_illegal.go:58` | ISC, RRA and ARR take the decimal path on the 2A03 too | "FlagD toggles but has no effect" (exec.go:260) |
| `cpu/opcodes_illegal.go:25` | the unstable opcodes are decoded with their lengths and effects | "remain decoded as plain NOPs" |
| `cpu/opcodes_w65816.go:12` | all of the list is modelled by the second interpreter | "NOT yet modeled" |

### Terminal front end

| where | the code | a doc or comment says, or one would expect |
|---|---|---|
| `internal/tui/model.go:1183` | a log point on an instruction is forwarded without its message and pauses a local run | "prints, never pauses" (README.md:310) |
| `internal/tui/bp.go` | a one-shot that fired stays in the panel and is armed again by each `r` | "deletes itself on hit" (README.md:307) |
| `internal/tui/bp.go:22` | only the Nth hit stops | "break on/after Nth hit" |
| `internal/tui/prompt.go:278` | `:run` replaces the breakpoint at its target, forwards no watchpoint and saves nothing | "the current breakpoint + watchpoint sets" are what `r` forwards (model.go:806) |
| `internal/tui/model.go` | `-run-on-start` begins a run without forwarding what was loaded | "at the start of every run path" (model.go:1225) |
| `internal/tui/model.go:1183` | every forwarding clears all hit counters | a hit count counts hits |
| `internal/tui/model.go:1403`, `prompt.go:468` | edits in the manager and of watchpoints do not reach a run that is on | as `b` and `:bp` do |
| `internal/tui/state.go:88` | rejected breakpoints are kept under a key of their own with address 0, and come back under `$0000` | "Persists per-ROM session state" (docs/state-format.md) |
| `internal/tui/state.go` | a condition rejected once at load stays rejected in later sessions; a watchpoint whose condition does not compile is shown as any other | as above |
| `internal/tui/state.go:64` | a newer file is skipped and then overwritten at the next save | "older chippy must not corrupt a newer file" (state.go:17) |
| `internal/tui/state.go:206` | `os.WriteFile` truncates first: a kill in between leaves a torn file | as above |
| `internal/tui/model.go:1334` | `int64(TargetHz) * elapsed` overflows after 922 s between two ticks at 10 MHz, which a pause is enough for, and after seconds at a `:speed` in the billions: the debt goes far below zero, and ticks get no steps for about as long again or until the speed is changed | "returns how many CPU steps to execute this tick" (model.go:1322) |
| `internal/tui/model.go:1332` | `elapsed` is a difference of wall-clock times: a clock set back gives no steps until it has caught up | as above |
| `internal/tui/model.go:1328` | `lastRunNS` is not reset by a pause: the pause is owed after it | the speed is steps in a second |
| `internal/tui/model.go:1334` | the division drops fractions: at 60 ticks a second, speeds below 60 or so never advance | as above |
| `internal/tui/model.go:1323` | the budget counts instructions | "usage: :speed <Hz>" (prompt.go:438) |
| `internal/tui/model.go:1264` | the step over a recursive JSR stops at the return of an inner call | "run until we return" (model.go:1263) |
| `internal/tui/model.go:658`, `1438`, `console.go:34`, `syms.go:95` | ctrl+c in a panel saves nothing; in the main view it does | - |

## What is proved

For every value of the constants that satisfies the assumptions in the modules:

| theorem | says |
|---|---|
| `UndoProofs!RingTyped`, `PopsArePushed` | index and count stay in range; no fresh slot is popped |
| `UndoProofs!RingImplementsHistory` | the circular array implements the bounded stack |
| `UndoProofs!RewindTypeCorrect` | type correctness |
| `UndoProofs!ReplayIsBounded` | a deep rewind replays less than an interval |
| `UndoProofs!KeyframesAreOfTheTimeline` | one debugger: no rewind starts from an abandoned timeline |
| `UndoProofs!UndoIsExact`, `StepBackIsExact` | one debugger, nothing changed that a snapshot leaves out: undo is exact |
| `UndoProofs!RewindsLand` | the same: `:rewind` lands in a state of this run |
| `DapSessionProofs!SessionTyped` | type correctness |
| `DapSessionProofs!AtMostOneRun` | never two live run loops |
| `DapSessionProofs!StepsAloneWithServer` | no step handler beside a live run loop |
| `DapSessionProofs!MachineExclusive` | with a mutex, the steppers take turns |
| `DapSessionProofs!NoRunIsLeft` | no run overtaken: nothing is closed twice, and after a disconnect no run loop is left |
| `DapSessionProofs!DetachFiresOnce` | `OnDisconnected` once, after an attach, never forgotten |
| `WireProofs!ClientTyped` | type correctness |
| `WireProofs!ClientKeepsPromise` | the client implements request and reply, for any number of calls |
| `WireProofs!LostConnectionWakesAll` | a lost connection wakes every call that had registered |
| `InterruptsProofs!InterruptsTyped` | type correctness |
| `InterruptsProofs!LineAgrees` | the CPU's line is what the ACIA and the host drive |
| `InterruptsProofs!NoByteWaitsInSilence` | a waiting byte is announced |
| `NesCpuProofs!EveryNmiHasItsEdge` | a dispatcher is entered only for an unanswered NMI edge |
| `NesCpuProofs!NmisAreAnswered`, `IrqsAreAnswered` | at most one whole instruction begins first |
| `NesCpuProofs!HandlersAreMasked` | no IRQ nests before the handler clears I |
| `NesCpuProofs!HandlersBegin` | a handler's first instruction runs |
| `NesCpuProofs!CoreTyped` | type correctness |
| `NesCpuProofs!NoTransferForgotten` | a requested transfer is carried out or cancelled |
| `NesCpuProofs!CopyIsExact` | a sprite copy of any length is exact |
| `NesCpuProofs!StealFollowsClock` | the length of a transfer follows from its first cycle |
| `BreakpointsProofs!TypeCorrect` | type correctness |
| `BreakpointsProofs!BreakpointsStop`, `WatchpointsStop` | nothing unmodified is run through, in either engine |
| `BreakpointsProofs!WatchStopsReal` | a data breakpoint stop names an address the run touched |
| `BreakpointsProofs!NthHitStops` | a hit target of N stops at the Nth landing, and at no other |
| `WireProofs!MirrorTyped` | type correctness |
| `WireProofs!HostHookComplete` | the host's access hook sees every access |
| `WireProofs!NoneForgotten` | a byte the mirror has wrong was lost, is coming, or was edited there |
| `WireProofs!QuietMirror` | at rest the mirror is exact but for what was lost and what the user wrote |
| `CoresProofs!CoresInvariant` | type correctness: every register and byte keeps its width |
| `CoresProofs!PageIsLocked` | an emulated stack never leaves page one |
| `CoresProofs!NarrowIndexesAreClear` | narrow index registers have no high byte, but for block moves |
| `CoresProofs!DecimalNumbers` | decimal arithmetic is that of decimal numbers |
| `CoresProofs!StackIsUndone` | RTI, RTS, RTL and every pull undo what they return from |
| `CoresProofs!EmulationAgrees` | an emulated 65816 does what a 65C02 does, where they have an instruction in common |
| `TuiProofs!PromisesKept` | no run goes past what the panels promised |
| `TuiProofs!PaceHolds` | a throttled run is given or owed what is due, until the first overflow |
| `TuiProofs!EditsSurvive` | the next session shows what the last edit left |

*The ring.*  Types and "used slots were pushed" are inductive together.  The
refinement needs, for each action, how the used slots before and after
correspond; lemmas state the modular arithmetic of `SlotOf` once (the slot of a
new entry is `head`, entries keep their slots, a full ring's oldest entry is the
one overwritten).

*Undo and rewind.*  A snapshot's pages are exact when it is pushed; they have to
be when it is popped, many steps later.  `Chain` says that the snapshots of a ring
can be undone one after the other: each has every page in which the machine it was
taken of differs from the one the later snapshots lead back to, but for pages the
user edited since.  Steps and sweeps lengthen a chain (`ChainPush`, `SweepCovered`),
undo shortens it, eviction keeps its end (`ChainNewest`).  For keyframes there are
two statements.  `Placed` is about indices alone: keyframes are at multiples of the
interval and behind each that is an interval back or more is the next; it gives
`ReplayBounded`.  `OfTimeline` says that a keyframe no later one shadows is a state
of this timeline, which is what `Nearest` picks.  Where no key is typed the timeline
is one run of `Program` (`IsTimeline`), so a replay from a keyframe of it is that run
again.  Replays, unwinding and sweeps of any length are followed step by step with
`Climb` (below).

Types and `ReplayBounded` are proved for every host.  The rest needs hypotheses,
which the theorems state and the settings of `rewind` satisfy.  `OneDebugger`: a host
has the TUI's ring or the server's, as two rings over one RAM do not undo exactly.
`Recorded`, for the three theorems about whole machines: the run has not changed what
a snapshot leaves out (`hidden`), as no undo brings that back.  Both are behaviours of
the code, listed above at `internal/tui/model.go:838` and `cpu/snapshot.go:51`.  Beside
them the proofs use `RewindAssumption`.

*The session.*  `OneLiveRun` is not inductive: one has to know that a loop that
is live is the last one spawned, that `running` holds while one is live or about
to be spawned, and that a loop may be past clearing `running` but not past the
close.  `IInv == TypeOK /\ RunsBounded /\ Control` adds this and, for the mutex,
which place of which goroutine holds it.  The proof that a step keeps it has one
lemma per action.  Everything rests on `SessionAssumption` alone.

`NoRunIsLeft` is the safety half of `DisconnectCompletes`.  `Teardown` makes it
inductive: the channel is the one of the last run, and only that run may be live; while
no run was overtaken, a closed channel is that of a loop that is gone, so that a
disconnect past its wait has no loop left beside it; and once the session has
terminated, Serve reads no request that could start one.  `Overtaken` stays true once
it is, so that each step may assume it false.

*The client.*  That an answer is one's own is a property of the return, but it is
decided where the number is drawn.  `ClientInv` says that no two calls share a number
(`Numbers`), that the table leads from a number to the call that has it (`Table`),
that what is on the wire carries the number of the call it was made for (`Wire`),
and that so does what is in a channel, in `readLoop`'s hand or returned
(`Delivered`).  The refinement then has one lemma for the steps of a call, one for
the server and one for the rest; all but the first and the last step of a call
are stutters.  For the waking, `Reachable` adds that a call that registered in time
has something to take, or is in the table, or is the one `readLoop` is about to
hand its answer.  Both rest on `CallsAssumption` (no call is named like a failure),
which only keeps the outcomes apart.

*The interrupts.*  That line and flag agree is not inductive because undo writes
the one and the other from a snapshot, and because the set of sources is not in
a snapshot.  `IInv` adds that every entry of the ring has its line equal to its
ACIA flag, that the set of sources tracks the flag wherever nothing is undone,
and that a source other than the ACIA exists only in a host.  Lemmas state it for
one access to the ACIA; the steps of the CPU and of the TUI follow from them.
`AInv` does the same for waiting bytes.  The proofs use `InterruptsAssumption`; its
conjunct that undo and a second source do not occur together is how chippy wires
the TUI (`cmd/chippy/main.go:131`), and without it `LineFollowsDevices` is false.

*The NES latches.*  Each property speaks of an instruction boundary, but what
makes it true happens cycles before it.  `IInv` says where every latch may be in
every cycle of every operation: `nmiPending` is the unanswered edge
(`NmiLatches`); after an instruction has begun with an edge unanswered, the latch
has reached `nmiPollPrev` after its first cycle and `nmiDue` after its second, and
every instruction has two (`NmiOnItsWay`, and `IrqOnItsWay` for a held line, where
a taken branch rolls back only a latch that came up in that cycle); a dispatch has
I set for its last two cycles (`InDispatch`), so the latches drain before the
handler (`Masked`).  `EndCycleEffect` states what one cycle does to the latches,
`EffectKeepsInvariant` that this keeps `IInv` for a cycle of the CPU and for one
that a DMA takes; the actions follow.

*The NES transfers.*  The properties speak of the end of a DMA window; `DmaInv`
says how the cycles lead to it.  Whatever was asked for waits behind a halt or is
in the window (`Requested`); after `c` cycles of a copy `c \div 2` bytes are in OAM
and the next address is read or about to be (`Copied`); the cycle counter lags
behind the true parity by the cycles of the instruction that runs, and by nothing
a window adds (`Clocked`), except in a dispatch, which is why the length of a
window is only known outside of one; and the length so far follows from the
sprite counter, the flags and the first cycle (`Timed`, a case for a sample alone
and one for a page alone).  `DmaInv` needs `IInv` (where an operation is, and how
long it is), so both are proved together.  Neither bounds the page nor the number
of requests in a window; all proofs use `NesAssumption` only.

*Breakpoints.*  That the loop checked an instruction says nothing by itself, as
the tables may be replaced at any moment; what holds is that where an instruction
is about to execute (`place` is `top` or `second`), was reached by a step that
checked it, and no table has changed since (`arrived`, which an edit resets), it is
no unmodified breakpoint (`ChecksDone`), and that a flagged plain watchpoint is
looked at before anything else (`DueIsPending`).  A stop is real because a pending hit the loop may still see
was flagged by this run (`PendingIsReal`), which rests on its being cleared when the
run starts.  Which of several hits of an instruction is reported, and which of three
tables wins an address, are choices of a last position: `LastExists` and
`WinnerIsSet` state them once.  The proofs use `BreakpointsAssumption`.

For hit targets, `LandingsCounted` says that the entry in force has counted the
landings, the one at hand apart if the engine has still to look it up, and `NthDone`
that where an instruction with a hit target alone is about to execute, its Nth
landing is not the one at hand.  Neither follows from the comparison in
`shouldFireBP`: what matters is that each landing is counted once, by the entry the
comparison is made with.

*The mirror.*  `QuietMirrorIsExact` is about rest, and `NoByteForgotten` about what
the mirror shows; neither is inductive, as an event in a queue may itself be out
of date.  `FollowInv` therefore says the same of everything that will overwrite
the mirror: what it shows, what an answer holds (`AnswerFollows`) and what each event
on the way says (`EventsFollow`) is the state of the machine, or was lost, or something
*behind it* puts it right - a `stopped` event, a later report of that byte, or the
next flush of the dirty bitmap, whose bounds contain its marks.  What the mirror
shows may also be the user's own (`own`), until an answer or an event overwrites it.  It is the order
of the queues that carries the argument: the lemmas on `OnTheWay` say what
appending, dropping and taking an event does to "behind".  `ShapeInv` has the rest:
what may be left in `todo`, that there is one answer and to the request waited for,
and that the run's hook lies over the host's exactly while a run lives.  The proofs
use `BoundsAssumption`; all capacities may be zero.

*The processors.*  Here a step is one large function, so the proof is about
operators: for each group of instructions a lemma relates the processor it returns to
the one it was given.  Four relations serve the invariant.  `Typed` is type
correctness; `Calm` says besides that mode, widths and the page of the stack are as
they were, which holds of all but a few instructions; `Even` lets the stack leave its
page, which holds between the pushes of a JSL and `spReforce`; `Lawful` lets the mode
change and keeps only what has to hold afterwards, a locked page and clear index
registers.  They compose (`CalmIsTransitive`, `EvenIsLawful`, ...), so that an
instruction is the chain of its helpers, and the tables of opcodes put the groups
together (`OpcodeModes`, `OpcodeModes816`).  Operands matter: an operator is only
typed on operands its mode can have, which is what `Operands` says.  The inductive
invariant, `CoresInv`, is types and `StackPageLocked`.  Block moves are a recursive
function; that it is one is shown by building it step by step (`Repetition`).

Decimal arithmetic is exact digit by digit: `CarriedDigit` and `BorrowedDigit` say
that the code's comparison with 9 and its correction by 6 keep a digit and carry,
`DecimalSums` and `DecimalDiffs` that digits and carries add up to the numbers, and
`WideSum`, `NarrowSum` and their like follow the code through its partial sums, in which
the digits already done are carried along.  Each of the three routines (adcDecimal,
adcDecimalCMOS, adcDecimal816, and their subtractions) is tied to them.

That the stack is undone relates two steps.  `Slot(c, n)` is the address n above the
stack pointer, with the page wrapped in emulation mode and the bank in native mode;
`StackAt(c, d, n)` says that d's pointer is c's moved by n.  A push fills one slot and
no other (`StackPushed`, from `SlotsDiffer`), so what an interrupt pushed is its frame
(`Framed`) and RTI, which finds the slots by the same arithmetic, takes it back
(`RtiReturns`); between the two lies one fetch, which changes PC alone.  Pulls and
returns go the same way (`Restored`).  The five instructions that move SP as sixteen
bits in emulation mode do what the others do while they stay on page one
(`MovesAlike`), which is the case `OffPage` leaves.  JSR with an index, whose push
comes between the bytes of its operand, returns because the pushed address is
computed from PC and not from what was fetched.  The proofs use `CoresAssumption` and
`FillsBytes`.

That emulation mode is a 65C02 compares two interpreters.  `Twin(c, d)` says that an
emulated 65816 with its banks and direct page at 0 and a 65C02 hold the same registers,
flags and memory, M and X apart, which the 65816 always has set and the 65C02 lacks.
Each pair of operators that execute the same instruction keeps twins twins: the 65816's
at widths of eight bits (`TwinAdc`, `TwinCompare`, `TwinRegister`, ...), on addresses that
are the same as long as no pointer ends page 0 and no index leaves the bank (`TwinAddress`).
Where the two cores do things in a different order, a lemma says that the order does not
matter: flags before or after the store of a read-modify-write (`FlagsThenStore`), and A
loaded twice by a decimal subtraction (`LoadedAgain`).  `Dispatch6502` and `Dispatch816` say
which operator executes an instruction, `TwinExec` goes through those in both tables, and
`TwinStarts` makes the twin from `PageLocked`, which `CoresInv` has.

Proving these found one thing the run had not: where JSR pushes onto its own operand the
emulated 65816 and the 65C02 differ.  The run has that processor now, and
`EmulationIsA65C02` names the exception, which the proof needs in `TwinJsr` alone.

*The front end.*  Promises are kept because they are in the tables the server runs
with (`PromisesInTables`): each forwarding makes them anew, each edit that does not
forward withdraws what it changes.  That a run stops at them needs the walk of a
run as a function (`WalkExists`, `WalkStays`) and that it ends at the first stop.
`KeptIsFiled` says that the file holds what the last edit left or that this was
loaded from it, so that another session loads the same: loading and saving are
inverse but for rejected breakpoints (`Keyed`, which is what a file can hold).
`PaceKept` needs to know that nothing is owed before the first tick of a speed
(`FreshPace`), and bounds on the quotients of `runBudget`: `WrapIsInt` that wrapping
gives an integer, `TruncDrops` what a division toward zero drops of either sign, and
`Fits` that nothing wrapped, which is `pace.exact`; `PaceStep` then adds up one tick
for any speed and time.  The proofs use `TuiAssumption`: what the commands may
name, that saved files are files `saveState` writes, that there are presets, and that
the marks for no file and no breakpoint are neither.

*Only model-checked.*  Liveness under fairness, and `ENABLED`: out of the prover's
reach.

Induction over data is out of reach too, as the library's induction theorems take an
operator as parameter.  Where a proof needs a little of it (a last position, a walk
of n steps, a block of n bytes) it takes the least counterexample of a set of naturals instead
(`LastExists` in `BreakpointsProofs`, `LeastExists` in `TuiProofs`, `Climb` in
`UndoProofs` and `CoresProofs`: a set of positions that holds the first and with each the next holds
them all).  The type invariants of modules with proofs are proved and not run;
those of the others document the state.

## Not modelled

- *Two sessions over one CPU* (`internal/tui/dap_attach.go:76`): every accepted
  connection is a server of its own, with its own `running`, its own ring and its
  own saved access hook, and nothing keeps two of them apart but the mutex.  The
  code states no rule there to check.  The same holds for handlers that do not ask
  whether the machine runs (`dap/memory.go:266`), for the continue sent between the
  `stopped` event and the clean-up (`dap/steps.go:110`, in `DapSession` and
  `RemoteMirror` as behaviour), and for the fold of three tables into one
  (`dap/breakpoints.go:168`, in `Breakpoints` as behaviour).  They are real hazards
  that no property covers.
- *Bus, MMIO, tickers, statistics, freezing*: routing by address range, a table of
  frozen bytes and counters are sequential lookups that unit tests reach.  Where
  their order matters they are part of a model: tickers as the devices' cycles of
  `NesCpu`, the access hook in `RemoteMirror`.
- *Keyboard and text output, the ACIA's transmit side*: a latch and an append-only
  buffer.  The latch is in `Rewind` as far as replay reads it.
- *Trace log and replay*: text written and parsed line by line, and a cursor that
  one key moves.
- *Expressions, symbols, loader*: pure parsing and lookup of text and files.  A
  condition is a choice wherever it is used.
- *Prompt history, completion, search, watches, views, rendering, disassembly,
  the DAP requests that only present*: layout.  What these requests do to a session
  is `inspect` of `DapSession`.
- *Launcher, WebAssembly shell, web page, editor extension*: process start and glue.
- *Cycle counts* of the NMOS, 65C02 and 65816, which the repository checks against
  recorded vectors; `NesCpu` has those of the 2A03, on a bus with a ticker.
