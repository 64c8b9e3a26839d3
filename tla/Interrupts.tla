------------------------------ MODULE Interrupts ------------------------------
(***************************************************************************)
(* Interrupts of the debugger's own CPUs (NMOS, 65C02, 65816): Step at the *)
(* instruction boundary, the 6551 ACIA that raises the IRQ line, and the   *)
(* TUI whose keys step, undo, reset and type into the ACIA.  The NES core, *)
(* which decides from poll latches instead, is NesCpu.                     *)
(*                                                                         *)
(* An instruction is known by what it does to interrupts: a change of I,   *)
(* WAI, STP, a jump to itself, or an access to one of the ACIA registers.  *)
(***************************************************************************)
EXTENDS Naturals, Sequences

CONSTANTS
  Settings,   \* CPU variant, program and surroundings, see Setting
  MaxQueue,   \* bound: received bytes waiting in the ACIA
  MaxUndo     \* capacity of the undo ring; 256 in the code

Instructions == {"plain", "brk", "cli", "sei", "pull", "wai", "stp", "self",
                 "readData", "readStatus", "writeStatus", "enableRx",
                 "disableRx"}

(* undo: the user steps back; host: a program around the CPU package calls *)
(* TriggerNMI and AssertIRQ as well.  In the TUI the ACIA is the only      *)
(* source.                                                                 *)
Setting == [variant : {"nmos", "cmos", "65816"}, undo : BOOLEAN,
            host : BOOLEAN, ops : SUBSET Instructions]

ASSUME InterruptsAssumption ==
  /\ Settings \subseteq Setting
  /\ \A s \in Settings : s.variant = "nmos" => s.ops \cap {"wai", "stp"} = {}
  /\ \A s \in Settings : ~(s.undo /\ s.host)
  /\ MaxQueue \in Nat \ {0} /\ MaxUndo \in Nat \ {0}

VARIABLES
  setting,   \* never changes
  cpu,       \* FlagI, Halted, stoppedBySTP, the lines and latches
  acia,      \* rxq, rxIRQEnabled, irqFlag
  undo,      \* the TUI's ring: what Snapshot and captureperipherals keep
  running,   \* Model.Running
  refused,   \* the last key was answered with "halted (press R to reset)"
  told       \* history: the program asked for STATUS since the last byte
             \* came, or gave the queue up

vars == <<setting, cpu, acia, undo, running, refused, told>>

Sources == {"acia", ""}      \* "": AssertIRQ without a name
Cpu  == [iFlag : BOOLEAN, halted : BOOLEAN, stopped : BOOLEAN,
         irqLine : BOOLEAN, irqSources : SUBSET Sources,
         nmiPending : BOOLEAN, abortPending : BOOLEAN]
Acia == [rxq : 0 .. MaxQueue, rxEnabled : BOOLEAN, irqFlag : BOOLEAN]
Entry == [iFlag : BOOLEAN, halted : BOOLEAN, irqLine : BOOLEAN,
          nmiPending : BOOLEAN, acia : Acia, told : BOOLEAN]

TypeOK ==
  /\ setting \in Settings
  /\ cpu \in Cpu /\ acia \in Acia
  /\ undo \in Seq(Entry) /\ Len(undo) <= MaxUndo
  /\ {running, refused, told} \subseteq BOOLEAN

(* NewACIA leaves COMMAND zero, which enables receiver interrupts.         *)
Init ==
  /\ setting \in Settings
  /\ cpu = [iFlag |-> TRUE, halted |-> FALSE, stopped |-> FALSE,
            irqLine |-> FALSE, irqSources |-> {}, nmiPending |-> FALSE,
            abortPending |-> FALSE]
  /\ acia = [rxq |-> 0, rxEnabled |-> TRUE, irqFlag |-> FALSE]
  /\ undo = <<>> /\ running = FALSE /\ refused = FALSE /\ told = FALSE

(***************************************************************************)
(* The line and the ACIA                                                   *)
(***************************************************************************)
AssertIRQSource(c, s) ==
  [c EXCEPT !.irqSources = @ \cup {s}, !.irqLine = TRUE]
ClearIRQSource(c, s) ==
  [c EXCEPT !.irqSources = @ \ {s}, !.irqLine = (c.irqSources \ {s}) # {}]

(* The two devices' halves of an access go together: [acia, cpu].          *)
ClearIRQ(a, c) ==
  IF a.irqFlag
  THEN [acia |-> [a EXCEPT !.irqFlag = FALSE], cpu |-> ClearIRQSource(c, "acia")]
  ELSE [acia |-> a, cpu |-> c]
RaiseRX(a, c) ==
  [acia |-> [a EXCEPT !.irqFlag = TRUE], cpu |-> AssertIRQSource(c, "acia")]

Received(a, c) ==
  LET queued == [a EXCEPT !.rxq = @ + 1]
  IN  IF a.rxEnabled THEN RaiseRX(queued, c) ELSE [acia |-> queued, cpu |-> c]

(* A plausible slip: the line is let go with bytes still in the queue. *)
DataReadLetsGo(a, c) ==
  ClearIRQ([a EXCEPT !.rxq = IF @ > 0 THEN @ - 1 ELSE 0], c)
DataRead(a, c) ==
  LET taken == [a EXCEPT !.rxq = IF @ > 0 THEN @ - 1 ELSE 0]
  IN  IF taken.rxq = 0 THEN ClearIRQ(taken, c) ELSE [acia |-> taken, cpu |-> c]

(* COMMAND bit 1 is clear in "enableRx" and set in "disableRx"; writing    *)
(* STATUS clears it.                                                       *)
Accessed(i, a, c) ==
  CASE i = "readData"    -> DataRead(a, c)
    [] i = "readStatus"  -> ClearIRQ(a, c)
    [] i = "writeStatus" -> ClearIRQ([a EXCEPT !.rxEnabled = TRUE], c)
    [] i = "enableRx"    ->
         IF a.rxq > 0 THEN RaiseRX([a EXCEPT !.rxEnabled = TRUE], c)
         ELSE [acia |-> [a EXCEPT !.rxEnabled = TRUE], cpu |-> c]
    [] i = "disableRx"   -> ClearIRQ([a EXCEPT !.rxEnabled = FALSE], c)
    [] OTHER             -> [acia |-> a, cpu |-> c]

(***************************************************************************)
(* Step                                                                    *)
(***************************************************************************)
(* What runs after the masked IRQ has woken a WAI.                         *)
Woken == [cpu EXCEPT !.halted =
            @ /\ ~(cpu.irqLine /\ cpu.iFlag /\ ~cpu.nmiPending)]
Dispatched(c) == [c EXCEPT !.halted = FALSE, !.iFlag = TRUE]

Live == ~cpu.stopped
StepStopped == cpu.stopped /\ UNCHANGED <<cpu, acia, told>>
StepAbort ==
  /\ Live /\ cpu.abortPending
  /\ cpu' = Dispatched([Woken EXCEPT !.abortPending = FALSE])
  /\ UNCHANGED <<acia, told>>
StepNmi ==
  /\ Live /\ ~cpu.abortPending /\ cpu.nmiPending
  /\ cpu' = Dispatched([Woken EXCEPT !.nmiPending = FALSE])
  /\ UNCHANGED <<acia, told>>
StepIrq ==
  /\ Live /\ ~cpu.abortPending /\ ~cpu.nmiPending /\ cpu.irqLine /\ ~cpu.iFlag
  /\ cpu' = Dispatched(Woken)
  /\ UNCHANGED <<acia, told>>

NothingDue == /\ Live /\ ~cpu.abortPending /\ ~cpu.nmiPending
              /\ cpu.irqLine => cpu.iFlag
StepHalted == NothingDue /\ Woken.halted /\ UNCHANGED <<cpu, acia, told>>

(* PLP and RTI ("pull") take I from the stack.                             *)
FlagAfter(i) ==
  CASE i \in {"sei", "brk"} -> {TRUE}
    [] i = "cli"            -> {FALSE}
    [] i = "pull"           -> BOOLEAN
    [] OTHER                -> {cpu.iFlag}

Executed(i, flag) ==
  [Woken EXCEPT !.iFlag = flag, !.halted = (i \in {"wai", "stp", "self"}),
                !.stopped = (i = "stp")]

StepInstruction ==
  /\ NothingDue /\ ~Woken.halted
  /\ \E i \in setting.ops : \E flag \in FlagAfter(i) :
       LET pair == Accessed(i, acia, Executed(i, flag))
       IN  /\ cpu' = pair.cpu /\ acia' = pair.acia
           /\ told' = (told \/ i \in {"readStatus", "writeStatus"})

Step == \/ StepStopped \/ StepAbort \/ StepNmi \/ StepIrq
        \/ StepHalted \/ StepInstruction

(***************************************************************************)
(* The TUI                                                                 *)
(***************************************************************************)
(* CPU.Snapshot and captureperipherals.                                    *)
Snapshot == [iFlag |-> cpu.iFlag, halted |-> cpu.halted,
             irqLine |-> cpu.irqLine, nmiPending |-> cpu.nmiPending,
             acia |-> acia, told |-> told]
Kept(ring) == IF Len(ring) > MaxUndo THEN Tail(ring) ELSE ring

(* Model.step.                                                             *)
RecordedStep ==
  /\ Step
  /\ undo' = IF setting.undo THEN Kept(Append(undo, Snapshot)) ELSE undo

(* s, and one step of S, n and f, whether or not the machine is running.   *)
KeyStep ==
  /\ ~cpu.halted /\ RecordedStep
  /\ refused' = FALSE
  /\ UNCHANGED <<setting, running>>

(* r *)
KeyRun ==
  /\ ~cpu.halted
  /\ running' = ~running /\ refused' = FALSE
  /\ UNCHANGED <<setting, cpu, acia, undo, told>>

(* Any of these keys on a halted CPU.                                      *)
KeyRefused ==
  /\ cpu.halted
  /\ refused' = TRUE
  /\ UNCHANGED <<setting, cpu, acia, undo, running, told>>

(* One step of a tick; RunBudget stops once the CPU is halted.             *)
Tick ==
  /\ running /\ RecordedStep
  /\ running' = ~cpu'.halted /\ refused' = FALSE
  /\ UNCHANGED setting

(* A plausible slip: the line is not part of a snapshot. *)
RestoredButLine(e) ==
  [cpu EXCEPT !.iFlag = e.iFlag, !.halted = e.halted,
              !.nmiPending = e.nmiPending]

(* CPU.Restore: what a snapshot does not have stays as it is.              *)
Restored(e) ==
  [cpu EXCEPT !.iFlag = e.iFlag, !.halted = e.halted, !.irqLine = e.irqLine,
              !.nmiPending = e.nmiPending]

(* <                                                                       *)
Undo ==
  /\ undo # <<>>
  /\ LET e == undo[Len(undo)]
     IN  cpu' = Restored(e) /\ acia' = e.acia /\ told' = e.told
  /\ undo' = SubSeq(undo, 1, Len(undo) - 1)
  /\ refused' = FALSE
  /\ UNCHANGED <<setting, running>>

(* R: CPU.Reset leaves the lines, the latches and the ACIA alone.          *)
Reset ==
  /\ cpu' = [cpu EXCEPT !.iFlag = TRUE, !.halted = FALSE, !.stopped = FALSE]
  /\ undo' = <<>>
  /\ refused' = FALSE
  /\ UNCHANGED <<setting, acia, running, told>>

(* :pc                                                                     *)
SetPC ==
  /\ cpu' = [cpu EXCEPT !.halted = FALSE]
  /\ refused' = FALSE
  /\ UNCHANGED <<setting, acia, undo, running, told>>

(* :abort                                                                  *)
AssertAbort ==
  /\ setting.variant = "65816"
  /\ cpu' = [cpu EXCEPT !.abortPending = TRUE]
  /\ refused' = FALSE
  /\ UNCHANGED <<setting, acia, undo, running, told>>

(* A key in input mode.                                                    *)
Type ==
  /\ acia.rxq < MaxQueue
  /\ cpu' = Received(acia, cpu).cpu /\ acia' = Received(acia, cpu).acia
  /\ told' = FALSE /\ refused' = FALSE
  /\ UNCHANGED <<setting, undo, running>>

(* What a host program may call.                                           *)
HostCall ==
  /\ setting.host
  /\ \/ cpu' = [cpu EXCEPT !.nmiPending = TRUE]
     \/ cpu' = AssertIRQSource(cpu, "")
     \/ cpu' = ClearIRQSource(cpu, "")
  /\ refused' = FALSE
  /\ UNCHANGED <<setting, acia, undo, running, told>>

Next == \/ KeyStep \/ KeyRun \/ KeyRefused \/ Tick \/ Undo \/ Reset \/ SetPC
        \/ AssertAbort \/ Type \/ HostCall

Spec == Init /\ [][Next]_vars

(***************************************************************************)
(* Properties                                                              *)
(***************************************************************************)
(* The line the CPU sees is the one the devices drive: it is high exactly  *)
(* while the ACIA's IRQ flag is set or the host holds it.  Two objects     *)
(* keep a copy each, and undo puts back both (AssertIRQSource, clearIRQ,   *)
(* CPU.Restore, ACIA.Restore).                                             *)
LineFollowsDevices ==
  cpu.irqLine = (acia.irqFlag \/ "" \in cpu.irqSources)

(* No received byte waits in silence: with receiver interrupts enabled,    *)
(* the IRQ flag is up or the program has seen for itself (raiseRX, the     *)
(* COMMAND write, the DATA read that leaves bytes behind).                 *)
WaitingBytesAnnounced ==
  acia.rxq > 0 /\ acia.rxEnabled => acia.irqFlag \/ told

===============================================================================
