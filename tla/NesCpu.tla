-------------------------------- MODULE NesCpu --------------------------------
(***************************************************************************)
(* The 2A03 core of package cpu, one bus cycle at a time: VariantNES on a  *)
(* bus that ticks (nesCycle).  Step decides at the instruction boundary    *)
(* from latches that sampleNMI moves on after every cycle; the devices     *)
(* move their lines in Tick and in the bus access of that cycle; a pending *)
(* DMA (sprite page or DMC sample) takes the bus before the next read.     *)
(*                                                                         *)
(* One action is one bus cycle with everything the code does up to the     *)
(* next one, so that every place where a device can act is between steps.  *)
(***************************************************************************)
EXTENDS Naturals, Sequences

CONSTANTS
  Settings,      \* what the devices and the program do, see Setting
  SpriteBytes,   \* bytes of an OAM page; 256 in the code
  MaxFetches     \* bound: DMC requests in one DMA window

(* Bus cycles of the instructions and of the interrupt dispatch: fetches,  *)
(* dummy reads and pulls are "read", pushes and stores "write", and the    *)
(* warm-up of a reset has no access ("stall").                             *)
Dispatch == <<"read", "read", "write", "write", "write", "read", "read">>
BusCycles ==
  [nop         |-> <<"read", "read">>,
   store       |-> <<"read", "read", "read", "write">>,
   modify      |-> <<"read", "read", "read", "write", "write">>,
   branch      |-> <<"read", "read", "read">>,
   branchCross |-> <<"read", "read", "read", "read">>,
   cli         |-> <<"read", "read">>,
   sei         |-> <<"read", "read">>,
   plp         |-> <<"read", "read", "read", "read">>,
   rti         |-> <<"read", "read", "read", "read", "read", "read">>,
   brk         |-> Dispatch,
   irq         |-> Dispatch,
   nmi         |-> Dispatch,
   reset       |-> [i \in 1 .. 8 |-> "stall"]]
Ops          == DOMAIN BusCycles
Instructions == Ops \ {"irq", "nmi", "reset"}

(* nmi, irq: the devices move that line; sprite: stores may start an OAM   *)
(* DMA; dmc: the APU asks for samples; abort: and cancels fetches; ops:    *)
(* the instructions of the program; reset: the host may press reset.       *)
Setting == [nmi : BOOLEAN, irq : BOOLEAN, sprite : BOOLEAN, dmc : BOOLEAN,
            abort : BOOLEAN, reset : BOOLEAN, ops : SUBSET Instructions]

ASSUME NesAssumption ==
  /\ Settings \subseteq Setting
  /\ \A s \in Settings : s.ops # {}
  /\ SpriteBytes \in Nat \ {0} /\ MaxFetches \in Nat

VARIABLES
  setting,        \* never changes
  iFlag,          \* FlagI of P
  nmiLine,        \* nmiLineLevel and nmiLinePrev
  irqLine,
  poll,           \* nmiPending and the poll latches
  op, done,       \* what runs, and its bus cycles so far; "none": boundary
  cycles,         \* Cycles and instrCycles, modulo 2
  dma,            \* needHalt, spriteDmaTransfer, dmcDmaRunning, ...
  window,         \* the locals of ProcessPendingDma
  parity,         \* history: CPU cycles since reset, modulo 2
  seen            \* history: what the interrupts owe, see below

vars == <<setting, iFlag, nmiLine, irqLine, poll, op, done, cycles, dma,
          window, parity, seen>>

Bit == {0, 1}
Poll == [nmiPending : BOOLEAN, nmiDue : BOOLEAN, nmiPollPrev : BOOLEAN,
         irqDue : BOOLEAN, irqPollPrev : BOOLEAN]
Dma == [needHalt : BOOLEAN, sprite : BOOLEAN, dmc : BOOLEAN,
        abort : BOOLEAN, needDummyRead : BOOLEAN]

(* seen.owed: an NMI edge no handler was entered for; seen.nmiWait: whole  *)
(* instructions begun since; seen.irqWait: the same for an IRQ line held   *)
(* with I clear; seen.masked: I has been set since a handler was entered;  *)
(* seen.asked: the APU waits for a sample; seen.fetches: requests in this  *)
(* window.                                                                 *)
Waits == 0 .. 2
Seen == [owed : BOOLEAN, nmiWait : Waits, irqWait : Waits, masked : BOOLEAN,
         asked : BOOLEAN, fetches : 0 .. MaxFetches]
OneMore(n) == IF n = 2 THEN 2 ELSE n + 1

(* oam: what the window stored to $2004; length, start: its cycles so far  *)
(* and the parity of the first; kinds: the transfers it carried out.       *)
Byte == 0 .. SpriteBytes - 1
Sample == SpriteBytes          \* what a DMC fetch reads
Nothing == SpriteBytes + 1     \* readValue before the first read
Values == Byte \cup {Sample, Nothing}
NoWindow == [on |-> FALSE, spriteDmaCounter |-> 0, spriteReadAddr |-> 0,
             readValue |-> Nothing, oam |-> <<>>, length |-> 0, start |-> 0,
             kinds |-> {}]

TypeOK ==
  /\ setting \in Settings
  /\ iFlag \in BOOLEAN /\ irqLine \in BOOLEAN
  /\ nmiLine \in [level : BOOLEAN, prev : BOOLEAN]
  /\ poll \in Poll /\ dma \in Dma /\ seen \in Seen
  /\ op \in Ops \cup {"none"}
  /\ done \in 0 .. IF op = "none" THEN 0 ELSE Len(BusCycles[op]) - 1
  /\ cycles \in [total : Bit, instr : Bit] /\ parity \in Bit
  /\ DOMAIN window = DOMAIN NoWindow
  /\ window.on \in BOOLEAN /\ window.readValue \in Values
  /\ window.spriteDmaCounter \in 0 .. 2 * SpriteBytes
  /\ window.spriteReadAddr \in Byte
  /\ window.oam \in Seq(Values)
  /\ window.kinds \subseteq {"sprite", "dmc", "abort"}

(* New and Reset: vector loaded, nothing pending, Cycles = 7.              *)
Init ==
  /\ setting \in Settings
  /\ iFlag = TRUE /\ irqLine = FALSE
  /\ nmiLine = [level |-> FALSE, prev |-> FALSE]
  /\ poll = [nmiPending |-> FALSE, nmiDue |-> FALSE, nmiPollPrev |-> FALSE,
             irqDue |-> FALSE, irqPollPrev |-> FALSE]
  /\ op = "none" /\ done = 0
  /\ cycles = [total |-> 1, instr |-> 0] /\ parity = 1
  /\ dma = [needHalt |-> FALSE, sprite |-> FALSE, dmc |-> FALSE,
            abort |-> FALSE, needDummyRead |-> FALSE]
  /\ window = NoWindow
  /\ seen = [owed |-> FALSE, nmiWait |-> 0, irqWait |-> 0, masked |-> FALSE,
             asked |-> FALSE, fetches |-> 0]

(***************************************************************************)
(* Latches                                                                 *)
(***************************************************************************)
Rises(line) == line.level /\ ~line.prev

(* A plausible slip: an asserted line is pending, edge or not. *)
SampledLevel(p, line, irq, masked) ==
  [nmiPending  |-> p.nmiPending \/ line.level,
   nmiDue      |-> p.nmiPollPrev,
   nmiPollPrev |-> p.nmiPending \/ line.level,
   irqDue      |-> p.irqPollPrev,
   irqPollPrev |-> irq /\ ~masked]

(* sampleNMI, after the bus access of a cycle.                             *)
Sampled(p, line, irq, masked) ==
  LET pending == p.nmiPending \/ Rises(line)
  IN  [nmiPending  |-> pending,
       nmiDue      |-> p.nmiPollPrev,
       nmiPollPrev |-> pending,
       irqDue      |-> p.irqPollPrev,
       irqPollPrev |-> irq /\ ~masked]

(* A plausible slip: every taken branch ignores a pending IRQ. *)
RolledBackAlways(p) == [p EXCEPT !.irqPollPrev = FALSE, !.irqDue = FALSE]

(* A taken branch ignores an IRQ that arrived in its operand cycle.        *)
RolledBack(p) ==
  IF p.irqPollPrev /\ ~p.irqDue THEN [p EXCEPT !.irqPollPrev = FALSE] ELSE p

(* NMI pending between the pushes of PC and P takes over the dispatch.     *)
Hijacked(p) ==
  IF p.nmiPending
  THEN [p EXCEPT !.nmiPending = FALSE, !.nmiDue = FALSE,
                 !.nmiPollPrev = FALSE]
  ELSE p

(* Plausible slips: the edge itself is dropped with its latches, and the   *)
(* latches are left alone.                                                 *)
ForgottenEdge(p) ==
  [p EXCEPT !.nmiDue = FALSE, !.nmiPollPrev = FALSE, !.nmiPending = FALSE]
NotForgotten(p) == p

(* The first instruction of a handler runs before the next interrupt.      *)
Forgotten(p) == [p EXCEPT !.nmiDue = FALSE, !.nmiPollPrev = FALSE]

TakesOver(o, n) == o \in {"irq", "brk"} /\ n = 4

(* What o does to the latches between its cycle n and the next one.        *)
PollAfter(o, n, p) ==
  CASE o \in {"branch", "branchCross"} /\ n = 2 -> RolledBack(p)
    [] TakesOver(o, n)                          -> Hijacked(p)
    [] o \in {"irq", "nmi", "brk"} /\ n = 7     -> Forgotten(p)
    [] OTHER                                    -> p

(* A plausible slip: I is set once the vector has been read. *)
FlagAfterVector(o, n) ==
  CASE o \in {"irq", "nmi", "brk"} /\ n = 7 -> {TRUE}
    [] o \in {"plp", "rti"} /\ n = 4        -> BOOLEAN
    [] o = "sei" /\ n = 2                   -> {TRUE}
    [] o = "cli" /\ n = 2                   -> {FALSE}
    [] OTHER                                -> {iFlag}

(* And to FlagI: PLP and RTI pull it from the stack.                       *)
FlagAfter(o, n) ==
  CASE o \in {"irq", "nmi", "brk"} /\ n = 5 -> {TRUE}
    [] o \in {"plp", "rti"} /\ n = 4        -> BOOLEAN
    [] o = "sei" /\ n = 2                   -> {TRUE}
    [] o = "cli" /\ n = 2                   -> {FALSE}
    [] OTHER                                -> {iFlag}

(***************************************************************************)
(* Devices (external): what Tick and the bus access of a cycle may do      *)
(***************************************************************************)
SetNeedSpriteDma(d) == [d EXCEPT !.sprite = TRUE, !.needHalt = TRUE]
SetNeedDmcDma(d) ==
  [d EXCEPT !.dmc = TRUE, !.needDummyRead = TRUE, !.needHalt = TRUE]
AbortDmcDma(d) == [d EXCEPT !.abort = TRUE]

MayRequest == setting.dmc /\ ~seen.asked /\ ~dma.dmc /\ ~dma.abort
              /\ seen.fetches < MaxFetches
MayAbort   == setting.abort /\ dma.dmc /\ seen.asked

(* The APU leaves its request d as it is, makes one or cancels it.         *)
DmcEvents(d) ==
  {[dma |-> d, asked |-> seen.asked, fetches |-> seen.fetches]}
  \cup IF MayRequest
       THEN {[dma |-> SetNeedDmcDma(d), asked |-> TRUE,
              fetches |-> seen.fetches + 1]} ELSE {}
  \cup IF MayAbort
       THEN {[dma |-> AbortDmcDma(d), asked |-> FALSE,
              fetches |-> seen.fetches]} ELSE {}

MovesTo(moves, level) == IF moves THEN BOOLEAN ELSE {level}

(***************************************************************************)
(* The CPU                                                                 *)
(***************************************************************************)
HandlerEntered(o, n) == o \in {"irq", "nmi", "brk"} /\ n >= 5

(* The end of a cycle: the lines, sampleNMI, then o's own changes.  e is   *)
(* what the APU did, owed whether the NMI edge of p is still unanswered.   *)
EndCycle(o, n, e) ==
  \E level \in MovesTo(setting.nmi, nmiLine.level),
     line \in MovesTo(setting.irq, irqLine), flag \in FlagAfter(o, n) :
    LET at == [level |-> level, prev |-> nmiLine.prev]
        sampled == Sampled(poll, at, line, iFlag)
        after == PollAfter(o, n, sampled)
        owed == (seen.owed \/ Rises(at))
                /\ ~(TakesOver(o, n) /\ sampled.nmiPending)
    IN  /\ nmiLine' = [level |-> level, prev |-> level]
        /\ irqLine' = line
        /\ poll' = after
        /\ iFlag' = flag
        /\ parity' = 1 - parity
        /\ seen' = [owed |-> owed,
                    nmiWait |-> IF owed THEN seen.nmiWait ELSE 0,
                    irqWait |-> IF line /\ ~flag THEN seen.irqWait ELSE 0,
                    masked |-> flag /\ (seen.masked \/ HandlerEntered(o, n)),
                    asked |-> e.asked, fetches |-> e.fetches]

(* A plausible slip: the loop is over when the page has been copied. *)
PageDone == window.on /\ ~dma.sprite

(* One cycle of the running operation.  Its own read no longer looks at    *)
(* needHalt once ProcessPendingDma has returned.                           *)
WindowDone == window.on /\ ~dma.sprite /\ ~dma.dmc
MayRead    == IF window.on THEN WindowDone ELSE ~dma.needHalt

Last == done + 1 = Len(BusCycles[op])

(* A store may be the one to $4014.                                        *)
BusWrites(d) ==
  {d} \cup IF setting.sprite /\ BusCycles[op][done + 1] = "write"
              /\ op \in {"store", "modify"}
           THEN {SetNeedSpriteDma(d)} ELSE {}

(* Cycles grows at the end of the instruction, instrCycles in every cycle  *)
(* (and is not cleared by a dispatch).                                     *)
Counted(c) ==
  [total |-> IF Last THEN (c.total + Len(BusCycles[op])) % 2 ELSE c.total,
   instr |-> 1 - c.instr]

Cycle ==
  /\ op # "none"
  /\ BusCycles[op][done + 1] = "read" => MayRead
  /\ \E e \in DmcEvents(dma) :
       /\ dma' \in BusWrites(e.dma)
       /\ EndCycle(op, done + 1,
                   [e EXCEPT !.fetches = IF window.on THEN 0 ELSE @])
  /\ op' = IF Last THEN "none" ELSE op
  /\ done' = IF Last THEN 0 ELSE done + 1
  /\ cycles' = Counted(cycles)
  /\ window' = NoWindow
  /\ UNCHANGED setting

(***************************************************************************)
(* ProcessPendingDma, before the read of a cycle                           *)
(***************************************************************************)
BeforeRead == op # "none" /\ BusCycles[op][done + 1] = "read"

(* dmaStartCycle counts the cycle in Cycles at once, not in instrCycles.   *)
Stolen(c) == [c EXCEPT !.total = 1 - @]

(* The halt cycle opens the window.                                        *)
DmaHalt ==
  /\ BeforeRead /\ ~window.on /\ dma.needHalt
  /\ \E e \in DmcEvents([dma EXCEPT !.needHalt = FALSE]) :
       dma' = e.dma /\ EndCycle("none", 0, e)
  /\ cycles' = Stolen(cycles)
  /\ window' = [NoWindow EXCEPT !.on = TRUE, !.length = 1, !.start = parity]
  /\ UNCHANGED <<setting, op, done>>

(* A plausible slip: Cycles alone, which lags within an instruction. *)
GetCycleOfTotal == cycles.total = 0

(* getCycle: the parity the code takes for the CPU's.                      *)
GetCycle == (cycles.total + cycles.instr) % 2 = 0

(* dmaProcessCycle: the flags that one more cycle settles.                 *)
Processed(d) ==
  CASE d.abort         -> [d EXCEPT !.dmc = FALSE, !.abort = FALSE,
                                    !.needDummyRead = FALSE, !.needHalt = FALSE]
    [] ~d.abort /\ d.needHalt -> [d EXCEPT !.needHalt = FALSE]
    [] OTHER           -> [d EXCEPT !.needDummyRead = FALSE]

(* A plausible slip: every put cycle of a page copy stores. *)
AlwaysWrite == TRUE

SampleReady == dma.dmc /\ ~dma.needHalt /\ ~dma.needDummyRead
SpriteByteRead == window.spriteDmaCounter % 2 = 1

InWindow == BeforeRead /\ window.on /\ (dma.dmc \/ dma.sprite)

Cleared(d, flags) == [f \in DOMAIN d |-> d[f] /\ f \notin flags]

(* One cycle of the loop: w is the window after it, flags are those that   *)
(* the loop body clears at its end.                                        *)
DmaCycle(w, flags, delivered) ==
  /\ \E e \in DmcEvents(Processed(dma)) :
       /\ dma' = Cleared(e.dma, flags)
       /\ EndCycle("none", 0, [e EXCEPT !.asked = @ /\ ~delivered])
  /\ cycles' = Stolen(cycles)
  /\ window' = [w EXCEPT !.length = @ + 1,
                         !.kinds = @ \cup IF dma.abort THEN {"abort"} ELSE {}]
  /\ UNCHANGED <<setting, op, done>>

SampleFetched == {"dmc", "abort"}

SpriteDone ==
  IF window.spriteDmaCounter + 1 = 2 * SpriteBytes THEN {"sprite"} ELSE {}

DmaSampleRead ==
  /\ InWindow /\ GetCycle /\ SampleReady
  /\ DmaCycle([window EXCEPT !.readValue = Sample,
                             !.kinds = @ \cup {"dmc"}], SampleFetched, TRUE)

DmaSpriteRead ==
  /\ InWindow /\ GetCycle /\ ~SampleReady /\ dma.sprite
  /\ DmaCycle([window EXCEPT !.readValue = window.spriteReadAddr,
                             !.spriteReadAddr = (@ + 1) % SpriteBytes,
                             !.spriteDmaCounter = @ + 1], {}, FALSE)

DmaSpriteWrite ==
  /\ InWindow /\ ~GetCycle /\ dma.sprite /\ SpriteByteRead
  /\ DmaCycle([window EXCEPT !.oam = Append(@, window.readValue),
                             !.spriteDmaCounter = @ + 1,
                             !.kinds = @ \cup {"sprite"}], SpriteDone, FALSE)

DmaDummyRead ==
  /\ InWindow
  /\ IF GetCycle THEN ~SampleReady /\ ~dma.sprite
                 ELSE ~(dma.sprite /\ SpriteByteRead)
  /\ DmaCycle(window, {}, FALSE)

(***************************************************************************)
(* Step, at the boundary                                                   *)
(***************************************************************************)
Begin(o) ==
  /\ op' = o /\ done' = 0
  /\ UNCHANGED <<setting, nmiLine, irqLine, dma, window>>

StepNmi ==
  /\ op = "none" /\ poll.nmiDue
  /\ poll' = [poll EXCEPT !.nmiDue = FALSE, !.nmiPending = FALSE]
  /\ seen' = [seen EXCEPT !.owed = FALSE, !.nmiWait = 0]
  /\ Begin("nmi") /\ UNCHANGED <<iFlag, cycles, parity>>

StepIrq ==
  /\ op = "none" /\ ~poll.nmiDue /\ poll.irqDue
  /\ poll' = [poll EXCEPT !.irqDue = FALSE]
  /\ seen' = [seen EXCEPT !.irqWait = 0]
  /\ Begin("irq") /\ UNCHANGED <<iFlag, cycles, parity>>

StepInstruction ==
  /\ op = "none" /\ ~poll.nmiDue /\ ~poll.irqDue
  /\ \E o \in setting.ops : Begin(o)
  /\ cycles' = [cycles EXCEPT !.instr = 0]
  /\ seen' = [seen EXCEPT
                !.nmiWait = IF seen.owed THEN OneMore(@) ELSE @,
                !.irqWait = IF irqLine /\ ~iFlag THEN OneMore(@) ELSE @]
  /\ UNCHANGED <<iFlag, poll, parity>>

(* CPU.Reset from the host: the latches and the DMA flags stay.            *)
Reset ==
  /\ setting.reset /\ op = "none"
  /\ iFlag' = TRUE
  /\ cycles' = [cycles EXCEPT !.total = 1] /\ parity' = 1
  /\ seen' = [seen EXCEPT !.irqWait = 0, !.masked = TRUE]
  /\ Begin("reset") /\ UNCHANGED poll

Next ==
  \/ StepNmi \/ StepIrq \/ StepInstruction \/ Reset
  \/ Cycle \/ DmaHalt
  \/ DmaSampleRead \/ DmaSpriteRead \/ DmaSpriteWrite \/ DmaDummyRead

Spec == Init /\ [][Next]_vars

(***************************************************************************)
(* Properties                                                              *)
(***************************************************************************)
(* The dispatcher is only ever entered for an NMI edge that no handler has *)
(* answered: the one-cycle delay of nmiPollPrev never replays an edge that *)
(* serviceNMI or a hijacked IRQ or BRK has taken (serviceNMI's and         *)
(* serviceVector's clearing of the latches).                               *)
NmiAnswersAnEdge ==
  /\ poll.nmiPending => seen.owed
  /\ op = "none" /\ poll.nmiDue => seen.owed

(* And no edge is lost or left behind: at most one whole instruction       *)
(* begins after an edge before a handler is entered for it, whatever       *)
(* dispatch, DMA window or line change falls in between.                   *)
NmiPrompt == seen.nmiWait <= 1

(* The same for a held IRQ line while I is clear, taken branches included. *)
IrqPrompt == seen.irqWait <= 1

(* A handler is not interrupted by an IRQ before it clears I itself: I is  *)
(* set early enough in the dispatch for the poll that follows.             *)
IrqsDoNotNest ==
  op = "none" /\ ~poll.nmiDue /\ poll.irqDue => ~seen.masked

(* The first instruction of a handler runs before any other interrupt.     *)
HandlerRunsFirst ==
  [][(op \in {"nmi", "irq", "brk"} /\ op' = "none")
       => ~(poll'.nmiDue \/ poll'.irqDue)]_vars

(* A transfer that was asked for is never forgotten: between windows a     *)
(* halt is due for it, and the APU's request stands until it is delivered. *)
TransferRemembered ==
  /\ dma.sprite \/ dma.dmc => window.on \/ dma.needHalt
  /\ seen.asked => dma.dmc

(* Each store of an OAM DMA writes the byte of the page whose turn it is,  *)
(* also with sample reads in between, and the window holds all of them.    *)
SpriteCopyExact ==
  /\ \A i \in DOMAIN window.oam : window.oam[i] = i - 1
  /\ WindowDone /\ "sprite" \in window.kinds => Len(window.oam) = SpriteBytes

(* The length of a window of one transfer follows from the parity of the   *)
(* cycle that opens it.                                                    *)
StealFollowsParity ==
  WindowDone =>
    /\ window.kinds = {"dmc"} => window.length = 3 + window.start
    /\ window.kinds = {"sprite"}
         => window.length = 2 * SpriteBytes + 2 - window.start

(* In instructions it does; a dispatch leaves instrCycles of the last one. *)
InstructionStealFollowsParity ==
  op \notin {"nmi", "irq"} => StealFollowsParity
===============================================================================
