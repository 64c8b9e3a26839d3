------------------------------- MODULE Cores -------------------------------
(* A processor of any variant running: each step executes an instruction,  *)
(* takes an interrupt or resets (CPU.Step and CPU.Reset).  The program is  *)
(* not modelled: the instruction at PC may be any of the variant's, with   *)
(* any of the operands of its menu.                                        *)
EXTENDS Cpu65816

CONSTANTS
    Boot,     \* the processors to start each menu from, with nothing written
    Menus,    \* the instructions to choose from, by name
    Length,   \* bound: how many steps a run of each menu takes
    MaxBlock, \* bound: how many bytes a block move copies
    Decimals  \* the packed-decimal operands Decimal arithmetic is tried on

VARIABLES
    cpu,    \* the processor
    ir,     \* what the last step executed
    menu,   \* the menu of this run
    left    \* the steps it has left

vars == <<cpu, ir, menu, left>>

Variants == {"NMOS", "65C02", "NES", "65816"}
Processors(memories) ==
    [variant : Variants, a : Byte, b : Byte, x : Byte, xh : Byte, y : Byte, yh : Byte,
     sp : Byte, sph : Byte, p : SUBSET Flags, e : BOOLEAN, d : Word, dbr : Byte,
     pbr : Byte, pc : Word, halted : BOOLEAN, stoppedBySTP : BOOLEAN, mem : memories]
Memories == UNION {[written -> Byte] : written \in SUBSET Address}
Processor == Processors(Memories)

(* What a mode's operand can be: the bytes that follow the opcode. *)
Operands(mode) ==
    IF mode \in {"ZP", "ZPX", "ZPY", "IZX", "IZY", "IZP", "REL", "SR", "SRIY", "ILDP", "ILDPY"}
    THEN Byte
    ELSE IF mode \in {"LONG", "LONGX"} THEN Address ELSE Word
AllOpcodes == Opcodes816 \cup Official \cup OfCMOS \cup CmosNOPs \cup OfNMOS
Mnemonics == {o[1] : o \in AllOpcodes}
Modes == {o[2] : o \in AllOpcodes}
Instructions ==
    {i \in [op : Mnemonics, mode : Modes, arg : Address, bit : 0 .. 7] :
        i.arg \in Operands(i.mode)}

(* The stack of an emulated 65816 is page one. *)
PageLocked(c) == c.variant = "65816" /\ c.e => c.sph = 1

NoInstruction == [op |-> "none", mode |-> "IMP", arg |-> 0, bit |-> 0]
Event(name) == [NoInstruction EXCEPT !.op = name]

(* Decimal numbers, four bits a digit. *)
Digit(v, k) == (v \div 16 ^ k) % 16
IsDecimal(v) == \A k \in 0 .. 3 : Digit(v, k) < 10
Decode(v) == Digit(v, 0) + 10 * Digit(v, 1) + 100 * Digit(v, 2) + 1000 * Digit(v, 3)

ASSUME CoresAssumption ==
    /\ \A m \in DOMAIN Menus :
          /\ Menus[m] \subseteq Instructions
          /\ Boot[m] \subseteq Processors({<< >>}) /\ \A c \in Boot[m] : PageLocked(c)
          /\ Length[m] \in Nat
    /\ \A v \in Decimals : v \in Word /\ IsDecimal(v)

OpcodesOf(variant) == IF variant = "65816" THEN Opcodes816 ELSE Opcodes(variant)

Init ==
    /\ menu \in DOMAIN Menus
    /\ cpu \in Boot[menu]
    /\ ir = NoInstruction
    /\ left = Length[menu]

Spend == left > 0 /\ left' = left - 1 /\ UNCHANGED menu

(* An instruction: the 65816 has an interpreter of its own. *)
Stepped(c, i) == IF c.variant = "65816" THEN Step816(c, i) ELSE Step6502(c, i)
Execute(i) ==
    /\ Spend
    /\ ~cpu.halted
    /\ <<i.op, i.mode>> \in OpcodesOf(cpu.variant)
    /\ i.op \in BlockMoves => A16(cpu) < MaxBlock
    /\ cpu' = Stepped(cpu, i)
    /\ ir' = i

(* An interrupt, unless STP stopped the processor; IRQ can be masked, and  *)
(* only the 65816 has ABORT.                                               *)
Sources(c) ==
    {"NMI"} \cup (IF FlagI \in c.p THEN {} ELSE {"IRQ"})
            \cup (IF c.variant = "65816" THEN {"ABORT"} ELSE {})
Served(c, source) ==
    IF c.variant = "65816" THEN Service816(c, source) ELSE Service6502(c, source)
Service(source) ==
    /\ Spend
    /\ ~cpu.stoppedBySTP
    /\ source \in Sources(cpu)
    /\ cpu' = Served(cpu, source)
    /\ ir' = Event(source)

(* Reset; the 65816 comes up in emulation mode. *)
PoweredUp(c) ==
    LET r == [c EXCEPT !.a = 0, !.x = 0, !.y = 0, !.sp = 253, !.p = {FlagU, FlagI},
                       !.pc = Vector(c, 65532), !.halted = FALSE, !.stoppedBySTP = FALSE]
    IN  IF c.variant # "65816" THEN r
        ELSE [r EXCEPT !.e = TRUE, !.b = 0, !.xh = 0, !.yh = 0, !.sph = 1,
                       !.d = 0, !.dbr = 0, !.pbr = 0]
Reset ==
    /\ Spend
    /\ cpu' = PoweredUp(cpu)
    /\ ir' = Event("RESET")

Next ==
    \/ \E i \in Menus[menu] : Execute(i)
    \/ \E source \in DOMAIN Vectors816 : Service(source)
    \/ Reset

Spec == Init /\ [][Next]_vars

----------------------------------------------------------------------------
(* Two processors hold the same memory. *)
SameMemory(c, d) == \A a \in DOMAIN c.mem \cup DOMAIN d.mem : Read(c, a) = Read(d, a)

(* Emulation never leaves page one: every instruction that moves SP as      *)
(* sixteen bits puts the page back, and so does every way into emulation    *)
(* mode (ctrl816.go, spReforce; exec816.go, TXS, TCS, XCE).                 *)
StackPageLocked == PageLocked(cpu)

(* An index register that is eight bits wide has no high byte, whichever of *)
(* SEP, PLP, RTI and XCE narrowed it (exec816.go, applyWidthTruncation);    *)
(* the block moves alone count through the high bytes of narrow registers.  *)
IndexClear(c) == ~XWide(c) => c.xh = 0 /\ c.yh = 0
NarrowIndexIsClear ==
    [][cpu.variant = "65816" /\ IndexClear(cpu) /\ ir'.op \notin BlockMoves
         => IndexClear(cpu')]_vars

(* In emulation mode, with the banks and the direct page at 0, the 65816    *)
(* does to registers and memory what the 65C02 does, for every instruction  *)
(* they share.  Three differences are the silicon's: a pointer at the end   *)
(* of page 0 does not wrap, an index may carry out of bank 0, and the last  *)
(* byte of a JSR is read before it pushes (exec.go, opJSR, reads it after). *)
As65C02(c) == [c EXCEPT !.variant = "65C02", !.p = @ \ {FlagB}]
Emulated(c) ==
    /\ c.variant = "65816" /\ c.e /\ {FlagM, FlagX} \subseteq c.p
    /\ c.d = 0 /\ c.dbr = 0 /\ c.pbr = 0
LeavesPage(c, i) ==
    \/ i.mode \in {"IZP", "IZY"} /\ i.arg = 255
    \/ i.mode = "IZX" /\ (i.arg + c.x) % 256 = 255
LeavesBank(c, i) ==
    \/ i.mode = "ABX" /\ i.arg + c.x > 65535
    \/ i.mode = "ABY" /\ i.arg + c.y > 65535
    \/ i.mode = "IZY" /\ ZpPointer(c, i.arg) + c.y > 65535
PushesOntoItself(c, i) ==
    i.op = "JSR" /\ (c.pc + 2) % 65536 \in {256 + c.sp, 256 + ((c.sp - 1) % 256)}
Shared(c, i) ==
    /\ Emulated(c)
    /\ <<i.op, i.mode>> \in Opcodes816 \cap Opcodes("65C02")
    /\ ~LeavesPage(c, i) /\ ~LeavesBank(c, i) /\ ~PushesOntoItself(c, i)
Agree(c, d) ==
    /\ \A f \in {"a", "x", "y", "sp", "pc", "halted", "stoppedBySTP"} : c[f] = d[f]
    /\ c.p \ {FlagB, FlagU} = d.p \ {FlagB, FlagU}
    /\ SameMemory(c, d)
EmulationIsA65C02 ==
    [][Shared(cpu, ir') => Agree(cpu', Step6502(As65C02(cpu), ir'))]_vars

(* A handler that returns at once leaves the processor where it was, on     *)
(* every variant and in both modes: whatever is pushed is pulled in the     *)
(* opposite order.  Emulation mode pushes no program bank, and a 65C02 has  *)
(* no B and U of its own to restore.                                        *)
Rti == [NoInstruction EXCEPT !.op = "RTI"]
Kept(c) == {"a", "b", "x", "y", "xh", "yh", "sp", "sph", "pc", "d", "dbr", "e"}
             \cup (IF c.variant = "65816" /\ ~c.e THEN {"pbr"} ELSE {})
Locked(c) == IF c.variant = "65816" THEN c.e => {FlagM, FlagX} \subseteq c.p
             ELSE c.p \cap {FlagB, FlagU} = {FlagU}
HandlersReturn ==
    \A source \in Sources(cpu) :
        LET back == Stepped(Served(cpu, source), Rti)
        IN  Locked(cpu) /\ IndexClear(cpu) =>
                back.p = cpu.p /\ \A f \in Kept(cpu) : back[f] = cpu[f]

(* Every call returns to the instruction after it, and every pull undoes    *)
(* its push, unless a 16-bit stack instruction runs off page one in         *)
(* emulation mode, which puts the page back but not the offset it lost.     *)
Calls816 == {<<"JSR", "JSRABS", "RTS">>, <<"JSR", "IAX", "RTS">>, <<"JSL", "LONG", "RTL">>}
OffPage(c, op) == c.e /\ op \in {"PHD", "JSL"} /\ c.sp < (IF op = "JSL" THEN 3 ELSE 2)
Op(op, mode) == [NoInstruction EXCEPT !.op = op, !.mode = mode, !.arg = 4660]
CallsReturn ==
    cpu.variant = "65816" =>
        /\ \A call \in Calls816 :
              LET i == Op(call[1], call[2])
                  back == Step816(Step816(cpu, i), Op(call[3], "IMP"))
              IN  OffPage(cpu, i.op) \/
                    /\ back.pc = (cpu.pc + 1 + OperandBytes816(cpu, i)) % 65536
                    /\ back.pbr = cpu.pbr /\ SP16(back) = SP16(cpu)
        /\ \A pair \in {<<"PHA", "PLA">>, <<"PHX", "PLX">>, <<"PHY", "PLY">>,
                        <<"PHB", "PLB">>, <<"PHD", "PLD">>} :
              LET back == Step816(Step816(cpu, Op(pair[1], "IMP")), Op(pair[2], "IMP"))
              IN  OffPage(cpu, pair[1]) \/ \A f \in Kept(cpu) \ {"pc"} : back[f] = cpu[f]

(* Interrupts and calls are undone by their returns. *)
StackRoundTrips == HandlersReturn /\ CallsReturn

(* Decimal addition and subtraction are those of decimal numbers whenever   *)
(* the operands are: digits, carry and borrow, on every variant that has a  *)
(* decimal mode, two digits or four (exec.go, adcDecimal; opcodes_cmos.go;  *)
(* arith816.go).                                                            *)
Width(c) == IF c.variant = "65816" THEN AccBits(c) ELSE 8
Limit(c) == IF Width(c) = 8 THEN 100 ELSE 10000
Accumulator(c) == IF c.variant = "65816" THEN Acc(c) ELSE c.a
Added(c, v) == IF c.variant = "65816" THEN Adc816(c, v) ELSE Adc(c, v)
Subtracted(c, v) == IF c.variant = "65816" THEN Sbc816(c, v) ELSE Sbc(c, v)
Holds(c, d, value) ==
    LET result == Pair(d.a, IF Width(c) = 16 THEN d.b ELSE 0)
    IN  IsDecimal(result) /\ Decode(result) = value % Limit(c)
AddsDigits(c, v) ==
    LET sum == Decode(Accumulator(c)) + Decode(v) + CarryIn(c)
    IN  Holds(c, Added(c, v), sum) /\ (FlagC \in Added(c, v).p <=> sum >= Limit(c))
SubtractsDigits(c, v) ==
    LET diff == Decode(Accumulator(c)) - Decode(v) - 1 + CarryIn(c)
    IN  Holds(c, Subtracted(c, v), diff) /\ (FlagC \in Subtracted(c, v).p <=> diff >= 0)
DecimalIsDecimal ==
    FlagD \in cpu.p /\ cpu.variant # "NES" /\ IsDecimal(Accumulator(cpu)) =>
        \A w \in Decimals :
            LET v == w % (2 ^ Width(cpu)) IN AddsDigits(cpu, v) /\ SubtractsDigits(cpu, v)

=============================================================================
