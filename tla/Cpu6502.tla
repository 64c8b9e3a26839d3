------------------------------ MODULE Cpu6502 ------------------------------
(* The instructions of the 8-bit cores (cpu/exec.go, addressing.go,        *)
(* opcodes.go, opcodes_cmos.go, opcodes_illegal.go): the NMOS 6502, the    *)
(* 65C02 and the Ricoh 2A03, told apart by c.variant.                      *)
(*                                                                         *)
(* An instruction i is a record: its name op, its addressing mode, the     *)
(* operand arg that follows the opcode, and, of the bit instructions, the  *)
(* bit they are about.  Cycle counts and the dummy bus cycles are NesCpu's *)
(* subject; no interrupt is pending here.                                  *)
EXTENDS Machine

CMOS(c) == c.variant = "65C02"

Inc(c, field, by) == [c EXCEPT ![field] = (@ + by) % 256]

(* push, pop, push16, pop16: the stack is page one. *)
Push(c, v) == Inc(Write(c, 256 + c.sp, v), "sp", -1)
Push16(c, v) == Push(Push(c, Hi(v)), Lo(v))
Popped(c, n) == Inc(c, "sp", n)
Top(c, n) == Read(c, 256 + ((c.sp + n) % 256))
Top16(c, n) == Pair(Top(c, n), Top(c, n + 1))

(* PHP and BRK push P with B and U on; PLP and RTI drop B and set U. *)
PushedP(c) == Num(c.p \cup {FlagB, FlagU})
PulledP(v) == (Bits(v) \ {FlagB}) \cup {FlagU}

----------------------------------------------------------------------------
(* resolve: the effective address; c.pc is already past the operand. *)
OperandBytes(mode) ==
    CASE mode \in {"IMP", "ACC"} -> 0
      [] mode \in {"ABS", "ABX", "ABY", "IND", "IAX", "JSRABS", "ZPR"} -> 2
      [] OTHER -> 1

ZpPointer(c, zp) == Pair(Read(c, zp % 256), Read(c, (zp + 1) % 256))

(* The NMOS JMP (ind) never leaves the page of its pointer. *)
JumpPointer(c, p) ==
    LET next == IF CMOS(c) THEN (p + 1) % 65536
                ELSE 256 * Hi(p) + ((p + 1) % 256)
    IN  Pair(Read(c, p), Read(c, next))

Resolve(c, i) ==
    CASE i.mode \in {"ZP", "ABS"} -> i.arg
      [] i.mode = "ZPX" -> (i.arg + c.x) % 256
      [] i.mode = "ZPY" -> (i.arg + c.y) % 256
      [] i.mode = "REL" -> (c.pc + Signed(i.arg, 8)) % 65536
      [] i.mode = "ABX" -> (i.arg + c.x) % 65536
      [] i.mode = "ABY" -> (i.arg + c.y) % 65536
      [] i.mode = "IND" -> JumpPointer(c, i.arg)
      [] i.mode = "IZX" -> ZpPointer(c, i.arg + c.x)
      [] i.mode = "IZY" -> (ZpPointer(c, i.arg) + c.y) % 65536
      [] i.mode = "IZP" -> ZpPointer(c, i.arg)
      [] i.mode = "IAX" ->
           LET p == (i.arg + c.x) % 65536
           IN  Pair(Read(c, p), Read(c, (p + 1) % 65536))

(* An immediate operand is the byte after the opcode. *)
Operand(c, i) ==
    CASE i.mode = "IMM" -> Lo(i.arg)
      [] i.mode = "ACC" -> c.a
      [] OTHER -> Read(c, Resolve(c, i))
Store(c, i, v) ==
    IF i.mode = "ACC" THEN [c EXCEPT !.a = v] ELSE Write(c, Resolve(c, i), v)

----------------------------------------------------------------------------
LoadA(c, v) == SetZN([c EXCEPT !.a = v], v, 8)
LoadX(c, v) == SetZN([c EXCEPT !.x = v], v, 8)
LoadY(c, v) == SetZN([c EXCEPT !.y = v], v, 8)

Loads == {"LDA", "LDX", "LDY"}
Load(c, op, v) ==
    CASE op = "LDA" -> LoadA(c, v)
      [] op = "LDX" -> LoadX(c, v)
      [] op = "LDY" -> LoadY(c, v)

Stores == {"STA", "STX", "STY", "STZ"}
Stored(c, op) ==
    CASE op = "STA" -> c.a [] op = "STX" -> c.x [] op = "STY" -> c.y
      [] op = "STZ" -> 0

Transfers == {"TAX", "TAY", "TSX", "TXA", "TXS", "TYA"}
Transfer(c, op) ==
    CASE op = "TAX" -> LoadX(c, c.a)
      [] op = "TAY" -> LoadY(c, c.a)
      [] op = "TSX" -> LoadX(c, c.sp)
      [] op = "TXA" -> LoadA(c, c.x)
      [] op = "TXS" -> [c EXCEPT !.sp = c.x]
      [] op = "TYA" -> LoadA(c, c.y)

StackOps == {"PHA", "PHP", "PLA", "PLP", "PHX", "PHY", "PLX", "PLY"}
StackOp(c, op) ==
    CASE op = "PHA" -> Push(c, c.a)
      [] op = "PHX" -> Push(c, c.x)
      [] op = "PHY" -> Push(c, c.y)
      [] op = "PHP" -> Push(c, PushedP(c))
      [] op = "PLA" -> LoadA(Popped(c, 1), Top(c, 1))
      [] op = "PLX" -> LoadX(Popped(c, 1), Top(c, 1))
      [] op = "PLY" -> LoadY(Popped(c, 1), Top(c, 1))
      [] op = "PLP" -> [Popped(c, 1) EXCEPT !.p = PulledP(Top(c, 1))]

----------------------------------------------------------------------------
Logics == {"AND", "EOR", "ORA"}
Logic(c, op, v) ==
    CASE op = "AND" -> LoadA(c, And(c.a, v))
      [] op = "EOR" -> LoadA(c, Xor(c.a, v))
      [] op = "ORA" -> LoadA(c, Or(c.a, v))

(* BIT; the immediate form of the 65C02 leaves N and V alone. *)
BitTest(c, i, v) ==
    LET z == SetFlag(c, FlagZ, And(c.a, v) = 0)
    IN  IF i.mode = "IMM" THEN z
        ELSE SetFlag(SetFlag(z, FlagN, Bit(v, 7) = 1), FlagV, Bit(v, 6) = 1)

AddBinary(c, v) ==
    LET sum == c.a + v + CarryIn(c) IN LoadA(SetCV(c, c.a, v, sum, 8), sum % 256)
SubBinary(c, v) == AddBinary(c, Complement(v, 8))

(* adcDecimal: N and V from the sum before its last correction, Z from the *)
(* binary sum.                                                             *)
AdcDecimal(c, v) ==
    LET part == PartialSum8(c.a, v, CarryIn(c))
        sum  == DecimalSum8(c.a, v, CarryIn(c))
        flags == (c.p \ {FlagN, FlagV, FlagZ, FlagC})
                   \cup On(FlagN, Bit(part, 7) = 1)
                   \cup On(FlagV, Overflow(c.a, v, part, 8))
                   \cup On(FlagZ, ((c.a + v + CarryIn(c)) % 256) = 0)
                   \cup On(FlagC, sum >= 256)
    IN  [c EXCEPT !.p = flags, !.a = sum % 256]

(* sbcDecimal: every flag is the binary subtraction's. *)
SbcDecimal(c, v) ==
    [SubBinary(c, v) EXCEPT !.a = DecimalDiff8(c.a, v, CarryIn(c))]

(* adcDecimalCMOS, sbcDecimalCMOS: N and Z are the decimal result's. *)
AdcDecimalCMOS(c, v) ==
    LET sum == DecimalSum8(c.a, v, CarryIn(c))
        flags == (c.p \ {FlagV, FlagC})
                   \cup On(FlagV, Overflow(c.a, v, PartialSum8(c.a, v, CarryIn(c)), 8))
                   \cup On(FlagC, sum >= 256)
    IN  LoadA([c EXCEPT !.p = flags], sum % 256)
SbcDecimalCMOS(c, v) == LoadA(SubBinary(c, v), DecimalDiff8(c.a, v, CarryIn(c)))

(* opADC, opSBC: the Ricoh 2A03 has no decimal mode. *)
Decimal(c) == FlagD \in c.p /\ c.variant # "NES"
Adc(c, v) ==
    IF ~Decimal(c) THEN AddBinary(c, v)
    ELSE IF CMOS(c) THEN AdcDecimalCMOS(c, v) ELSE AdcDecimal(c, v)
Sbc(c, v) ==
    IF ~Decimal(c) THEN SubBinary(c, v)
    ELSE IF CMOS(c) THEN SbcDecimalCMOS(c, v) ELSE SbcDecimal(c, v)

Compares == {"CMP", "CPX", "CPY"}
Compare8(c, reg, v) ==
    SetZN(SetFlag(c, FlagC, reg >= v), (reg - v) % 256, 8)
Compare(c, op, v) ==
    CASE op = "CMP" -> Compare8(c, c.a, v)
      [] op = "CPX" -> Compare8(c, c.x, v)
      [] op = "CPY" -> Compare8(c, c.y, v)

----------------------------------------------------------------------------
(* INC DEC ASL LSR ROL ROR: what becomes of the byte, and the carry out.   *)
Modified(c, op, v) ==
    CASE op = "INC" -> (v + 1) % 256
      [] op = "DEC" -> (v - 1) % 256
      [] op = "ASL" -> (2 * v) % 256
      [] op = "LSR" -> v \div 2
      [] op = "ROL" -> (2 * v + CarryIn(c)) % 256
      [] op = "ROR" -> (v \div 2) + 128 * CarryIn(c)
Shifted(c, op, v) ==
    CASE op \in {"ASL", "ROL"} -> SetFlag(c, FlagC, Bit(v, 7) = 1)
      [] op \in {"LSR", "ROR"} -> SetFlag(c, FlagC, Bit(v, 0) = 1)
      [] OTHER -> c
ReadModifyWrites == {"INC", "DEC", "ASL", "LSR", "ROL", "ROR"}
ReadModifyWrite(c, i) ==
    LET v == Operand(c, i)
        w == Modified(c, i.op, v)
    IN  SetZN(Store(Shifted(c, i.op, v), i, w), w, 8)

Steps == {"INX", "INY", "DEX", "DEY"}
StepIndex(c, op) ==
    CASE op = "INX" -> LoadX(c, (c.x + 1) % 256)
      [] op = "INY" -> LoadY(c, (c.y + 1) % 256)
      [] op = "DEX" -> LoadX(c, (c.x - 1) % 256)
      [] op = "DEY" -> LoadY(c, (c.y - 1) % 256)

(* TRB, TSB, RMB, SMB of the 65C02. *)
BitWrites == {"TRB", "TSB", "RMB", "SMB"}
BitWrite(c, i) ==
    LET v == Operand(c, i)
        z == SetFlag(c, FlagZ, And(v, c.a) = 0)
    IN  CASE i.op = "TRB" -> Store(z, i, AndNot(v, c.a))
          [] i.op = "TSB" -> Store(z, i, Or(v, c.a))
          [] i.op = "RMB" -> Store(c, i, AndNot(v, 2 ^ i.bit))
          [] i.op = "SMB" -> Store(c, i, Or(v, 2 ^ i.bit))

----------------------------------------------------------------------------
(* Branches, BRA, and BBR / BBS, whose operand is a zero-page address and  *)
(* a displacement.                                                         *)
Taken(c, op) ==
    CASE op = "BPL" -> FlagN \notin c.p [] op = "BMI" -> FlagN \in c.p
      [] op = "BVC" -> FlagV \notin c.p [] op = "BVS" -> FlagV \in c.p
      [] op = "BCC" -> FlagC \notin c.p [] op = "BCS" -> FlagC \in c.p
      [] op = "BNE" -> FlagZ \notin c.p [] op = "BEQ" -> FlagZ \in c.p
      [] op = "BRA" -> TRUE
Branches == {"BPL", "BMI", "BVC", "BVS", "BCC", "BCS", "BNE", "BEQ", "BRA"}
Branch(c, i) == IF Taken(c, i.op) THEN [c EXCEPT !.pc = Resolve(c, i)] ELSE c

BitBranches == {"BBR", "BBS"}
BitBranch(c, i) ==
    LET v == Read(c, Lo(i.arg))
        set == Bit(v, i.bit) = 1
    IN  IF set = (i.op = "BBS")
        THEN [c EXCEPT !.pc = (@ + Signed(Hi(i.arg), 8)) % 65536] ELSE c

(* JSR fetches the high byte of its target after it has pushed, so a push  *)
(* that lands on that byte is what it reads.                               *)
Jsr(c, i) ==
    LET high   == (c.pc - 1) % 65536
        pushed == Push16(c, high)
        onto   == {256 + c.sp, 256 + ((c.sp - 1) % 256)}
        target == IF high \in onto THEN Read(pushed, high) ELSE Hi(i.arg)
    IN  [pushed EXCEPT !.pc = Pair(Lo(i.arg), target)]

Vector(c, a) == Pair(Read(c, a), Read(c, a + 1))
VecIRQ == 65534

(* opBRK: the byte after the opcode is skipped; the 65C02 clears D. *)
Brk(c) ==
    LET pushed == Push(Push16(c, (c.pc + 1) % 65536), PushedP(c))
        p == (c.p \cup {FlagI}) \ On(FlagD, CMOS(c))
    IN  [pushed EXCEPT !.p = p, !.pc = Vector(pushed, VecIRQ)]

(* serviceVector: no byte is skipped, and B of the pushed P is off. *)
Vectors6502 == [NMI |-> 65530, IRQ |-> VecIRQ]
Service6502(c, source) ==
    LET pushed == Push(Push16(c, c.pc), Num((c.p \cup {FlagU}) \ {FlagB}))
        p == (c.p \cup {FlagI}) \ On(FlagD, CMOS(c))
    IN  [pushed EXCEPT !.halted = FALSE, !.p = p,
                       !.pc = Vector(pushed, Vectors6502[source])]

Jumps == {"JMP", "JSR", "RTS", "RTI", "BRK"}
Jump(c, i) ==
    CASE i.op = "JMP" -> [c EXCEPT !.pc = Resolve(c, i)]
      [] i.op = "JSR" -> Jsr(c, i)
      [] i.op = "RTS" -> [Popped(c, 2) EXCEPT !.pc = (Top16(c, 1) + 1) % 65536]
      [] i.op = "RTI" -> [Popped(c, 3) EXCEPT !.p = PulledP(Top(c, 1)),
                                               !.pc = Top16(c, 2)]
      [] i.op = "BRK" -> Brk(c)

FlagOps == {"CLC", "SEC", "CLI", "SEI", "CLV", "CLD", "SED"}
FlagOp(c, op) ==
    CASE op = "CLC" -> SetFlag(c, FlagC, FALSE) [] op = "SEC" -> SetFlag(c, FlagC, TRUE)
      [] op = "CLI" -> SetFlag(c, FlagI, FALSE) [] op = "SEI" -> SetFlag(c, FlagI, TRUE)
      [] op = "CLD" -> SetFlag(c, FlagD, FALSE) [] op = "SED" -> SetFlag(c, FlagD, TRUE)
      [] op = "CLV" -> SetFlag(c, FlagV, FALSE)

Idles == {"NOP", "WAI", "STP"}
Idle(c, op) ==
    CASE op = "NOP" -> c
      [] op = "WAI" -> [c EXCEPT !.halted = TRUE]
      [] op = "STP" -> [c EXCEPT !.halted = TRUE, !.stoppedBySTP = TRUE]

----------------------------------------------------------------------------
(* The NMOS opcodes nobody documented.  Six modify memory and then combine *)
(* the result with A; in decimal mode ISC and RRA do not ask which variant *)
(* runs.                                                                   *)
Combined == {"DCP", "ISC", "SLO", "RLA", "SRE", "RRA"}
Halves(op) ==
    CASE op = "DCP" -> "DEC" [] op = "ISC" -> "INC" [] op = "SLO" -> "ASL"
      [] op = "RLA" -> "ROL" [] op = "SRE" -> "LSR" [] op = "RRA" -> "ROR"
Combine(c, i) ==
    LET v == Operand(c, i)
        w == Modified(c, Halves(i.op), v)
        m == Store(Shifted(c, Halves(i.op), v), i, w)
        decimal == FlagD \in c.p
    IN  CASE i.op = "DCP" -> Compare8(m, c.a, w)
          [] i.op = "ISC" -> IF decimal THEN SbcDecimal(m, w) ELSE SubBinary(m, w)
          [] i.op = "RRA" -> IF decimal THEN AdcDecimal(m, w) ELSE AddBinary(m, w)
          [] i.op = "SLO" -> Logic(m, "ORA", w)
          [] i.op = "RLA" -> Logic(m, "AND", w)
          [] i.op = "SRE" -> Logic(m, "EOR", w)

(* opARR: rotated right; in decimal mode each digit of five or more is     *)
(* corrected and C is the upper digit's carry.                             *)
Arr(c, t) ==
    LET r == (t \div 2) + 128 * CarryIn(c)
        low == IF (t % 16) + (t % 2) > 5
               THEN (r - (r % 16)) + ((r + 6) % 16) ELSE r
        up == (t - (t % 16)) + And(t, 16) > 80
        n == SetZN(c, r, 8)
        v == SetFlag(n, FlagV, Bit(t, 6) # Bit(r, 6))
    IN  IF FlagD \in c.p
        THEN [SetFlag(v, FlagC, up) EXCEPT !.a = (IF up THEN low + 96 ELSE low) % 256]
        ELSE [SetFlag(SetFlag(n, FlagC, Bit(r, 6) = 1), FlagV, Bit(r, 6) # Bit(r, 5))
                EXCEPT !.a = r]

(* opSBX: X becomes A /\ X less the operand. *)
Sbx(c, v) ==
    LET d == And(c.a, c.x) - v
    IN  LoadX(SetFlag(c, FlagC, d >= 0), d % 256)

Immediates == {"ANC", "ALR", "ARR", "SBX", "XAA", "LXA"}
Immediate(c, op, v) ==
    LET t == And(c.a, v)
        magic == And(Or(c.a, 238), v)
    IN  CASE op = "ANC" -> SetFlag(LoadA(c, t), FlagC, Bit(t, 7) = 1)
          [] op = "ALR" -> LoadA(SetFlag(c, FlagC, Bit(t, 0) = 1), t \div 2)
          [] op = "ARR" -> Arr(c, t)
          [] op = "SBX" -> Sbx(c, v)
          [] op = "XAA" -> LoadA(c, And(magic, c.x))
          [] op = "LXA" -> LoadA(LoadX(c, magic), magic)

(* LAX, SAX and the unstable stores, which store the register AND one more *)
(* than the upper byte of the address.                                     *)
Unstable == {"LAX", "LAS", "SAX", "SHA", "SHX", "SHY", "TAS"}
UnstableOp(c, i) ==
    LET v == Operand(c, i)
        both == And(c.a, c.x)
        page == (Hi(Resolve(c, i)) + 1) % 256
        s == And(v, c.sp)
    IN  CASE i.op = "LAX" -> LoadA(LoadX(c, v), v)
          [] i.op = "LAS" -> LoadA(LoadX([c EXCEPT !.sp = s], s), s)
          [] i.op = "SAX" -> Store(c, i, both)
          [] i.op = "SHA" -> Store(c, i, And(both, page))
          [] i.op = "SHX" -> Store(c, i, And(c.x, page))
          [] i.op = "SHY" -> Store(c, i, And(c.y, page))
          [] i.op = "TAS" -> Store([c EXCEPT !.sp = both], i, And(both, page))

----------------------------------------------------------------------------
(* The opcode tables: which instruction takes which addressing mode. *)
Memory8 == {"ZP", "ZPX", "ABS", "ABX", "ABY", "IZX", "IZY"}
Official ==
    ({"LDA", "AND", "EOR", "ORA", "ADC", "SBC", "CMP"} \X (Memory8 \cup {"IMM"}))
      \cup ({"STA"} \X Memory8)
      \cup ({"LDX"} \X {"IMM", "ZP", "ZPY", "ABS", "ABY"})
      \cup ({"LDY"} \X {"IMM", "ZP", "ZPX", "ABS", "ABX"})
      \cup ({"STX"} \X {"ZP", "ZPY", "ABS"}) \cup ({"STY"} \X {"ZP", "ZPX", "ABS"})
      \cup ({"BIT"} \X {"ZP", "ABS"}) \cup ({"CPX", "CPY"} \X {"IMM", "ZP", "ABS"})
      \cup ({"ASL", "LSR", "ROL", "ROR"} \X {"ACC", "ZP", "ZPX", "ABS", "ABX"})
      \cup ({"INC", "DEC"} \X {"ZP", "ZPX", "ABS", "ABX"})
      \cup ((Branches \ {"BRA"}) \X {"REL"})
      \cup {<<"JMP", "ABS">>, <<"JMP", "IND">>, <<"JSR", "JSRABS">>}
      \cup ((Transfers \cup Steps \cup FlagOps
               \cup {"PHA", "PHP", "PLA", "PLP", "RTS", "RTI", "BRK", "NOP"}) \X {"IMP"})

OfCMOS ==
    ({"BRA"} \X {"REL"}) \cup ({"PHX", "PHY", "PLX", "PLY", "WAI", "STP"} \X {"IMP"})
      \cup ({"STZ"} \X {"ZP", "ZPX", "ABS", "ABX"}) \cup ({"TRB", "TSB"} \X {"ZP", "ABS"})
      \cup ({"INC", "DEC"} \X {"ACC"}) \cup {<<"JMP", "IAX">>}
      \cup ({"BIT"} \X {"IMM", "ZPX", "ABX"})
      \cup ({"ORA", "AND", "EOR", "ADC", "STA", "LDA", "CMP", "SBC"} \X {"IZP"})
      \cup ({"RMB", "SMB"} \X {"ZP"}) \cup (BitBranches \X {"ZPR"})
CmosNOPs == {"NOP"} \X {"IMM", "ZP", "ZPX", "ABS"}

OfNMOS ==
    (Combined \X Memory8) \cup (Immediates \X {"IMM"})
      \cup ({"LAX"} \X {"ZP", "ZPY", "ABS", "ABY", "IZX", "IZY"})
      \cup ({"SAX"} \X {"ZP", "ZPY", "ABS", "IZX"})
      \cup {<<"SHA", "IZY">>, <<"SHA", "ABY">>, <<"SHY", "ABX">>, <<"SHX", "ABY">>,
             <<"TAS", "ABY">>, <<"LAS", "ABY">>}
      \cup ({"NOP"} \X {"IMM", "ZP", "ZPX", "ABS", "ABX"})

Opcodes(variant) ==
    Official \cup (IF variant = "65C02" THEN OfCMOS \cup CmosNOPs ELSE OfNMOS)

----------------------------------------------------------------------------
(* in.Exec: what instruction i makes of c once its bytes are fetched. *)
Exec(c, i) ==
    CASE i.op \in Loads -> Load(c, i.op, Operand(c, i))
      [] i.op \in Stores -> Store(c, i, Stored(c, i.op))
      [] i.op \in Transfers -> Transfer(c, i.op)
      [] i.op \in StackOps -> StackOp(c, i.op)
      [] i.op \in Logics -> Logic(c, i.op, Operand(c, i))
      [] i.op = "BIT" -> BitTest(c, i, Operand(c, i))
      [] i.op = "ADC" -> Adc(c, Operand(c, i))
      [] i.op = "SBC" -> Sbc(c, Operand(c, i))
      [] i.op \in Compares -> Compare(c, i.op, Operand(c, i))
      [] i.op \in ReadModifyWrites -> ReadModifyWrite(c, i)
      [] i.op \in Steps -> StepIndex(c, i.op)
      [] i.op \in BitWrites -> BitWrite(c, i)
      [] i.op \in Branches -> Branch(c, i)
      [] i.op \in BitBranches -> BitBranch(c, i)
      [] i.op \in Jumps -> Jump(c, i)
      [] i.op \in FlagOps -> FlagOp(c, i.op)
      [] i.op \in Idles -> Idle(c, i.op)
      [] i.op \in Combined -> Combine(c, i)
      [] i.op \in Immediates -> Immediate(c, i.op, Operand(c, i))
      [] i.op \in Unstable -> UnstableOp(c, i)

(* The instruction part of Step: an instruction that leaves PC where it    *)
(* was halts the debugger's variants.                                      *)
Step6502(c, i) ==
    LET fetched == [c EXCEPT !.pc = (@ + 1 + OperandBytes(i.mode)) % 65536]
        done == Exec(fetched, i)
    IN  [done EXCEPT !.halted = @ \/ (done.pc = c.pc /\ c.variant # "NES")]
=============================================================================
