----------------------------- MODULE Cpu65816 -----------------------------
(* The 65816's own interpreter (cpu/exec816.go, ctrl816.go, addr816.go,    *)
(* arith816.go, cpu816.go).  A, X, Y and SP are the low bytes; b, xh, yh   *)
(* and sph hold the high ones.  e is the emulation mode; outside it the    *)
(* bits M and X of P choose 8-bit or 16-bit accumulator and index.  d, dbr *)
(* and pbr are the direct page, the data bank and the program bank.        *)
(*                                                                         *)
(* Instructions are those of Cpu6502, with modes of their own: SR and SRIY *)
(* (stack relative), LONG and LONGX, ILDP and ILDPY ([dp] and [dp],Y), IAL *)
(* (JML [abs]), RELL, and BLOCK, whose operand is a pair of banks.         *)
EXTENDS Cpu6502

MWide(c) == ~c.e /\ FlagM \notin c.p
XWide(c) == ~c.e /\ FlagX \notin c.p
AccBits(c) == IF MWide(c) THEN 16 ELSE 8
IdxBits(c) == IF XWide(c) THEN 16 ELSE 8

A16(c) == Pair(c.a, c.b)
X16(c) == Pair(c.x, c.xh)
Y16(c) == Pair(c.y, c.yh)
SP16(c) == Pair(c.sp, c.sph)
SetA16(c, v) == [c EXCEPT !.a = Lo(v), !.b = Hi(v)]
SetSPRaw(c, v) == [c EXCEPT !.sp = Lo(v), !.sph = Hi(v)]
Acc(c) == A16(c) % (2 ^ AccBits(c))
Xidx(c) == X16(c) % (2 ^ IdxBits(c))
Yidx(c) == Y16(c) % (2 ^ IdxBits(c))

At(bank, a) == bank * 65536 + a
Wrap24(a) == a % 16777216

(* applyWidthTruncation: M and X are locked in emulation mode, and a narrow *)
(* index has no high byte.                                                  *)
Truncated(c) ==
    LET p == c.p \cup (IF c.e THEN {FlagM, FlagX} ELSE {})
        narrow == c.e \/ FlagX \in p
    IN  [c EXCEPT !.p = p, !.xh = IF narrow THEN 0 ELSE @,
                           !.yh = IF narrow THEN 0 ELSE @]

----------------------------------------------------------------------------
(* Loads at the register's width: the low byte alone when it is narrow. *)
LoadAcc(c, v) ==
    IF MWide(c) THEN SetZN(SetA16(c, v), v, 16)
    ELSE SetZN([c EXCEPT !.a = Lo(v)], Lo(v), 8)
LoadIdxX(c, v) ==
    IF XWide(c) THEN SetZN([c EXCEPT !.x = Lo(v), !.xh = Hi(v)], v, 16)
    ELSE SetZN([c EXCEPT !.x = Lo(v)], Lo(v), 8)
LoadIdxY(c, v) ==
    IF XWide(c) THEN SetZN([c EXCEPT !.y = Lo(v), !.yh = Hi(v)], v, 16)
    ELSE SetZN([c EXCEPT !.y = Lo(v)], Lo(v), 8)

(* spPush8, spPull8: the page of the stack is locked in emulation mode. *)
SpMoved(c, n) ==
    IF c.e THEN [c EXCEPT !.sp = (@ + n) % 256]
    ELSE SetSPRaw(c, (SP16(c) + n) % 65536)
SpPush8(c, v) == SpMoved(Write(c, SP16(c), v), -1)
SpPush16(c, v) == SpPush8(SpPush8(c, Hi(v)), Lo(v))
SpTop(c, n) == Read(c, SP16(SpMoved(c, n)))
SpTop16(c, n) == Pair(SpTop(c, n), SpTop(c, n + 1))

(* spPushNew, spPullNew: the instructions the 6502 does not have move SP as *)
(* sixteen bits in either mode; spReforce puts the page back afterwards.    *)
NewMoved(c, n) == SetSPRaw(c, (SP16(c) + n) % 65536)
NewPush8(c, v) == NewMoved(Write(c, SP16(c), v), -1)
NewPush16(c, v) == NewPush8(NewPush8(c, Hi(v)), Lo(v))
NewTop(c, n) == Read(c, (SP16(c) + n) % 65536)
NewTop16(c, n) == Pair(NewTop(c, n), NewTop(c, n + 1))
Reforced(c) == [c EXCEPT !.sph = IF c.e THEN 1 ELSE @]

----------------------------------------------------------------------------
(* A plausible slip: the offset always carries out of the page. *)
DpBaseUnwrapped(c, dp, idx) == (c.d + dp + idx) % 65536
(* dpBase, dpOff: direct-page addresses; in emulation mode with a page-     *)
(* aligned direct page the offset wraps within the page.                    *)
DpBase(c, dp, idx) ==
    IF c.e /\ Lo(c.d) = 0 THEN c.d + ((dp + idx) % 256)
    ELSE (c.d + dp + idx) % 65536

(* readDPWord, readDPLong: the bytes of a pointer follow each other in bank *)
(* 0; readDPWordWrap and readDPLongWrap wrap each byte like DpBase.         *)
DpByte(c, base, n) == Read(c, (base + n) % 65536)
DpWord(c, base) == Pair(DpByte(c, base, 0), DpByte(c, base, 1))
DpLong(c, base) == At(DpByte(c, base, 2), DpWord(c, base))
DpWordWrap(c, dp) ==
    Pair(Read(c, DpBase(c, dp, 0)), Read(c, DpBase(c, dp, 1)))
DpLongWrap(c, dp) == At(Read(c, DpBase(c, dp, 2)), DpWordWrap(c, dp))

(* The am* resolvers.  A value at a bank-0 address wraps within the bank;   *)
(* elsewhere it carries into the next one, as an index does.                *)
InBank0(a) == [addr |-> a, bank0 |-> TRUE]
InBanks(a) == [addr |-> Wrap24(a), bank0 |-> FALSE]
InData(c, ptr, idx) == InBanks(At(c.dbr, ptr) + idx)
StackRel(c, arg) == (SP16(c) + arg) % 65536
StackPointer(c, arg) ==
    Pair(Read(c, StackRel(c, arg)), Read(c, (StackRel(c, arg) + 1) % 65536))
EA(c, i) ==
    CASE i.mode = "ZP" -> InBank0(DpBase(c, i.arg, 0))
      [] i.mode = "ZPX" -> InBank0(DpBase(c, i.arg, Xidx(c)))
      [] i.mode = "ZPY" -> InBank0(DpBase(c, i.arg, Yidx(c)))
      [] i.mode = "ABS" -> InData(c, i.arg, 0)
      [] i.mode = "ABX" -> InData(c, i.arg, Xidx(c))
      [] i.mode = "ABY" -> InData(c, i.arg, Yidx(c))
      [] i.mode = "LONG" -> InBanks(i.arg)
      [] i.mode = "LONGX" -> InBanks(i.arg + Xidx(c))
      [] i.mode = "IZP" -> InData(c, DpWord(c, DpBase(c, i.arg, 0)), 0)
      [] i.mode = "IZY" -> InData(c, DpWord(c, DpBase(c, i.arg, 0)), Yidx(c))
      [] i.mode = "IZX" -> InData(c, DpWord(c, DpBase(c, i.arg, Xidx(c))), 0)
      [] i.mode = "ILDP" -> InBanks(DpLong(c, DpBase(c, i.arg, 0)))
      [] i.mode = "ILDPY" -> InBanks(DpLongWrap(c, i.arg) + Yidx(c))
      [] i.mode = "SR" -> InBank0(StackRel(c, i.arg))
      [] i.mode = "SRIY" -> InData(c, StackPointer(c, i.arg), Yidx(c))

Above(ea) == IF ea.bank0 THEN (ea.addr + 1) % 65536 ELSE Wrap24(ea.addr + 1)
ReadEA(c, ea, bits) ==
    IF bits = 8 THEN Read(c, ea.addr)
    ELSE Pair(Read(c, ea.addr), Read(c, Above(ea)))
WriteEA(c, ea, bits, v) ==
    IF bits = 8 THEN Write(c, ea.addr, Lo(v))
    ELSE Write(Write(c, ea.addr, Lo(v)), Above(ea), Hi(v))

(* accRead / idxRead and the immediate forms: the operand at a width. *)
Operand816(c, i, bits) ==
    IF i.mode = "IMM" THEN i.arg % (2 ^ bits) ELSE ReadEA(c, EA(c, i), bits)

----------------------------------------------------------------------------
(* adcDecimal816, sbcDecimal816: two digits, or four when A is wide. *)
AddDigits16(a, v, carry) ==
    LET s1 == CarryDigit(DigitSum(a, v, 1, carry), 1)
        s2 == CarryDigit(DigitSum(a, v, 16, s1), 16)
        s3 == CarryDigit(DigitSum(a, v, 256, s2), 256)
    IN  DigitSum(a, v, 4096, s3)
SubDigits16(a, v, carry) ==
    LET s1 == BorrowDigit(DigitDiff(a, v, 1, carry - 1), 1)
        s2 == BorrowDigit(DigitDiff(a, v, 16, s1), 16)
        s3 == BorrowDigit(DigitDiff(a, v, 256, s2), 256)
        s4 == DigitDiff(a, v, 4096, s3)
    IN  (IF s4 < 0 THEN s4 - 24576 ELSE s4) % 65536

AdcDecimal816(c, v) ==
    LET n == AccBits(c)
        part == IF n = 16 THEN AddDigits16(Acc(c), v, CarryIn(c))
                ELSE PartialSum8(Acc(c), v, CarryIn(c))
        sum == IF part >= 10 * 2 ^ (n - 4) THEN part + 6 * 2 ^ (n - 4) ELSE part
    IN  LoadAcc([c EXCEPT !.p = (@ \ {FlagC, FlagV})
                                  \cup On(FlagC, sum >= 2 ^ n)
                                  \cup On(FlagV, Overflow(Acc(c), v, part, n))],
                sum % (2 ^ n))

Adc816(c, v) ==
    LET sum == Acc(c) + v + CarryIn(c)
    IN  IF FlagD \in c.p THEN AdcDecimal816(c, v)
        ELSE LoadAcc(SetCV(c, Acc(c), v, sum, AccBits(c)), sum % (2 ^ AccBits(c)))

(* C and V are the binary subtraction's, in decimal mode too. *)
Sbc816(c, v) ==
    LET w == Complement(v, AccBits(c))
        sum == Acc(c) + w + CarryIn(c)
        f == SetCV(c, Acc(c), w, sum, AccBits(c))
        decimal == IF MWide(c) THEN SubDigits16(Acc(c), v, CarryIn(c))
                   ELSE DecimalDiff8(Acc(c), v, CarryIn(c))
    IN  LoadAcc(f, IF FlagD \in c.p THEN decimal ELSE sum % (2 ^ AccBits(c)))

CompareAt(c, reg, v, bits) ==
    LET r == reg % (2 ^ bits) w == v % (2 ^ bits)
    IN  SetZN(SetFlag(c, FlagC, r >= w), (r - w) % (2 ^ bits), bits)

(* bitV, and the immediate BIT, which sets Z alone. *)
Bit816(c, i, v) ==
    LET z == SetFlag(c, FlagZ, And(Acc(c), v) = 0)
        n == AccBits(c)
    IN  IF i.mode = "IMM" THEN z
        ELSE SetFlag(SetFlag(z, FlagN, Bit(v, n - 1) = 1), FlagV, Bit(v, n - 2) = 1)

----------------------------------------------------------------------------
(* oraV, andV, eorV, adc816, sbc816, loadAcc, cmpAccV and bitV, and the     *)
(* instructions that read an operand of the accumulator's width.            *)
AccReads == {"ORA", "AND", "EOR", "ADC", "SBC", "LDA", "CMP", "BIT"}
LogicReads(c, op, v) ==
    LoadAcc(c, CASE op = "ORA" -> Or(Acc(c), v)
                 [] op = "AND" -> And(Acc(c), v)
                 [] op = "EOR" -> Xor(Acc(c), v))
AccRead(c, i) ==
    LET v == Operand816(c, i, AccBits(c))
    IN  CASE i.op \in Logics -> LogicReads(c, i.op, v)
          [] i.op = "ADC" -> Adc816(c, v)
          [] i.op = "SBC" -> Sbc816(c, v)
          [] i.op = "LDA" -> LoadAcc(c, v)
          [] i.op = "CMP" -> CompareAt(c, A16(c), v, AccBits(c))
          [] i.op = "BIT" -> Bit816(c, i, v)

(* LDX, LDY, CPX, CPY. *)
IdxReads == {"LDX", "LDY", "CPX", "CPY"}
IdxRead(c, i) ==
    LET v == Operand816(c, i, IdxBits(c))
    IN  CASE i.op = "LDX" -> LoadIdxX(c, v)
          [] i.op = "LDY" -> LoadIdxY(c, v)
          [] i.op = "CPX" -> CompareAt(c, X16(c), v, IdxBits(c))
          [] i.op = "CPY" -> CompareAt(c, Y16(c), v, IdxBits(c))

(* STA, STZ, STX, STY. *)
Writes816(c, i) ==
    CASE i.op = "STA" -> WriteEA(c, EA(c, i), AccBits(c), A16(c))
      [] i.op = "STZ" -> WriteEA(c, EA(c, i), AccBits(c), 0)
      [] i.op = "STX" -> WriteEA(c, EA(c, i), IdxBits(c), X16(c))
      [] i.op = "STY" -> WriteEA(c, EA(c, i), IdxBits(c), Y16(c))

(* rmwASL .. rmwDEC, tsb, trb: the value, and the flags it leaves. *)
RmwValue(c, op, v, n) ==
    CASE op = "INC" -> (v + 1) % (2 ^ n)
      [] op = "DEC" -> (v - 1) % (2 ^ n)
      [] op = "ASL" -> (2 * v) % (2 ^ n)
      [] op = "LSR" -> v \div 2
      [] op = "ROL" -> (2 * v + CarryIn(c)) % (2 ^ n)
      [] op = "ROR" -> (v \div 2) + (2 ^ (n - 1)) * CarryIn(c)
      [] op = "TSB" -> Or(v, Acc(c))
      [] op = "TRB" -> AndNot(v, Acc(c))
RmwFlags(c, op, v, n) ==
    IF op \in {"TSB", "TRB"} THEN SetFlag(c, FlagZ, And(v, Acc(c)) = 0)
    ELSE LET carry == CASE op \in {"ASL", "ROL"} -> SetFlag(c, FlagC, Bit(v, n - 1) = 1)
                        [] op \in {"LSR", "ROR"} -> SetFlag(c, FlagC, Bit(v, 0) = 1)
                        [] OTHER -> c
         IN  SetZN(carry, RmwValue(c, op, v, n), n)

(* rmwMem, accRMW, incDecAcc. *)
Rmw816(c, i) ==
    LET n == AccBits(c)
        v == IF i.mode = "ACC" THEN Acc(c) ELSE ReadEA(c, EA(c, i), n)
        w == RmwValue(c, i.op, v, n)
        f == RmwFlags(c, i.op, v, n)
    IN  IF i.mode # "ACC" THEN WriteEA(f, EA(c, i), n, w)
        ELSE IF MWide(c) THEN SetA16(f, w) ELSE [f EXCEPT !.a = w]

----------------------------------------------------------------------------
(* incDecIndex, transferToIndex, transferToAcc, and the transfers of the    *)
(* registers that are always sixteen bits.                                  *)
Registers816 == {"INX", "INY", "DEX", "DEY", "TAX", "TAY", "TSX", "TXA", "TYA", "TXS",
                 "TXY", "TYX", "TCD", "TDC", "TCS", "TSC", "XBA"}
Register816(c, op) ==
    CASE op = "INX" -> LoadIdxX(c, (X16(c) + 1) % 65536)
      [] op = "DEX" -> LoadIdxX(c, (X16(c) - 1) % 65536)
      [] op = "INY" -> LoadIdxY(c, (Y16(c) + 1) % 65536)
      [] op = "DEY" -> LoadIdxY(c, (Y16(c) - 1) % 65536)
      [] op = "TAX" -> LoadIdxX(c, A16(c))
      [] op = "TAY" -> LoadIdxY(c, A16(c))
      [] op = "TSX" -> LoadIdxX(c, SP16(c))
      [] op = "TYX" -> LoadIdxX(c, Y16(c))
      [] op = "TXY" -> LoadIdxY(c, X16(c))
      [] op = "TXA" -> LoadAcc(c, X16(c))
      [] op = "TYA" -> LoadAcc(c, Y16(c))
      [] op = "TXS" -> Reforced([c EXCEPT !.sp = c.x, !.sph = c.xh])
      [] op = "TCS" -> Reforced([c EXCEPT !.sp = c.a, !.sph = c.b])
      [] op = "TCD" -> SetZN([c EXCEPT !.d = A16(c)], A16(c), 16)
      [] op = "TDC" -> SetZN(SetA16(c, c.d), c.d, 16)
      [] op = "TSC" -> SetZN(SetA16(c, SP16(c)), SP16(c), 16)
      [] op = "XBA" -> SetZN([c EXCEPT !.a = c.b, !.b = c.a], c.b, 8)

(* XCE, SEP, REP: mode control. *)
ModeControls == {"XCE", "SEP", "REP"}
(* A plausible slip: entering emulation mode leaves the stack where it is. *)
XceKeepingStack(c) ==
    LET s == SetFlag([c EXCEPT !.e = FlagC \in c.p], FlagC, c.e)
    IN  IF s.e THEN Truncated(s) ELSE s
Xce(c) ==
    LET s == SetFlag([c EXCEPT !.e = FlagC \in c.p], FlagC, c.e)
    IN  IF s.e THEN Truncated(Reforced(s)) ELSE s
ModeControl(c, i) ==
    CASE i.op = "XCE" -> Xce(c)
      [] i.op = "SEP" -> Truncated([c EXCEPT !.p = @ \cup Bits(Lo(i.arg))])
      [] i.op = "REP" -> [c EXCEPT !.p = (@ \ Bits(Lo(i.arg)))
                                          \cup (IF c.e THEN {FlagM, FlagX} ELSE {})]

----------------------------------------------------------------------------
(* Pushes and pulls at a register's width. *)
PushWide(c, v, bits) == IF bits = 16 THEN SpPush16(c, v) ELSE SpPush8(c, Lo(v))
SpPulled(c, bits) == SpMoved(c, bits \div 8)
PulledWide(c, bits) == IF bits = 16 THEN SpTop16(c, 1) ELSE SpTop(c, 1)
(* A plausible slip: a pulled X flag narrows the indexes but not their values. *)
PlpAsPulled(c) ==
    [SpMoved(c, 1) EXCEPT !.p = Bits(SpTop(c, 1)) \cup (IF c.e THEN {FlagM, FlagX} ELSE {})]
Plp816(c) == Truncated([SpMoved(c, 1) EXCEPT !.p = Bits(SpTop(c, 1))])

Stack816 == {"PHA", "PLA", "PHX", "PLX", "PHY", "PLY", "PHP", "PLP", "PHB", "PLB", "PHK"}
StackOp816(c, op) ==
    CASE op = "PHA" -> PushWide(c, A16(c), AccBits(c))
      [] op = "PHX" -> PushWide(c, X16(c), IdxBits(c))
      [] op = "PHY" -> PushWide(c, Y16(c), IdxBits(c))
      [] op = "PLA" -> LoadAcc(SpPulled(c, AccBits(c)), PulledWide(c, AccBits(c)))
      [] op = "PLX" -> LoadIdxX(SpPulled(c, IdxBits(c)), PulledWide(c, IdxBits(c)))
      [] op = "PLY" -> LoadIdxY(SpPulled(c, IdxBits(c)), PulledWide(c, IdxBits(c)))
      [] op = "PHP" -> SpPush8(c, Num(c.p))
      [] op = "PLP" -> Plp816(c)
      [] op = "PHB" -> SpPush8(c, c.dbr)
      [] op = "PHK" -> SpPush8(c, c.pbr)
      [] op = "PLB" -> SetZN([SpMoved(c, 1) EXCEPT !.dbr = SpTop(c, 1)], SpTop(c, 1), 8)

(* PHD, PLD, PEA, PEI, PER. *)
NewStack == {"PHD", "PLD", "PEA", "PEI", "PER"}
NewStackOp(c, i) ==
    Reforced(CASE i.op = "PHD" -> NewPush16(c, c.d)
               [] i.op = "PEA" -> NewPush16(c, i.arg)
               [] i.op = "PEI" -> NewPush16(c, DpWordWrap(c, i.arg))
               [] i.op = "PER" -> NewPush16(c, (c.pc + Signed(i.arg, 16)) % 65536)
               [] i.op = "PLD" -> SetZN([NewMoved(c, 2) EXCEPT !.d = NewTop16(c, 1)],
                                        NewTop16(c, 1), 16))

----------------------------------------------------------------------------
(* The last operand byte of JSL and of JSR (abs,X) is fetched after a push, *)
(* which may have landed on it.                                             *)
LastByte(c, pushed, slots, byte) ==
    LET a == At(c.pbr, (c.pc - 1) % 65536)
    IN  IF a \in slots THEN Read(pushed, a) ELSE byte

Jsl(c, i) ==
    LET one == NewPush8(c, c.pbr)
        bank == LastByte(c, one, {SP16(c)}, i.arg \div 65536)
    IN  [Reforced(NewPush16(one, (c.pc - 1) % 65536))
           EXCEPT !.pbr = bank, !.pc = i.arg % 65536]

(* A pointer in the program bank: its second byte stays in the bank. *)
ProgramPointer(c, a) ==
    Pair(Read(c, At(c.pbr, a % 65536)), Read(c, At(c.pbr, (a + 1) % 65536)))

JsrIndirect(c, i) ==
    LET pushed == SpPush16(c, (c.pc - 1) % 65536)
        slots == {SP16(c), SP16(SpMoved(c, -1))}
        base == Pair(Lo(i.arg), LastByte(c, pushed, slots, Hi(i.arg)))
    IN  [pushed EXCEPT !.pc = ProgramPointer(pushed, base + Xidx(c))]

(* A plausible slip: the frame is taken for native mode's in both modes. *)
RtiWithBank(c) ==
    LET f == Plp816(c)
    IN  [SpMoved(f, 3) EXCEPT !.pc = SpTop16(f, 1), !.pbr = SpTop(f, 3)]
(* rti: the program bank is pulled in native mode only. *)
Rti816(c) ==
    LET f == Plp816(c)
        r == [SpMoved(f, 2) EXCEPT !.pc = SpTop16(f, 1)]
    IN  IF r.e THEN r ELSE [SpMoved(r, 1) EXCEPT !.pbr = SpTop(r, 1)]

Jumps816 == {"JMP", "JML", "JSR", "JSL", "RTS", "RTL", "RTI"}
Jump816(c, i) ==
    CASE i.op = "JMP" /\ i.mode = "ABS" -> [c EXCEPT !.pc = i.arg]
      [] i.op = "JMP" /\ i.mode = "IND" -> [c EXCEPT !.pc = DpWord(c, i.arg)]
      [] i.op = "JMP" /\ i.mode = "IAX" ->
           [c EXCEPT !.pc = ProgramPointer(c, i.arg + Xidx(c))]
      [] i.op = "JML" /\ i.mode = "LONG" ->
           [c EXCEPT !.pbr = i.arg \div 65536, !.pc = i.arg % 65536]
      [] i.op = "JML" /\ i.mode = "IAL" ->
           [c EXCEPT !.pbr = DpByte(c, i.arg, 2), !.pc = DpWord(c, i.arg)]
      [] i.op = "JSR" /\ i.mode = "JSRABS" ->
           [SpPush16(c, (c.pc - 1) % 65536) EXCEPT !.pc = i.arg]
      [] i.op = "JSR" /\ i.mode = "IAX" -> JsrIndirect(c, i)
      [] i.op = "JSL" -> Jsl(c, i)
      [] i.op = "RTS" -> [SpMoved(c, 2) EXCEPT !.pc = (SpTop16(c, 1) + 1) % 65536]
      [] i.op = "RTL" -> [Reforced(NewMoved(c, 3)) EXCEPT
                             !.pc = (NewTop16(c, 1) + 1) % 65536, !.pbr = NewTop(c, 3)]
      [] i.op = "RTI" -> Rti816(c)

(* branch816, brl. *)
Branch816(c, i) ==
    CASE i.op = "BRL" -> [c EXCEPT !.pc = (@ + Signed(i.arg, 16)) % 65536]
      [] OTHER -> IF Taken(c, i.op) THEN [c EXCEPT !.pc = (@ + Signed(i.arg, 8)) % 65536]
                  ELSE c

----------------------------------------------------------------------------
(* What brk, cop and a hardware interrupt have in common: the frame, and    *)
(* the vector of the mode.                                                  *)
Entered(c, pc, p, emulated, native) ==
    LET frame == IF c.e THEN SpPush8(SpPush16(c, pc), Num(p))
                 ELSE SpPush8(SpPush16(SpPush8(c, c.pbr), pc), Num(p))
    IN  [frame EXCEPT !.pbr = 0, !.p = (@ \cup {FlagI}) \ {FlagD},
                      !.pc = Vector(frame, IF c.e THEN emulated ELSE native)]

(* brk, cop: the byte after the opcode is skipped. *)
Brk816(c) == Entered(c, (c.pc + 1) % 65536,
                     IF c.e THEN c.p \cup {FlagB} ELSE c.p, 65534, 65510)
Cop816(c) == Entered(c, (c.pc + 1) % 65536, c.p, 65524, 65508)

(* serviceInterrupt816: in emulation mode B of the pushed P is off. *)
Vectors816 == [NMI |-> <<65530, 65514>>, IRQ |-> <<65534, 65518>>, ABORT |-> <<65528, 65512>>]
Service816(c, source) ==
    Entered([c EXCEPT !.halted = FALSE], c.pc,
            IF c.e THEN (c.p \cup {FlagU}) \ {FlagB} ELSE c.p,
            Vectors816[source][1], Vectors816[source][2])

(* blockMove: C + 1 bytes, whatever the widths; the source and destination  *)
(* wrap within their banks.  MVN ascends, MVP descends.                     *)
BlockMoves == {"MVN", "MVP"}
BlockMove(c, i) ==
    LET by == IF i.op = "MVN" THEN 1 ELSE -1
        n == A16(c) + 1
        from(k) == At(Hi(i.arg), (X16(c) + by * k) % 65536)
        to(k) == At(Lo(i.arg), (Y16(c) + by * k) % 65536)
        moved[k \in 0 .. n] ==
            IF k = 0 THEN c
            ELSE Write(moved[k - 1], to(k - 1), Read(moved[k - 1], from(k - 1)))
        x == (X16(c) + by * n) % 65536
        y == (Y16(c) + by * n) % 65536
    IN  [moved[n] EXCEPT !.a = 255, !.b = 255, !.dbr = Lo(i.arg),
                         !.x = Lo(x), !.xh = Hi(x), !.y = Lo(y), !.yh = Hi(y)]

(* NOP, WDM, WAI, STP. *)
Idles816 == {"NOP", "WDM", "WAI", "STP"}
Idle816(c, op) == IF op = "WDM" THEN [c EXCEPT !.pc = (@ + 1) % 65536] ELSE Idle(c, op)

----------------------------------------------------------------------------
(* The opcodes of step816 and their modes. *)
Memory816 == Memory8 \cup {"IZP", "LONG", "LONGX", "ILDP", "ILDPY", "SR", "SRIY"}
AccOpcodes ==
    ({"ORA", "AND", "EOR", "ADC", "LDA", "CMP", "SBC"} \X (Memory816 \cup {"IMM"}))
      \cup ({"STA"} \X Memory816)
OtherOpcodes ==
    ({"LDX"} \X {"IMM", "ZP", "ZPY", "ABS", "ABY"})
      \cup ({"LDY"} \X {"IMM", "ZP", "ZPX", "ABS", "ABX"})
      \cup ({"STX"} \X {"ZP", "ZPY", "ABS"}) \cup ({"STY"} \X {"ZP", "ZPX", "ABS"})
      \cup ({"STZ"} \X {"ZP", "ZPX", "ABS", "ABX"})
      \cup ({"CPX", "CPY"} \X {"IMM", "ZP", "ABS"})
      \cup ({"BIT"} \X {"IMM", "ZP", "ABS", "ZPX", "ABX"})
      \cup ({"ASL", "LSR", "ROL", "ROR", "INC", "DEC"} \X {"ACC", "ZP", "ZPX", "ABS", "ABX"})
      \cup ({"TSB", "TRB"} \X {"ZP", "ABS"})
ControlOpcodes ==
    ((Registers816 \cup FlagOps \cup Stack816 \cup Idles816
        \cup {"XCE", "PHD", "PLD", "RTS", "RTL", "RTI", "BRK", "COP"}) \X {"IMP"})
      \cup ({"SEP", "REP"} \X {"IMM"}) \cup (Branches \X {"REL"})
      \cup {<<"BRL", "RELL">>, <<"PER", "RELL">>, <<"PEA", "ABS">>, <<"PEI", "ZP">>,
             <<"JMP", "ABS">>, <<"JMP", "IND">>, <<"JMP", "IAX">>, <<"JML", "LONG">>,
             <<"JML", "IAL">>, <<"JSR", "JSRABS">>, <<"JSR", "IAX">>, <<"JSL", "LONG">>,
             <<"MVN", "BLOCK">>, <<"MVP", "BLOCK">>}
Opcodes816 == AccOpcodes \cup OtherOpcodes \cup ControlOpcodes

(* readImm and the resolvers' fetches: an immediate is as wide as the       *)
(* register it goes to.                                                     *)
OperandBytes816(c, i) ==
    CASE i.mode \in {"IMP", "ACC"} -> 0
      [] i.mode \in {"LONG", "LONGX"} -> 3
      [] i.mode \in {"ABS", "ABX", "ABY", "IND", "IAX", "IAL", "JSRABS", "RELL", "BLOCK"} -> 2
      [] i.mode = "IMM" /\ i.op \in AccReads -> AccBits(c) \div 8
      [] i.mode = "IMM" /\ i.op \in IdxReads -> IdxBits(c) \div 8
      [] OTHER -> 1

Exec816(c, i) ==
    CASE i.op \in AccReads -> AccRead(c, i)
      [] i.op \in IdxReads -> IdxRead(c, i)
      [] i.op \in Stores -> Writes816(c, i)
      [] i.op \in ReadModifyWrites \cup {"TSB", "TRB"} -> Rmw816(c, i)
      [] i.op \in Registers816 -> Register816(c, i.op)
      [] i.op \in FlagOps -> FlagOp(c, i.op)
      [] i.op \in ModeControls -> ModeControl(c, i)
      [] i.op \in Stack816 -> StackOp816(c, i.op)
      [] i.op \in NewStack -> NewStackOp(c, i)
      [] i.op \in Jumps816 -> Jump816(c, i)
      [] i.op \in Branches \cup {"BRL"} -> Branch816(c, i)
      [] i.op = "BRK" -> Brk816(c)
      [] i.op = "COP" -> Cop816(c)
      [] i.op \in BlockMoves -> BlockMove(c, i)
      [] i.op \in Idles816 -> Idle816(c, i.op)

(* step816. *)
Step816(c, i) ==
    LET fetched == [c EXCEPT !.pc = (@ + 1 + OperandBytes816(c, i)) % 65536]
        done == Exec816(fetched, i)
    IN  [done EXCEPT !.halted = @ \/ done.pc = c.pc]
=============================================================================
