------------------------------ MODULE Machine ------------------------------
(* What the two processor cores share: bytes and words, the status flags, *)
(* memory, and packed-decimal arithmetic.                                  *)
(*                                                                         *)
(* A processor is a record c whose fields are the fields of the CPU struct *)
(* (cpu/cpu.go); every method of the source that changes it is an operator *)
(* from a processor to a processor.  c.p is P as the set of the bits that  *)
(* are on.  c.mem is the memory, a function on the addresses written so    *)
(* far; any other address a reads as Fill(a).                              *)
EXTENDS Integers

CONSTANT Fill(_)

Byte == 0 .. 2 ^ 8 - 1
Word == 0 .. 2 ^ 16 - 1
Address == 0 .. 2 ^ 24 - 1

ASSUME FillsBytes == \A a \in Address : Fill(a) \in Byte

Lo(v) == v % 256
Hi(v) == (v \div 256) % 256
Pair(lo, hi) == lo + 256 * hi
Signed(v, bits) == IF v >= 2 ^ (bits - 1) THEN v - 2 ^ bits ELSE v

Bit(v, i) == (v \div 2 ^ i) % 2
Bits(v) == {i \in 0 .. 15 : Bit(v, i) = 1}
Num(s) ==
    LET b(i) == IF i \in s THEN 2 ^ i ELSE 0
    IN  b(0) + b(1) + b(2) + b(3) + b(4) + b(5) + b(6) + b(7) + b(8)
          + b(9) + b(10) + b(11) + b(12) + b(13) + b(14) + b(15)
And(v, w) == Num(Bits(v) \cap Bits(w))
Or(v, w)  == Num(Bits(v) \cup Bits(w))
Xor(v, w) == Num((Bits(v) \cup Bits(w)) \ (Bits(v) \cap Bits(w)))
AndNot(v, w) == Num(Bits(v) \ Bits(w))

----------------------------------------------------------------------------
(* The status register (cpu.go, cpu816.go: FlagM is FlagU, FlagX is FlagB). *)
FlagC == 0
FlagZ == 1
FlagI == 2
FlagD == 3
FlagB == 4
FlagU == 5
FlagV == 6
FlagN == 7
FlagX == FlagB
FlagM == FlagU
Flags == 0 .. 7

On(f, yes) == IF yes THEN {f} ELSE {}
SetFlag(c, f, yes) == [c EXCEPT !.p = (@ \ {f}) \cup On(f, yes)]
CarryIn(c) == IF FlagC \in c.p THEN 1 ELSE 0

(* N and Z of a result that is `bits' wide (setZN, setZN16). *)
SetZN(c, v, bits) ==
    [c EXCEPT !.p = (@ \ {FlagN, FlagZ}) \cup On(FlagZ, v = 0)
                                         \cup On(FlagN, Bit(v, bits - 1) = 1)]

----------------------------------------------------------------------------
Read(c, a) == IF a \in DOMAIN c.mem THEN c.mem[a] ELSE Fill(a)
Write(c, a, v) ==
    [c EXCEPT !.mem = [b \in {a} \cup DOMAIN c.mem |-> IF b = a THEN v ELSE c.mem[b]]]

----------------------------------------------------------------------------
(* Addition of two `bits'-wide numbers: the flags C and V of the binary sum *)
(* (opADC, adc816).  Subtraction adds the complement.                       *)
Overflow(a, v, sum, bits) ==
    Bit(a, bits - 1) = Bit(v, bits - 1) /\ Bit(sum, bits - 1) # Bit(a, bits - 1)
SetCV(c, a, v, sum, bits) ==
    [c EXCEPT !.p = (@ \ {FlagC, FlagV})
                      \cup On(FlagC, sum >= 2 ^ bits)
                      \cup On(FlagV, Overflow(a, v, sum, bits))]
Complement(v, bits) == 2 ^ bits - 1 - v

(* One decimal digit at weight u: the digits of a and v and what the lower  *)
(* digits left, corrected when the digit passes nine.                       *)
DigitSum(a, v, u, low) ==
    (((a \div u) % 16) + ((v \div u) % 16)) * u + low
DigitDiff(a, v, u, low) ==
    (((a \div u) % 16) - ((v \div u) % 16)) * u + low
(* A plausible slip: ten itself is taken for a digit. *)
CarryDigitAboveTen(s, u) ==
    IF s > 10 * u THEN ((s + 6 * u) % (16 * u)) + 16 * u ELSE s
CarryDigit(s, u) ==
    IF s >= 10 * u THEN ((s + 6 * u) % (16 * u)) + 16 * u ELSE s
BorrowDigit(s, u) ==
    IF s < 0 THEN ((s - 6 * u) % (16 * u)) - 16 * u ELSE s

(* The two digits of an 8-bit decimal sum before its last correction, and   *)
(* the corrected ones; the last correction does not mask.                   *)
PartialSum8(a, v, carry) ==
    DigitSum(a, v, 16, CarryDigit(DigitSum(a, v, 1, carry), 1))
DecimalSum8(a, v, carry) ==
    LET s == PartialSum8(a, v, carry) IN IF s >= 160 THEN s + 96 ELSE s
DecimalDiff8(a, v, carry) ==
    LET s == DigitDiff(a, v, 16, BorrowDigit(DigitDiff(a, v, 1, carry - 1), 1))
    IN  (IF s < 0 THEN s - 96 ELSE s) % 256
=============================================================================
