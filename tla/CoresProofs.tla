----------------------------- MODULE CoresProofs -----------------------------
(***************************************************************************)
(* Proofs about the processors of Cores, for every menu of instructions,   *)
(* every number of steps, every size of a block move and every memory:     *)
(* types, the page of an emulated stack, narrow index registers, decimal   *)
(* arithmetic, that returns undo calls and interrupts, and that an         *)
(* emulated 65816 does what a 65C02 does.                                  *)
(*                                                                         *)
(* The argument is one about operators. A lemma for each group of          *)
(* instructions says how the processor it returns relates to the one it    *)
(* was given (Typed, Calm, Even, Lawful; Adds and Subtracts; StackAt,      *)
(* Framed and Restored; Twin), and the theorems put them together through  *)
(* the tables of opcodes.                                                  *)
(***************************************************************************)
EXTENDS Cores, WellFoundedInduction, TLAPS

-------------------------------------------------------------------------------
(* Numbers of eight and sixteen bits: wrapping, halves and bits.           *)

(* The three ranges as inequalities.                                       *)
LEMMA Ranges ==
  ASSUME NEW v
  PROVE  /\ v \in Byte <=> v \in Int /\ 0 <= v /\ v < 256
         /\ v \in Word <=> v \in Int /\ 0 <= v /\ v < 65536
         /\ v \in Address <=> v \in Int /\ 0 <= v /\ v < 16777216
  BY SMT DEF Byte, Word, Address

LEMMA Wider == (\A v \in Byte : v \in Word) /\ (\A v \in Word : v \in Address)
  BY Ranges, SMT

(* Remainders: where they lie, and what does not change them.              *)
LEMMA Wraps ==
  \A v \in Int : v % 256 \in Byte /\ v % 65536 \in Word /\ v % 16777216 \in Address
<1> TAKE v \in Int
<1>1. v % 256 \in Byte
  BY Ranges, SMT
<1>2. v % 65536 \in Word
  BY Ranges, SMT
<1>3. v % 16777216 \in Address
  BY Ranges, SMT
<1> QED BY <1>1, <1>2, <1>3

LEMMA Wrapped ==
  /\ \A v \in Byte : v % 256 = v
  /\ \A v \in Word : v % 65536 = v
  /\ \A v \in Address : v % 16777216 = v
<1>1. \A v \in Byte : v % 256 = v
  BY Ranges, SMT
<1>2. \A v \in Word : v % 65536 = v
  BY Ranges, SMT
<1>3. \A v \in Address : v % 16777216 = v
  BY Ranges, SMT
<1> QED BY <1>1, <1>2, <1>3

(* The halves of a word, and the word of two halves.                       *)
LEMMA LoHiType == \A v \in Int : Lo(v) \in Byte /\ Hi(v) \in Byte
<1> TAKE v \in Int
<1>1. v \div 256 \in Int
  OBVIOUS
<1> QED BY <1>1, Wraps, SMT DEF Lo, Hi

LEMMA LoHiOfByte == \A v \in Byte : Lo(v) = v /\ Hi(v) = 0
<1> TAKE v \in Byte
<1>1. Lo(v) = v
  BY Wrapped, SMT DEF Lo
<1>2. v \div 256 = 0
  BY Ranges, SMT
<1> QED BY <1>1, <1>2 DEF Hi

LEMMA HiOfWord == \A v \in Word : Hi(v) = v \div 256 /\ v \div 256 \in Byte
<1> TAKE v \in Word
<1>1. v \div 256 \in Int
  BY Ranges, SMT
<1>2. 0 <= v \div 256
  BY Ranges, SMT
<1>3. v \div 256 < 256
  BY Ranges, SMT
<1>4. v \div 256 \in Byte
  BY <1>1, <1>2, <1>3, Ranges, SMT
<1> QED BY <1>4, Wrapped, SMT DEF Hi

LEMMA PairOfHalves == \A v \in Word : Pair(Lo(v), Hi(v)) = v
<1> TAKE v \in Word
<1>1. v = 256 * (v \div 256) + (v % 256)
  BY Ranges, SMT
<1>2. (v \div 256) \in Int /\ (v % 256) \in Int
  BY Ranges, SMT
<1> QED BY <1>1, <1>2, HiOfWord DEF Pair, Lo

LEMMA PairType == \A lo, hi \in Byte : Pair(lo, hi) \in Word
  BY Ranges, SMT DEF Pair

LEMMA HalvesOfPair == \A lo, hi \in Byte : Lo(Pair(lo, hi)) = lo /\ Hi(Pair(lo, hi)) = hi
<1> TAKE lo, hi \in Byte
<1>1. (lo + 256 * hi) % 256 = lo
  BY Ranges, SMT
<1>2. (lo + 256 * hi) \div 256 = hi
  BY Ranges, SMT
<1>3. Hi(Pair(lo, hi)) = hi
  BY <1>2, Wrapped, SMT DEF Pair, Hi
<1> QED BY <1>1, <1>3 DEF Pair, Lo

(* The powers of two. *)
LEMMA Powers ==
  /\ 2 ^ 0 = 1 /\ 2 ^ 1 = 2 /\ 2 ^ 2 = 4 /\ 2 ^ 3 = 8 /\ 2 ^ 4 = 16 /\ 2 ^ 5 = 32
  /\ 2 ^ 6 = 64 /\ 2 ^ 7 = 128 /\ 2 ^ 8 = 256 /\ 2 ^ 9 = 512 /\ 2 ^ 10 = 1024
  /\ 2 ^ 11 = 2048 /\ 2 ^ 12 = 4096 /\ 2 ^ 13 = 8192 /\ 2 ^ 14 = 16384
  /\ 2 ^ 15 = 32768 /\ 2 ^ 16 = 65536
  BY SMT

LowBits == {0, 1, 2, 3, 4, 5, 6, 7}

HighBits == {8, 9, 10, 11, 12, 13, 14, 15}

LEMMA UpTo15 == 0 .. 15 = LowBits \cup HighBits /\ Flags = LowBits
  BY SMT DEF LowBits, HighBits, Flags

LEMMA Positive == ASSUME NEW i \in LowBits \cup HighBits PROVE 2 ^ i \in Nat \ {0}
<1>1. /\ 2 ^ 0 \in Nat \ {0} /\ 2 ^ 1 \in Nat \ {0} /\ 2 ^ 2 \in Nat \ {0}
      /\ 2 ^ 3 \in Nat \ {0} /\ 2 ^ 4 \in Nat \ {0} /\ 2 ^ 5 \in Nat \ {0}
      /\ 2 ^ 6 \in Nat \ {0} /\ 2 ^ 7 \in Nat \ {0} /\ 2 ^ 8 \in Nat \ {0}
      /\ 2 ^ 9 \in Nat \ {0} /\ 2 ^ 10 \in Nat \ {0} /\ 2 ^ 11 \in Nat \ {0}
      /\ 2 ^ 12 \in Nat \ {0} /\ 2 ^ 13 \in Nat \ {0} /\ 2 ^ 14 \in Nat \ {0}
      /\ 2 ^ 15 \in Nat \ {0}
  BY Powers, SMT
<1> QED BY <1>1, Zenon DEF LowBits, HighBits

LEMMA LowPowers == ASSUME NEW i \in LowBits PROVE 2 ^ i \in Byte
<1>1. /\ 2 ^ 0 \in Byte /\ 2 ^ 1 \in Byte /\ 2 ^ 2 \in Byte /\ 2 ^ 3 \in Byte
      /\ 2 ^ 4 \in Byte /\ 2 ^ 5 \in Byte /\ 2 ^ 6 \in Byte /\ 2 ^ 7 \in Byte
  BY Powers, Ranges, SMT
<1> QED BY <1>1, Zenon DEF LowBits

LEMMA HighPowers == ASSUME NEW i \in HighBits PROVE 2 ^ i >= 256
<1>1. /\ 2 ^ 8 >= 256 /\ 2 ^ 9 >= 256 /\ 2 ^ 10 >= 256 /\ 2 ^ 11 >= 256
      /\ 2 ^ 12 >= 256 /\ 2 ^ 13 >= 256 /\ 2 ^ 14 >= 256 /\ 2 ^ 15 >= 256
  BY Powers, SMT
<1> QED BY <1>1, Zenon DEF HighBits

(* Which flags a byte sets, and the byte of a set of flags.                *)
LEMMA BitsOfByte ==
  ASSUME NEW v \in Byte
  PROVE  Bits(v) \in SUBSET Flags
<1>1. ASSUME NEW i \in HighBits PROVE Bit(v, i) = 0
  <2> DEFINE u == 2 ^ i
  <2>3. u \in Nat /\ u >= 256
    BY <1>1, HighPowers, Positive
  <2>4. v \in Int /\ 0 <= v /\ v < u
    BY <2>3, Ranges, SMT
  <2>5. v \div u = 0
    <3> HIDE DEF u
    <3> QED BY <2>3, <2>4
  <2> QED BY <2>5 DEF Bit
<1> QED BY <1>1, UpTo15 DEF Bits

LEMMA NumType ==
  ASSUME NEW s
  PROVE  Num(s) \in Word /\ (s \subseteq Flags => Num(s) \in Byte)
<1> DEFINE b(i) == IF i \in s THEN 2 ^ i ELSE 0
           low == b(0) + b(1) + b(2) + b(3) + b(4) + b(5) + b(6) + b(7)
           high == b(8) + b(9) + b(10) + b(11) + b(12) + b(13) + b(14) + b(15)
<1>1. low \in Int /\ 0 <= low /\ low < 256
  BY Powers, SMT
<1>2. high \in Int /\ 0 <= high /\ high <= 65280
  BY Powers, SMT
<1>3. s \subseteq Flags => high = 0
  BY DEF Flags
<1>4. Num(s) = low + high
  <2>1. /\ b(0) \in Int /\ b(1) \in Int /\ b(2) \in Int /\ b(3) \in Int /\ b(4) \in Int
        /\ b(5) \in Int /\ b(6) \in Int /\ b(7) \in Int /\ b(8) \in Int /\ b(9) \in Int
        /\ b(10) \in Int /\ b(11) \in Int /\ b(12) \in Int /\ b(13) \in Int
        /\ b(14) \in Int /\ b(15) \in Int
    BY Powers, SMT
  <2>2. Num(s) = b(0) + b(1) + b(2) + b(3) + b(4) + b(5) + b(6) + b(7) + b(8)
          + b(9) + b(10) + b(11) + b(12) + b(13) + b(14) + b(15)
    BY DEF Num
  <2> HIDE DEF b
  <2> QED BY <2>1, <2>2
<1> HIDE DEF low, high
<1> QED BY <1>1, <1>2, <1>3, <1>4, Ranges, SMT

-------------------------------------------------------------------------------
(* The status byte: its flags as bits, and the bits read back.             *)

(* The byte of a set of flags has the bits of exactly these flags.         *)
LEMMA BitsOfNum ==
  ASSUME NEW s \in SUBSET Flags
  PROVE  Bits(Num(s)) = s
<1> DEFINE b(i) == IF i \in s THEN 1 ELSE 0
           v == b(0) + 2 * b(1) + 4 * b(2) + 8 * b(3) + 16 * b(4) + 32 * b(5)
                  + 64 * b(6) + 128 * b(7)
<1>1. Num(s) = v
  BY Powers, SMT DEF Num, Flags
<1>2. /\ b(0) \in {0, 1} /\ b(1) \in {0, 1} /\ b(2) \in {0, 1} /\ b(3) \in {0, 1}
      /\ b(4) \in {0, 1} /\ b(5) \in {0, 1} /\ b(6) \in {0, 1} /\ b(7) \in {0, 1}
  OBVIOUS
<1>3. ASSUME NEW i \in LowBits PROVE Bit(v, i) = b(i)
  <2>0. Bit(v, 0) = b(0)
    <3> HIDE DEF b
    <3> QED BY <1>2, Powers, SMT DEF Bit
  <2>1. Bit(v, 1) = b(1)
    <3> HIDE DEF b
    <3> QED BY <1>2, Powers, SMT DEF Bit
  <2>2. Bit(v, 2) = b(2)
    <3> HIDE DEF b
    <3> QED BY <1>2, Powers, SMT DEF Bit
  <2>3. Bit(v, 3) = b(3)
    <3> HIDE DEF b
    <3> QED BY <1>2, Powers, SMT DEF Bit
  <2>4. Bit(v, 4) = b(4)
    <3> HIDE DEF b
    <3> QED BY <1>2, Powers, SMT DEF Bit
  <2>5. Bit(v, 5) = b(5)
    <3> HIDE DEF b
    <3> QED BY <1>2, Powers, SMT DEF Bit
  <2>6. Bit(v, 6) = b(6)
    <3> HIDE DEF b
    <3> QED BY <1>2, Powers, SMT DEF Bit
  <2>7. Bit(v, 7) = b(7)
    <3> HIDE DEF b
    <3> QED BY <1>2, Powers, SMT DEF Bit
  <2> HIDE DEF v, b
  <2> QED BY <2>0, <2>1, <2>2, <2>3, <2>4, <2>5, <2>6, <2>7, Zenon DEF LowBits
<1>4. Bits(v) \in SUBSET Flags
  BY <1>1, NumType, BitsOfByte
<1>5. ASSUME NEW i \in LowBits PROVE i \in Bits(v) <=> i \in s
  <2>1. i \in 0 .. 15
    BY UpTo15
  <2> HIDE DEF v
  <2>2. i \in Bits(v) <=> Bit(v, i) = 1
    BY <2>1 DEF Bits
  <2> QED BY <2>2, <1>3
<1> HIDE DEF v
<1>6. Bits(v) = s
  BY <1>4, <1>5, UpTo15
<1> QED BY <1>6, <1>1

(* Tests of bytes are Booleans, and a branch offset is signed.             *)
LEMMA BooleansOfBytes ==
  /\ \A v, w \in Byte : And(v, w) \in Byte /\ Or(v, w) \in Byte /\ Xor(v, w) \in Byte
  /\ \A v \in Byte : \A w : AndNot(v, w) \in Byte
  /\ \A v, w : And(v, w) \in Word /\ Or(v, w) \in Word /\ Xor(v, w) \in Word
               /\ AndNot(v, w) \in Word
  BY BitsOfByte, NumType DEF And, Or, Xor, AndNot

LEMMA SignedType == \A v \in Int : Signed(v, 8) \in Int /\ Signed(v, 16) \in Int
  BY Powers, SMT DEF Signed

-------------------------------------------------------------------------------
(* The processor. Typed is type correctness of what an operator returns;   *)
(* Calm says besides that the mode, the widths and the page of the stack   *)
(* are as before, which is so of all but a few instructions.               *)

Typed(c, d) == d \in Processor /\ d.variant = c.variant

Calm(c, d) ==
  /\ Typed(c, d) /\ d.e = c.e
  /\ c.e => d.sph = c.sph
  /\ d.p \cap {FlagM, FlagX} = c.p \cap {FlagM, FlagX}
  /\ ~XWide(c) => d.xh = c.xh /\ d.yh = c.yh

LEMMA CalmIsTransitive ==
  ASSUME NEW b, NEW c, NEW d, Calm(b, c), Calm(c, d)
  PROVE  Calm(b, d)
  BY DEF Calm, Typed, XWide, FlagM, FlagX, FlagB, FlagU

(* The fields of a processor and their types.                              *)
LEMMA Fields ==
  ASSUME NEW c \in Processor
  PROVE  /\ c.a \in Byte /\ c.b \in Byte /\ c.x \in Byte /\ c.xh \in Byte /\ c.y \in Byte
         /\ c.yh \in Byte /\ c.sp \in Byte /\ c.sph \in Byte /\ c.p \in SUBSET Flags
         /\ c.e \in BOOLEAN /\ c.d \in Word /\ c.dbr \in Byte /\ c.pbr \in Byte
         /\ c.pc \in Word /\ c.halted \in BOOLEAN /\ c.stoppedBySTP \in BOOLEAN
         /\ c.mem \in Memories /\ c.variant \in Variants /\ Typed(c, c) /\ Calm(c, c)
  BY DEF Processor, Processors, Typed, Calm

(* Memory: what is read is a byte, what is written is memory.              *)
LEMMA ReadType ==
  ASSUME NEW c \in Processor, NEW a \in Address
  PROVE  Read(c, a) \in Byte
<1>1. PICK D \in SUBSET Address : c.mem \in [D -> Byte]
  BY Fields DEF Memories
<1> QED BY <1>1, FillsBytes DEF Read

LEMMA Writing ==
  ASSUME NEW c \in Processor, NEW a \in Address, NEW v \in Byte
  PROVE  Calm(c, Write(c, a, v))
<1> DEFINE m == [b \in {a} \cup DOMAIN c.mem |-> IF b = a THEN v ELSE c.mem[b]]
<1>1. m \in Memories
  <2>1. PICK D \in SUBSET Address : c.mem \in [D -> Byte]
    BY Fields DEF Memories
  <2>2. m \in [{a} \cup D -> Byte] /\ ({a} \cup D) \in SUBSET Address
    BY <2>1
  <2> QED BY <2>2 DEF Memories
<1> HIDE DEF m
<1>2. Calm(c, [c EXCEPT !.mem = m])
  BY <1>1 DEF Calm, Typed, Processor, Processors, XWide
<1> QED BY <1>2 DEF Write, m

LEMMA WriteFrame ==
  ASSUME NEW c \in Processor, NEW a, NEW v
  PROVE  \A f \in {"variant", "a", "b", "x", "xh", "y", "yh", "sp", "sph", "p", "e", "d",
                   "dbr", "pbr", "pc", "halted", "stoppedBySTP"} : Write(c, a, v)[f] = c[f]
  BY DEF Write, Processor, Processors

(* Setting flags changes none that a width or a mode depends on.           *)
LEMMA FlagSets ==
  ASSUME NEW f \in Flags, NEW yes
  PROVE  On(f, yes) \in SUBSET Flags /\ On(f, yes) \subseteq {f}
  BY DEF On

LEMMA FlagsChanged ==
  ASSUME NEW c \in Processor, NEW s \in SUBSET Flags
  PROVE  /\ Typed(c, [c EXCEPT !.p = s])
         /\ s \cap {FlagM, FlagX} = c.p \cap {FlagM, FlagX} => Calm(c, [c EXCEPT !.p = s])
  BY DEF Calm, Typed, Processor, Processors, XWide

LEMMA FlagValues ==
  /\ Flags = {0, 1, 2, 3, 4, 5, 6, 7} /\ FlagC = 0 /\ FlagZ = 1 /\ FlagI = 2 /\ FlagD = 3
  /\ FlagB = 4 /\ FlagU = 5 /\ FlagV = 6 /\ FlagN = 7 /\ FlagX = 4 /\ FlagM = 5
  BY DEF Flags, FlagC, FlagZ, FlagI, FlagD, FlagB, FlagU, FlagV, FlagN, FlagX, FlagM

LEMMA SettingFlag ==
  ASSUME NEW c \in Processor, NEW f \in {FlagC, FlagZ, FlagI, FlagD, FlagV, FlagN}, NEW yes
  PROVE  Calm(c, SetFlag(c, f, yes))
<1> DEFINE s == (c.p \ {f}) \cup On(f, yes)
<1>1. s \in SUBSET Flags /\ s \cap {FlagM, FlagX} = c.p \cap {FlagM, FlagX}
  BY Fields, FlagSets, FlagValues
<1> HIDE DEF s
<1>2. Calm(c, [c EXCEPT !.p = s])
  BY <1>1, FlagsChanged
<1> QED BY <1>2 DEF SetFlag, s

LEMMA SettingZN ==
  ASSUME NEW c \in Processor, NEW v, NEW bits
  PROVE  Calm(c, SetZN(c, v, bits))
<1> DEFINE s == (c.p \ {FlagN, FlagZ}) \cup On(FlagZ, v = 0) \cup On(FlagN, Bit(v, bits - 1) = 1)
<1>1. s \in SUBSET Flags /\ s \cap {FlagM, FlagX} = c.p \cap {FlagM, FlagX}
  BY Fields, FlagSets, FlagValues
<1> HIDE DEF s
<1>2. Calm(c, [c EXCEPT !.p = s])
  BY <1>1, FlagsChanged
<1> QED BY <1>2 DEF SetZN, s

LEMMA SettingCV ==
  ASSUME NEW c \in Processor, NEW a, NEW v, NEW sum, NEW bits
  PROVE  Calm(c, SetCV(c, a, v, sum, bits))
<1> DEFINE s == (c.p \ {FlagC, FlagV})
                      \cup On(FlagC, sum >= 2 ^ bits)
                      \cup On(FlagV, Overflow(a, v, sum, bits))
<1>1. s \in SUBSET Flags /\ s \cap {FlagM, FlagX} = c.p \cap {FlagM, FlagX}
  BY Fields, FlagSets, FlagValues
<1> HIDE DEF s
<1>2. Calm(c, [c EXCEPT !.p = s])
  BY <1>1, FlagsChanged
<1> QED BY <1>2 DEF SetCV, s

-------------------------------------------------------------------------------
(* Registers, pushes and addresses.                                        *)

(* Assigning one register: the others stay.                                *)
LEMMA Assigning ==
  /\ \A c \in Processor : \A v \in Byte : Typed(c, [c EXCEPT !.a = v])
  /\ \A c \in Processor : \A v \in Byte : Typed(c, [c EXCEPT !.b = v])
  /\ \A c \in Processor : \A v \in Byte : Typed(c, [c EXCEPT !.x = v])
  /\ \A c \in Processor : \A v \in Byte : Typed(c, [c EXCEPT !.xh = v])
  /\ \A c \in Processor : \A v \in Byte : Typed(c, [c EXCEPT !.y = v])
  /\ \A c \in Processor : \A v \in Byte : Typed(c, [c EXCEPT !.yh = v])
  /\ \A c \in Processor : \A v \in Byte : Typed(c, [c EXCEPT !.sp = v])
  /\ \A c \in Processor : \A v \in Byte : Typed(c, [c EXCEPT !.sph = v])
  /\ \A c \in Processor : \A v \in SUBSET Flags : Typed(c, [c EXCEPT !.p = v])
  /\ \A c \in Processor : \A v \in BOOLEAN : Typed(c, [c EXCEPT !.e = v])
  /\ \A c \in Processor : \A v \in Word : Typed(c, [c EXCEPT !.d = v])
  /\ \A c \in Processor : \A v \in Byte : Typed(c, [c EXCEPT !.dbr = v])
  /\ \A c \in Processor : \A v \in Byte : Typed(c, [c EXCEPT !.pbr = v])
  /\ \A c \in Processor : \A v \in Word : Typed(c, [c EXCEPT !.pc = v])
  /\ \A c \in Processor : \A v \in BOOLEAN : Typed(c, [c EXCEPT !.halted = v])
  /\ \A c \in Processor : \A v \in BOOLEAN : Typed(c, [c EXCEPT !.stoppedBySTP = v])
  BY DEF Typed, Processor, Processors

LEMMA CalmAssigning ==
  /\ \A c \in Processor : \A v \in Byte : Calm(c, [c EXCEPT !.a = v])
  /\ \A c \in Processor : \A v \in Byte : Calm(c, [c EXCEPT !.b = v])
  /\ \A c \in Processor : \A v \in Byte : Calm(c, [c EXCEPT !.x = v])
  /\ \A c \in Processor : \A v \in Byte : Calm(c, [c EXCEPT !.y = v])
  /\ \A c \in Processor : \A v \in Byte : Calm(c, [c EXCEPT !.sp = v])
  /\ \A c \in Processor : \A v \in Word : Calm(c, [c EXCEPT !.d = v])
  /\ \A c \in Processor : \A v \in Byte : Calm(c, [c EXCEPT !.dbr = v])
  /\ \A c \in Processor : \A v \in Byte : Calm(c, [c EXCEPT !.pbr = v])
  /\ \A c \in Processor : \A v \in Word : Calm(c, [c EXCEPT !.pc = v])
  /\ \A c \in Processor : \A v \in BOOLEAN : Calm(c, [c EXCEPT !.halted = v])
  /\ \A c \in Processor : \A v \in BOOLEAN : Calm(c, [c EXCEPT !.stoppedBySTP = v])
  BY DEF Calm, Typed, Processor, Processors, XWide

LEMMA CalmIsTyped == \A c, d : Calm(c, d) => Typed(c, d) /\ d \in Processor
  BY DEF Calm, Typed

(* Loading a register and its flags; moving and using the stack.           *)
LEMMA Loading ==
  /\ \A c \in Processor : \A v \in Byte : Calm(c, LoadA(c, v))
  /\ \A c \in Processor : \A v \in Byte : Calm(c, LoadX(c, v))
  /\ \A c \in Processor : \A v \in Byte : Calm(c, LoadY(c, v))
<1> SUFFICES ASSUME NEW c \in Processor, NEW v \in Byte
             PROVE  Calm(c, LoadA(c, v)) /\ Calm(c, LoadX(c, v)) /\ Calm(c, LoadY(c, v))
  OBVIOUS
<1>1. /\ Calm(c, [c EXCEPT !.a = v]) /\ Calm(c, [c EXCEPT !.x = v])
      /\ Calm(c, [c EXCEPT !.y = v])
  BY CalmAssigning
<1>2. /\ [c EXCEPT !.a = v] \in Processor /\ [c EXCEPT !.x = v] \in Processor
      /\ [c EXCEPT !.y = v] \in Processor
  BY <1>1, CalmIsTyped
<1> QED BY <1>1, <1>2, SettingZN, CalmIsTransitive DEF LoadA, LoadX, LoadY

LEMMA StackMoves ==
  ASSUME NEW c \in Processor, NEW n \in Int
  PROVE  /\ Typed(c, Popped(c, n)) /\ Top(c, n) \in Byte /\ Top16(c, n) \in Word
         /\ Inc(c, "sp", n) = [c EXCEPT !.sp = (c.sp + n) % 256]
<1>1. c.sp + n \in Int /\ c.sp + (n + 1) \in Int
  BY Fields, Ranges, SMT
<1>2. Typed(c, Popped(c, n))
  BY <1>1, Wraps, SMT DEF Typed, Processor, Processors, Popped, Inc
<1>3. ASSUME NEW k \in Int PROVE Top(c, k) \in Byte
  <2>1. (c.sp + k) % 256 \in Byte
    BY Fields, Ranges, Wraps, SMT
  <2>2. 256 + ((c.sp + k) % 256) \in Address
    BY <2>1, Ranges, SMT
  <2> QED BY <2>2, ReadType DEF Top
<1>4. Top16(c, n) \in Word
  <2>1. Top(c, n) \in Byte /\ Top(c, n + 1) \in Byte
    BY <1>3
  <2> QED BY <2>1, PairType DEF Top16
<1>5. Inc(c, "sp", n) = [c EXCEPT !.sp = (c.sp + n) % 256]
  BY DEF Inc, Processor, Processors
<1> QED BY <1>2, <1>3, <1>4, <1>5

LEMMA Pushing ==
  ASSUME NEW c \in Processor
  PROVE  /\ \A v \in Byte : Typed(c, Push(c, v)) 
         /\ \A v \in Int : Typed(c, Push16(c, v))
<1>1. ASSUME NEW d \in Processor, NEW v \in Byte PROVE Typed(d, Push(d, v))
  <2>1. 256 + d.sp \in Address
    BY Fields, Ranges, SMT
  <2>2. Write(d, 256 + d.sp, v) \in Processor /\ Write(d, 256 + d.sp, v).variant = d.variant
    BY <2>1, Writing DEF Calm, Typed
  <2> QED BY <2>2, StackMoves DEF Push, Popped, Typed
<1> QED BY <1>1, LoHiType DEF Push16, Typed

LEMMA StatusBytes ==
  ASSUME NEW c \in Processor
  PROVE  PushedP(c) \in Byte /\ \A v \in Byte : PulledP(v) \in SUBSET Flags
  BY Fields, NumType, BitsOfByte, FlagValues DEF PushedP, PulledP

Resolving == {"ZP", "ABS", "ZPX", "ZPY", "REL", "ABX", "ABY", "IND", "IZX", "IZY", "IZP", "IAX"}

Accessing == Memory8 \cup {"ZPY", "IZP"}

(* An addressing mode resolves to an address, its operand is a byte.       *)
LEMMA Resolved ==
  ASSUME NEW c \in Processor, NEW i \in Instructions, i.mode \in Resolving
  PROVE  Resolve(c, i) \in Word
<1>1. i.arg \in Word
  BY Wider DEF Instructions, Operands, Resolving
<1>2. ASSUME NEW z \in Int PROVE ZpPointer(c, z) \in Word
  <2>1. z % 256 \in Address /\ (z + 1) % 256 \in Address
    BY Wraps, Wider, SMT
  <2> QED BY <2>1, ReadType, PairType DEF ZpPointer
<1>3. ASSUME NEW p \in Word PROVE JumpPointer(c, p) \in Word
  <2>1. 256 * Hi(p) + ((p + 1) % 256) \in Address
    BY LoHiType, Wraps, Ranges, SMT
  <2>2. (p + 1) % 65536 \in Address
    BY Wraps, Wider, Ranges, SMT
  <2>3. p \in Address
    BY Wider
  <2> QED BY <2>1, <2>2, <2>3, ReadType, PairType DEF JumpPointer
<1>4. ASSUME NEW p \in Word PROVE Pair(Read(c, p), Read(c, (p + 1) % 65536)) \in Word
  <2>1. p \in Address /\ (p + 1) % 65536 \in Address
    BY Wider, Wraps, Ranges, SMT
  <2> QED BY <2>1, ReadType, PairType
<1>5. /\ i.arg \in Int /\ c.x \in Int /\ c.y \in Int /\ c.pc \in Int
      /\ Signed(i.arg, 8) \in Int
  BY <1>1, Fields, Ranges, SignedType, SMT
<1>6. (i.arg + c.x) % 65536 \in Word
  BY <1>5, Wraps, SMT
<1>7. CASE i.mode \in {"ZP", "ABS", "ZPX", "ZPY", "REL", "ABX", "ABY"}
  <2>1. /\ (i.arg + c.x) % 256 \in Word /\ (i.arg + c.y) % 256 \in Word
        /\ (i.arg + c.y) % 65536 \in Word /\ (c.pc + Signed(i.arg, 8)) % 65536 \in Word
    BY <1>5, Wraps, Wider, SMT
  <2> QED BY <1>1, <1>6, <1>7, <2>1 DEF Resolve
<1>8. CASE i.mode \in {"IND", "IAX", "IZX", "IZP"}
  BY <1>1, <1>2, <1>3, <1>4, <1>5, <1>6, <1>8 DEF Resolve
<1>9. CASE i.mode = "IZY"
  <2>1. ZpPointer(c, i.arg) + c.y \in Int
    BY <1>2, <1>5, Ranges, SMT
  <2> QED BY <2>1, <1>9, Wraps, SMT DEF Resolve
<1> QED BY <1>7, <1>8, <1>9 DEF Resolving

LEMMA OperandType ==
  ASSUME NEW c \in Processor, NEW i \in Instructions, i.mode \in Accessing \cup {"IMM", "ACC"}
  PROVE  /\ Operand(c, i) \in Byte
         /\ i.mode # "IMM" => \A v \in Byte : Typed(c, Store(c, i, v))
<1>1. i.arg \in Int
  BY Ranges, SMT DEF Instructions
<1>2. CASE i.mode \in {"IMM", "ACC"}
  <2>1. \A v \in Byte : Typed(c, [c EXCEPT !.a = v])
    BY DEF Typed, Processor, Processors
  <2> QED BY <1>1, <1>2, <2>1, LoHiType, Fields DEF Operand, Store
<1>3. CASE i.mode \in Accessing
  <2>1. Resolve(c, i) \in Address
    BY <1>3, Resolved, Wider DEF Accessing, Memory8, Resolving
  <2>2. i.mode \notin {"IMM", "ACC"}
    BY <1>3 DEF Accessing, Memory8
  <2> QED BY <2>1, <2>2, ReadType, Writing DEF Operand, Store, Calm
<1> QED BY <1>2, <1>3

-------------------------------------------------------------------------------
(* The 6502 family: what each group of instructions returns is a           *)
(* processor.                                                              *)

LEMMA TypedIsTransitive ==
  ASSUME NEW b, NEW c, NEW d, Typed(b, c), Typed(c, d)
  PROVE  Typed(b, d)
  BY DEF Typed

LEMMA CarryType == \A c : CarryIn(c) \in {0, 1}
  BY DEF CarryIn

(* Loads, stores, transfers and the stack instructions.                    *)
LEMMA TypedLoad ==
  ASSUME NEW c \in Processor, NEW op \in Loads, NEW v \in Byte
  PROVE  Typed(c, Load(c, op, v))
  BY Loading, CalmIsTyped DEF Load, Loads

LEMMA StoredType ==
  ASSUME NEW c \in Processor, NEW op \in Stores
  PROVE  Stored(c, op) \in Byte
  BY Fields, Ranges, SMT DEF Stored, Stores

LEMMA TypedTransfer ==
  ASSUME NEW c \in Processor, NEW op \in Transfers
  PROVE  Typed(c, Transfer(c, op))
<1>1. c.a \in Byte /\ c.x \in Byte /\ c.y \in Byte /\ c.sp \in Byte
  BY Fields
<1>2. /\ Typed(c, LoadX(c, c.a)) /\ Typed(c, LoadY(c, c.a)) /\ Typed(c, LoadX(c, c.sp))
      /\ Typed(c, LoadA(c, c.x)) /\ Typed(c, LoadA(c, c.y)) /\ Typed(c, [c EXCEPT !.sp = c.x])
  BY <1>1, Loading, Assigning, CalmIsTyped
<1> QED BY <1>2 DEF Transfer, Transfers

LEMMA TypedStackOp ==
  ASSUME NEW c \in Processor, NEW op \in StackOps
  PROVE  Typed(c, StackOp(c, op))
<1>1. Typed(c, Popped(c, 1)) /\ Top(c, 1) \in Byte
  BY StackMoves
<1>2. CASE op \in {"PHA", "PHP", "PHX", "PHY"}
  BY <1>2, Fields, StatusBytes, Pushing DEF StackOp
<1>3. CASE op \in {"PLA", "PLX", "PLY"}
  <2> DEFINE d == Popped(c, 1)
             v == Top(c, 1)
  <2>1. Typed(d, LoadA(d, v)) /\ Typed(d, LoadX(d, v)) /\ Typed(d, LoadY(d, v))
    BY <1>1, Loading, CalmIsTyped DEF Typed
  <2>2. Typed(c, LoadA(d, v)) /\ Typed(c, LoadX(d, v)) /\ Typed(c, LoadY(d, v))
    BY <1>1, <2>1, TypedIsTransitive
  <2> QED BY <1>3, <2>2 DEF StackOp
<1>4. CASE op = "PLP"
  <2> DEFINE d == Popped(c, 1)
             s == PulledP(Top(c, 1))
  <2>1. s \in SUBSET Flags
    BY <1>1, StatusBytes
  <2> HIDE DEF s
  <2>2. Typed(d, [d EXCEPT !.p = s])
    BY <1>1, <2>1, FlagsChanged DEF Typed
  <2>3. Typed(c, [d EXCEPT !.p = s])
    BY <1>1, <2>2, TypedIsTransitive
  <2> QED BY <1>4, <2>3 DEF StackOp, s
<1> QED BY <1>2, <1>3, <1>4 DEF StackOps

LEMMA TypedLogic ==
  ASSUME NEW c \in Processor, NEW op \in Logics, NEW v \in Byte
  PROVE  Typed(c, Logic(c, op, v))
  BY Fields, BooleansOfBytes, Loading, CalmIsTyped DEF Logic, Logics

LEMMA TypedBitTest ==
  ASSUME NEW c \in Processor, NEW i, NEW v
  PROVE  Typed(c, BitTest(c, i, v))
<1> DEFINE z == SetFlag(c, FlagZ, And(c.a, v) = 0)
           n == SetFlag(z, FlagN, Bit(v, 7) = 1)
<1>1. Typed(c, z)
  BY SettingFlag, CalmIsTyped
<1>2. Typed(z, n)
  BY <1>1, SettingFlag, CalmIsTyped DEF Typed
<1>3. Typed(n, SetFlag(n, FlagV, Bit(v, 6) = 1))
  BY <1>2, SettingFlag, CalmIsTyped DEF Typed
<1> QED BY <1>1, <1>2, <1>3, TypedIsTransitive DEF BitTest

(* Addition and subtraction, binary and decimal.                           *)
LEMMA TypedAddBinary ==
  ASSUME NEW c \in Processor, NEW v \in Int
  PROVE  Typed(c, AddBinary(c, v)) /\ Typed(c, SubBinary(c, v))
<1>1. ASSUME NEW w \in Int PROVE Typed(c, AddBinary(c, w))
  <2> DEFINE sum == c.a + w + CarryIn(c)
  <2>0. sum \in Int
    BY Fields, Ranges, CarryType, SMT
  <2>1. sum % 256 \in Byte
    BY <2>0, Wraps, SMT
  <2>2. Typed(c, SetCV(c, c.a, w, sum, 8))
    BY SettingCV, CalmIsTyped
  <2> HIDE DEF sum
  <2>3. Typed(c, LoadA(SetCV(c, c.a, w, sum, 8), sum % 256))
    BY <2>1, <2>2, Loading, CalmIsTyped DEF Typed
  <2> QED BY <2>3 DEF AddBinary, sum
<1>2. Complement(v, 8) \in Int
  BY Powers, SMT DEF Complement
<1> QED BY <1>1, <1>2 DEF SubBinary

LEMMA DigitTypes ==
  ASSUME NEW a \in Int, NEW v \in Int, NEW u \in {1, 16, 256, 4096}, NEW low \in Int
  PROVE  /\ DigitSum(a, v, u, low) \in Int /\ DigitDiff(a, v, u, low) \in Int
         /\ CarryDigit(low, u) \in Int /\ BorrowDigit(low, u) \in Int
<1>1. u = 1 \/ u = 16 \/ u = 256 \/ u = 4096
  OBVIOUS
<1>2. ((a \div u) % 16) \in Int /\ ((v \div u) % 16) \in Int
  BY <1>1
<1>3. ((low + 6 * u) % (16 * u)) \in Int /\ ((low - 6 * u) % (16 * u)) \in Int
  BY <1>1
<1>4. DigitSum(a, v, u, low) \in Int /\ DigitDiff(a, v, u, low) \in Int
  BY <1>2 DEF DigitSum, DigitDiff
<1> QED BY <1>3, <1>4 DEF CarryDigit, BorrowDigit

LEMMA Decimal8Types8 ==
  ASSUME NEW a \in Word, NEW v \in Word, NEW carry \in {0, 1}
  PROVE  /\ PartialSum8(a, v, carry) \in Int /\ DecimalSum8(a, v, carry) \in Int
         /\ DecimalDiff8(a, v, carry) \in Byte
<1>0. a \in Int /\ v \in Int
  BY Ranges, SMT
<1>1. PartialSum8(a, v, carry) \in Int
  <2>0. DigitSum(a, v, 1, carry) \in Int
    BY <1>0, DigitTypes
  <2>1. CarryDigit(DigitSum(a, v, 1, carry), 1) \in Int
    BY <1>0, <2>0, DigitTypes
  <2> QED BY <1>0, <2>1, DigitTypes DEF PartialSum8
<1>2. DecimalSum8(a, v, carry) \in Int
  BY <1>1 DEF DecimalSum8
<1>3. DecimalDiff8(a, v, carry) \in Byte
  <2>0. DigitDiff(a, v, 1, carry - 1) \in Int
    BY <1>0, DigitTypes
  <2>1. BorrowDigit(DigitDiff(a, v, 1, carry - 1), 1) \in Int
    BY <1>0, <2>0, DigitTypes
  <2>2. DigitDiff(a, v, 16, BorrowDigit(DigitDiff(a, v, 1, carry - 1), 1)) \in Int
    BY <1>0, <2>1, DigitTypes
  <2> QED BY <2>2, Wraps, SMT DEF DecimalDiff8
<1> QED BY <1>1, <1>2, <1>3

LEMMA Decimal8Types ==
  /\ \A a, v \in Word : \A carry \in {0, 1} : PartialSum8(a, v, carry) \in Int
  /\ \A a, v \in Word : \A carry \in {0, 1} : DecimalSum8(a, v, carry) \in Int
  /\ \A a, v \in Word : \A carry \in {0, 1} : DecimalDiff8(a, v, carry) \in Byte
  BY Decimal8Types8

LEMMA TypedDecimals ==
  ASSUME NEW c \in Processor, NEW v \in Byte
  PROVE  /\ Typed(c, AdcDecimal(c, v)) /\ Typed(c, SbcDecimal(c, v))
         /\ Typed(c, AdcDecimalCMOS(c, v)) /\ Typed(c, SbcDecimalCMOS(c, v))
<1>1. c.a \in Word /\ v \in Word /\ v \in Int /\ CarryIn(c) \in {0, 1}
  BY Fields, Ranges, CarryType, SMT
<1>2. /\ DecimalSum8(c.a, v, CarryIn(c)) % 256 \in Byte
      /\ DecimalDiff8(c.a, v, CarryIn(c)) \in Byte
  <2>1. DecimalSum8(c.a, v, CarryIn(c)) \in Int
    BY <1>1, Decimal8Types
  <2>2. DecimalSum8(c.a, v, CarryIn(c)) % 256 \in Byte
    BY <2>1, Wraps, SMT
  <2>3. DecimalDiff8(c.a, v, CarryIn(c)) \in Byte
    BY <1>1, Decimal8Types
  <2> QED BY <2>2, <2>3
<1>3. Typed(c, SubBinary(c, v))
  BY <1>1, TypedAddBinary
<1>4. Typed(c, SbcDecimal(c, v)) /\ Typed(c, SbcDecimalCMOS(c, v))
  <2> DEFINE d == SubBinary(c, v)
             w == DecimalDiff8(c.a, v, CarryIn(c))
  <2>1. d \in Processor /\ d.variant = c.variant /\ w \in Byte
    BY <1>2, <1>3 DEF Typed
  <2> HIDE DEF d, w
  <2>2. Typed(d, [d EXCEPT !.a = w]) /\ Typed(d, LoadA(d, w))
    BY <2>1, Assigning, Loading, CalmIsTyped
  <2>3. Typed(c, [d EXCEPT !.a = w]) /\ Typed(c, LoadA(d, w))
    BY <2>1, <2>2 DEF Typed
  <2> QED BY <2>3 DEF SbcDecimal, SbcDecimalCMOS, d, w
<1>5. ASSUME NEW s \in SUBSET Flags, NEW w \in Byte PROVE Typed(c, [c EXCEPT !.p = s, !.a = w])
  <2> DEFINE d == [c EXCEPT !.p = s]
  <2>1. Typed(c, d)
    BY Assigning
  <2> HIDE DEF d
  <2>2. Typed(d, [d EXCEPT !.a = w])
    BY <2>1, Assigning DEF Typed
  <2>3. Typed(c, [d EXCEPT !.a = w])
    BY <2>1, <2>2, TypedIsTransitive
  <2> QED BY <2>3 DEF d
<1>6. Typed(c, AdcDecimal(c, v))
  <2> DEFINE s == (c.p \ {FlagN, FlagV, FlagZ, FlagC})
                   \cup On(FlagN, Bit(PartialSum8(c.a, v, CarryIn(c)), 7) = 1)
                   \cup On(FlagV, Overflow(c.a, v, PartialSum8(c.a, v, CarryIn(c)), 8))
                   \cup On(FlagZ, ((c.a + v + CarryIn(c)) % 256) = 0)
                   \cup On(FlagC, DecimalSum8(c.a, v, CarryIn(c)) >= 256)
  <2>1. s \in SUBSET Flags
    BY Fields, FlagSets, FlagValues
  <2> HIDE DEF s
  <2>2. Typed(c, [c EXCEPT !.p = s, !.a = DecimalSum8(c.a, v, CarryIn(c)) % 256])
    BY <1>2, <1>5, <2>1
  <2> QED BY <2>2 DEF AdcDecimal, s
<1>7. Typed(c, AdcDecimalCMOS(c, v))
  <2> DEFINE s == (c.p \ {FlagV, FlagC})
                   \cup On(FlagV, Overflow(c.a, v, PartialSum8(c.a, v, CarryIn(c)), 8))
                   \cup On(FlagC, DecimalSum8(c.a, v, CarryIn(c)) >= 256)
  <2>1. s \in SUBSET Flags
    BY Fields, FlagSets, FlagValues
  <2>2. Typed(c, [c EXCEPT !.p = s])
    BY <2>1, FlagsChanged
  <2> HIDE DEF s
  <2> DEFINE d == [c EXCEPT !.p = s]
             w == DecimalSum8(c.a, v, CarryIn(c)) % 256
  <2>3. Typed(c, d) /\ w \in Byte
    BY <1>2, <2>2
  <2> HIDE DEF d, w
  <2>4. Typed(d, LoadA(d, w))
    BY <2>3, Loading, CalmIsTyped DEF Typed
  <2>5. Typed(c, LoadA(d, w))
    BY <2>3, <2>4, TypedIsTransitive
  <2> QED BY <2>5 DEF AdcDecimalCMOS, d, s, w
<1> QED BY <1>4, <1>6, <1>7

LEMMA TypedAdc ==
  ASSUME NEW c \in Processor, NEW v \in Byte
  PROVE  Typed(c, Adc(c, v)) /\ Typed(c, Sbc(c, v))
  BY TypedDecimals, TypedAddBinary, Ranges, SMT DEF Adc, Sbc

LEMMA TypedCompare ==
  ASSUME NEW c \in Processor, NEW reg, NEW v
  PROVE  Typed(c, Compare8(c, reg, v)) /\ \A op \in Compares : Typed(c, Compare(c, op, v))
<1>1. ASSUME NEW r PROVE Typed(c, Compare8(c, r, v))
  <2>1. Typed(c, SetFlag(c, FlagC, r >= v))
    BY SettingFlag, CalmIsTyped
  <2> QED BY <2>1, SettingZN, CalmIsTyped DEF Compare8, Typed
<1> QED BY <1>1 DEF Compare, Compares

ModifiedOps == {"INC", "DEC", "ASL", "LSR", "ROL", "ROR"}

(* Read-modify-write, index steps, bits and branches.                      *)
LEMMA ModifiedType ==
  ASSUME NEW c, NEW op \in ModifiedOps, NEW v \in Byte
  PROVE  Modified(c, op, v) \in Byte
<1>1. v \in Int /\ 0 <= v /\ v < 256
  BY Ranges, SMT
<1>2. CarryIn(c) = 0 \/ CarryIn(c) = 1
  BY CarryType
<1>3. /\ v + 1 \in Int /\ v - 1 \in Int /\ 2 * v \in Int /\ 2 * v + CarryIn(c) \in Int
  BY <1>1, <1>2
<1>4. /\ (v + 1) % 256 \in Byte /\ (v - 1) % 256 \in Byte /\ (2 * v) % 256 \in Byte
      /\ (2 * v + CarryIn(c)) % 256 \in Byte
  BY <1>3, Wraps, SMT
<1>5. v \div 2 \in Int /\ 0 <= v \div 2 /\ v \div 2 < 128
  BY <1>1
<1>6. v \div 2 \in Byte
  BY <1>5, Ranges, SMT
<1>7. (v \div 2) + 128 * CarryIn(c) \in Byte
  <2> DEFINE h == v \div 2
  <2>1. h \in Int /\ 0 <= h /\ h < 128
    BY <1>5
  <2> HIDE DEF h
  <2>2. h + 128 * CarryIn(c) \in Int /\ 0 <= h + 128 * CarryIn(c) /\ h + 128 * CarryIn(c) < 256
    BY <1>2, <2>1
  <2>3. h + 128 * CarryIn(c) \in Byte
    BY <2>2, Ranges, SMT
  <2> QED BY <2>3 DEF h
<1> QED BY <1>4, <1>6, <1>7 DEF Modified, ModifiedOps

LEMMA ShiftedCalm ==
  ASSUME NEW c \in Processor, NEW op, NEW v
  PROVE  Calm(c, Shifted(c, op, v))
<1>1. /\ Calm(c, SetFlag(c, FlagC, Bit(v, 7) = 1)) /\ Calm(c, SetFlag(c, FlagC, Bit(v, 0) = 1))
      /\ Calm(c, c)
  BY SettingFlag, Fields
<1> QED BY <1>1 DEF Shifted

LEMMA TypedReadModifyWrite ==
  ASSUME NEW c \in Processor, NEW i \in Instructions, i.op \in ReadModifyWrites,
         i.mode \in Accessing \cup {"ACC"}
  PROVE  Typed(c, ReadModifyWrite(c, i))
<1> DEFINE v == Operand(c, i)
           w == Modified(c, i.op, v)
           d == Shifted(c, i.op, v)
           f == Store(d, i, w)
<1>1. v \in Byte
  BY OperandType
<1>2. w \in Byte
  BY <1>1, ModifiedType DEF ModifiedOps, ReadModifyWrites
<1>3. Typed(c, d)
  BY ShiftedCalm, CalmIsTyped
<1> HIDE DEF v, w, d
<1>4. Typed(d, f)
  <2>1. i.mode # "IMM"
    BY DEF Accessing, Memory8
  <2> QED BY <1>2, <1>3, <2>1, OperandType DEF Typed
<1> HIDE DEF f
<1>5. Typed(f, SetZN(f, w, 8))
  BY <1>4, SettingZN, CalmIsTyped DEF Typed
<1>6. Typed(c, SetZN(f, w, 8))
  BY <1>3, <1>4, <1>5, TypedIsTransitive
<1> QED BY <1>6 DEF ReadModifyWrite, v, w, d, f

LEMMA TypedStepIndex ==
  ASSUME NEW c \in Processor, NEW op \in Steps
  PROVE  Typed(c, StepIndex(c, op))
<1>1. c.x \in Int /\ c.y \in Int
  BY Fields, Ranges, SMT
<1>2. /\ (c.x + 1) % 256 \in Byte /\ (c.y + 1) % 256 \in Byte
      /\ (c.x - 1) % 256 \in Byte /\ (c.y - 1) % 256 \in Byte
  BY <1>1, Wraps, SMT
<1>3. /\ Typed(c, LoadX(c, (c.x + 1) % 256)) /\ Typed(c, LoadX(c, (c.x - 1) % 256))
      /\ Typed(c, LoadY(c, (c.y + 1) % 256)) /\ Typed(c, LoadY(c, (c.y - 1) % 256))
  BY <1>2, Loading, CalmIsTyped
<1> QED BY <1>3 DEF StepIndex, Steps

LEMMA TypedBitWrite ==
  ASSUME NEW c \in Processor, NEW i \in Instructions, i.op \in BitWrites, i.mode \in Accessing
  PROVE  Typed(c, BitWrite(c, i))
<1> DEFINE v == Operand(c, i)
           z == SetFlag(c, FlagZ, And(v, c.a) = 0)
<1>1. v \in Byte /\ c.a \in Byte
  BY OperandType, Fields
<1>2. 2 ^ i.bit \in Byte
  <2>1. i.bit \in LowBits
    BY DEF Instructions, LowBits
  <2> QED BY <2>1, LowPowers
<1>3. /\ AndNot(v, c.a) \in Byte /\ Or(v, c.a) \in Byte /\ AndNot(v, 2 ^ i.bit) \in Byte
      /\ Or(v, 2 ^ i.bit) \in Byte
  BY <1>1, <1>2, BooleansOfBytes
<1>4. Typed(c, z)
  BY SettingFlag, CalmIsTyped
<1> HIDE DEF v, z
<1>5. i.mode # "IMM"
  BY DEF Accessing, Memory8
<1>6. Typed(z, Store(z, i, AndNot(v, c.a))) /\ Typed(z, Store(z, i, Or(v, c.a)))
  BY <1>3, <1>4, <1>5, OperandType DEF Typed
<1>7. Typed(c, Store(c, i, AndNot(v, 2 ^ i.bit))) /\ Typed(c, Store(c, i, Or(v, 2 ^ i.bit)))
  BY <1>3, <1>5, OperandType
<1>8. Typed(c, Store(z, i, AndNot(v, c.a))) /\ Typed(c, Store(z, i, Or(v, c.a)))
  BY <1>4, <1>6, TypedIsTransitive
<1> QED BY <1>7, <1>8 DEF BitWrite, BitWrites, v, z

LEMMA TypedBranch ==
  ASSUME NEW c \in Processor, NEW i \in Instructions
  PROVE  /\ i.mode = "REL" => Typed(c, Branch(c, i))
         /\ Typed(c, BitBranch(c, i))
<1>1. ASSUME i.mode = "REL" PROVE Typed(c, Branch(c, i))
  <2>1. Resolve(c, i) \in Word
    BY <1>1, Resolved DEF Resolving
  <2>2. Typed(c, [c EXCEPT !.pc = Resolve(c, i)]) /\ Typed(c, c)
    BY <2>1, Assigning, Fields
  <2> QED BY <2>2 DEF Branch
<1>2. Typed(c, BitBranch(c, i))
  <2>1. i.arg \in Int
    BY Ranges, SMT DEF Instructions
  <2>2. c.pc + Signed(Hi(i.arg), 8) \in Int
    <3>1. Hi(i.arg) \in Int
      BY <2>1, LoHiType, Ranges, SMT
    <3>2. Signed(Hi(i.arg), 8) \in Int
      BY <3>1, SignedType
    <3> QED BY <3>2, Fields, Ranges, SMT
  <2>3. (c.pc + Signed(Hi(i.arg), 8)) % 65536 \in Word
    BY <2>2, Wraps, SMT
  <2>4. Typed(c, [c EXCEPT !.pc = (c.pc + Signed(Hi(i.arg), 8)) % 65536]) /\ Typed(c, c)
    BY <2>3, Assigning, Fields
  <2> QED BY <2>4 DEF BitBranch
<1> QED BY <1>1, <1>2

(* Entering a handler, JSR and BRK.                                        *)
LEMMA VectorType ==
  ASSUME NEW c \in Processor, NEW a \in Word, a + 1 \in Word
  PROVE  Vector(c, a) \in Word
  BY Wider, ReadType, PairType DEF Vector

LEMMA TypedEntry ==
  ASSUME NEW c \in Processor, NEW s \in SUBSET Flags, NEW v \in Word
  PROVE  Typed(c, [c EXCEPT !.p = s, !.pc = v])
<1> DEFINE d == [c EXCEPT !.p = s]
<1>1. Typed(c, d)
  BY Assigning
<1> HIDE DEF d
<1>2. Typed(d, [d EXCEPT !.pc = v])
  BY <1>1, Assigning DEF Typed
<1>3. Typed(c, [d EXCEPT !.pc = v])
  BY <1>1, <1>2, TypedIsTransitive
<1> QED BY <1>3 DEF d

LEMMA TypedJsr ==
  ASSUME NEW c \in Processor, NEW i \in Instructions
  PROVE  Typed(c, Jsr(c, i))
<1> DEFINE high == (c.pc - 1) % 65536
           pushed == Push16(c, high)
           onto   == {256 + c.sp, 256 + ((c.sp - 1) % 256)}
           target == IF high \in onto THEN Read(pushed, high) ELSE Hi(i.arg)
<1>1. high \in Word /\ i.arg \in Int
  <2>1. c.pc - 1 \in Int
    BY Fields, Ranges, SMT
  <2> QED BY <2>1, Wraps, Ranges, SMT DEF Instructions
<1> HIDE DEF high
<1>2. high \in Address /\ high \in Int
  BY <1>1, Wider, Ranges, SMT
<1>3. Typed(c, pushed)
  BY <1>2, Pushing
<1> HIDE DEF pushed
<1>4. target \in Byte /\ Lo(i.arg) \in Byte
  BY <1>1, <1>2, <1>3, ReadType, LoHiType DEF Typed
<1> HIDE DEF target
<1>5. Pair(Lo(i.arg), target) \in Word
  BY <1>4, PairType
<1>6. Typed(pushed, [pushed EXCEPT !.pc = Pair(Lo(i.arg), target)])
  BY <1>3, <1>5, Assigning DEF Typed
<1>7. Typed(c, [pushed EXCEPT !.pc = Pair(Lo(i.arg), target)])
  BY <1>3, <1>6, TypedIsTransitive
<1> QED BY <1>7 DEF Jsr, target, pushed, high

LEMMA TypedBrk ==
  ASSUME NEW c \in Processor
  PROVE  Typed(c, Brk(c))
<1> DEFINE one == Push16(c, (c.pc + 1) % 65536)
           pushed == Push(one, PushedP(c))
           p == (c.p \cup {FlagI}) \ On(FlagD, CMOS(c))
<1>1. c.pc + 1 \in Int /\ (c.pc + 1) % 65536 \in Int
  BY Fields, Ranges, SMT
<1>2. Typed(c, one)
  BY <1>1, Pushing
<1> HIDE DEF one
<1>3. Typed(one, pushed)
  BY <1>2, StatusBytes, Pushing DEF Typed
<1>4. Typed(c, pushed)
  BY <1>2, <1>3, TypedIsTransitive
<1> HIDE DEF pushed
<1>5. Vector(pushed, VecIRQ) \in Word
  <2>1. VecIRQ \in Word /\ VecIRQ + 1 \in Word
    BY Ranges, SMT DEF VecIRQ
  <2> QED BY <1>4, <2>1, VectorType DEF Typed
<1>6. p \in SUBSET Flags
  BY Fields, FlagValues
<1> HIDE DEF p
<1>7. Typed(pushed, [pushed EXCEPT !.p = p, !.pc = Vector(pushed, VecIRQ)])
  BY <1>4, <1>5, <1>6, TypedEntry DEF Typed
<1>8. Typed(c, [pushed EXCEPT !.p = p, !.pc = Vector(pushed, VecIRQ)])
  BY <1>4, <1>7, TypedIsTransitive
<1> QED BY <1>8 DEF Brk, pushed, one, p

-------------------------------------------------------------------------------
(* The 6502 family: interrupts, jumps, flags and the undocumented opcodes. *)

LEMMA TypedService6502 ==
  ASSUME NEW c \in Processor, NEW source \in {"NMI", "IRQ"}
  PROVE  Typed(c, Service6502(c, source))
<1> DEFINE one == Push16(c, c.pc)
           pushed == Push(one, Num((c.p \cup {FlagU}) \ {FlagB}))
           p == (c.p \cup {FlagI}) \ On(FlagD, CMOS(c))
           d == [pushed EXCEPT !.halted = FALSE]
           v == Vector(pushed, Vectors6502[source])
<1>1. Typed(c, one)
  BY Fields, Ranges, Pushing, SMT
<1>2. Num((c.p \cup {FlagU}) \ {FlagB}) \in Byte
  BY Fields, FlagValues, NumType
<1> HIDE DEF one
<1>3. Typed(one, pushed)
  BY <1>1, <1>2, Pushing DEF Typed
<1>4. Typed(c, pushed)
  BY <1>1, <1>3, TypedIsTransitive
<1> HIDE DEF pushed
<1>5. v \in Word
  <2>1. Vectors6502[source] \in Word /\ Vectors6502[source] + 1 \in Word
    BY Ranges, SMT DEF VecIRQ, Vectors6502
  <2> QED BY <1>4, <2>1, VectorType DEF Typed
<1>6. p \in SUBSET Flags
  BY Fields, FlagValues
<1>7. Typed(pushed, d)
  BY <1>4, Assigning DEF Typed
<1> HIDE DEF p, d, v
<1>8. Typed(d, [d EXCEPT !.p = p, !.pc = v])
  BY <1>5, <1>6, <1>7, TypedEntry DEF Typed
<1>9. Typed(c, [d EXCEPT !.p = p, !.pc = v])
  BY <1>4, <1>7, <1>8, TypedIsTransitive
<1> QED BY <1>9 DEF Service6502, d, v, pushed, one, p

LEMMA TypedJump ==
  ASSUME NEW c \in Processor, NEW i \in Instructions, i.op \in Jumps,
         i.op = "JMP" => i.mode \in Resolving
  PROVE  Typed(c, Jump(c, i))
<1>1. CASE i.op = "JMP"
  <2>1. Typed(c, [c EXCEPT !.pc = Resolve(c, i)])
    BY <1>1, Resolved, Assigning
  <2> QED BY <1>1, <2>1 DEF Jump
<1>2. CASE i.op = "JSR"
  BY <1>2, TypedJsr DEF Jump
<1>3. CASE i.op = "RTS"
  <2> DEFINE d == Popped(c, 2)
             v == (Top16(c, 1) + 1) % 65536
  <2>1. Typed(c, d) /\ Top16(c, 1) \in Word
    BY StackMoves
  <2>2. Top16(c, 1) + 1 \in Int
    BY <2>1, Ranges, SMT
  <2>3. v \in Word
    BY <2>2, Wraps, SMT
  <2> HIDE DEF d, v
  <2>4. Typed(d, [d EXCEPT !.pc = v])
    BY <2>1, <2>3, Assigning DEF Typed
  <2>5. Typed(c, [d EXCEPT !.pc = v])
    BY <2>1, <2>4, TypedIsTransitive
  <2> QED BY <1>3, <2>5 DEF Jump, d, v
<1>4. CASE i.op = "RTI"
  <2> DEFINE d == Popped(c, 3)
             s == PulledP(Top(c, 1))
             v == Top16(c, 2)
  <2>1. Typed(c, d) /\ v \in Word /\ s \in SUBSET Flags
    BY StackMoves, StatusBytes
  <2> HIDE DEF d, s, v
  <2>2. Typed(d, [d EXCEPT !.p = s, !.pc = v])
    BY <2>1, TypedEntry DEF Typed
  <2>3. Typed(c, [d EXCEPT !.p = s, !.pc = v])
    BY <2>1, <2>2, TypedIsTransitive
  <2> QED BY <1>4, <2>3 DEF Jump, d, s, v
<1>5. CASE i.op = "BRK"
  BY <1>5, TypedBrk DEF Jump
<1> QED BY <1>1, <1>2, <1>3, <1>4, <1>5 DEF Jumps

LEMMA CalmFlagOp ==
  ASSUME NEW c \in Processor, NEW op \in FlagOps
  PROVE  Calm(c, FlagOp(c, op))
  BY SettingFlag DEF FlagOp, FlagOps

LEMMA CalmIdle ==
  ASSUME NEW c \in Processor, NEW op \in Idles
  PROVE  Calm(c, Idle(c, op))
<1> DEFINE d == [c EXCEPT !.halted = TRUE]
<1>1. Calm(c, c) /\ Calm(c, d)
  BY Fields, CalmAssigning
<1> HIDE DEF d
<1>2. Calm(d, [d EXCEPT !.stoppedBySTP = TRUE])
  BY <1>1, CalmAssigning, CalmIsTyped
<1>3. Calm(c, [d EXCEPT !.stoppedBySTP = TRUE])
  BY <1>1, <1>2, CalmIsTransitive
<1> QED BY <1>1, <1>3 DEF Idle, Idles, d

(* The undocumented opcodes.                                               *)
LEMMA TypedCombine ==
  ASSUME NEW c \in Processor, NEW i \in Instructions, i.op \in Combined, i.mode \in Accessing
  PROVE  Typed(c, Combine(c, i))
<1> DEFINE v == Operand(c, i)
           w == Modified(c, Halves(i.op), v)
           d == Shifted(c, Halves(i.op), v)
           m == Store(d, i, w)
<1>1. v \in Byte
  BY OperandType
<1>2. w \in Byte
  <2>1. Halves(i.op) \in ModifiedOps
    BY DEF Halves, Combined, ModifiedOps
  <2> QED BY <1>1, <2>1, ModifiedType
<1>3. Typed(c, d)
  BY ShiftedCalm, CalmIsTyped
<1> HIDE DEF v, w, d
<1>4. Typed(d, m)
  <2>1. i.mode # "IMM"
    BY DEF Accessing, Memory8
  <2> QED BY <1>2, <1>3, <2>1, OperandType DEF Typed
<1>5. Typed(c, m) /\ m \in Processor /\ w \in Int
  BY <1>2, <1>3, <1>4, TypedIsTransitive, Ranges, SMT DEF Typed
<1> HIDE DEF m
<1>6. /\ Typed(m, Compare8(m, c.a, w)) /\ Typed(m, SbcDecimal(m, w)) /\ Typed(m, SubBinary(m, w))
      /\ Typed(m, AdcDecimal(m, w)) /\ Typed(m, AddBinary(m, w)) /\ Typed(m, Logic(m, "ORA", w))
      /\ Typed(m, Logic(m, "AND", w)) /\ Typed(m, Logic(m, "EOR", w))
  BY <1>2, <1>5, TypedCompare, TypedDecimals, TypedAddBinary, TypedLogic DEF Logics
<1>7. /\ Typed(c, Compare8(m, c.a, w)) /\ Typed(c, SbcDecimal(m, w)) /\ Typed(c, SubBinary(m, w))
      /\ Typed(c, AdcDecimal(m, w)) /\ Typed(c, AddBinary(m, w)) /\ Typed(c, Logic(m, "ORA", w))
      /\ Typed(c, Logic(m, "AND", w)) /\ Typed(c, Logic(m, "EOR", w))
  BY <1>5, <1>6 DEF Typed
<1> QED BY <1>7 DEF Combine, Combined, v, w, d, m

LEMMA TypedArr ==
  ASSUME NEW c \in Processor, NEW t \in Byte
  PROVE  Typed(c, Arr(c, t))
<1> DEFINE r == (t \div 2) + 128 * CarryIn(c)
           low == IF (t % 16) + (t % 2) > 5
                  THEN (r - (r % 16)) + ((r + 6) % 16) ELSE r
           up == (t - (t % 16)) + And(t, 16) > 80
           n == SetZN(c, r, 8)
           v == SetFlag(n, FlagV, Bit(t, 6) # Bit(r, 6))
           f == SetFlag(v, FlagC, up)
           s == (IF up THEN low + 96 ELSE low) % 256
           g == SetFlag(n, FlagC, Bit(r, 6) = 1)
           h == SetFlag(g, FlagV, Bit(r, 6) # Bit(r, 5))
<1>1. r = Modified(c, "ROR", t)
  BY DEF Modified
<1>2. r \in Byte /\ r \in Int
  BY <1>1, ModifiedType, Ranges, SMT DEF ModifiedOps
<1> HIDE DEF r
<1>3. low \in Int
  BY <1>2
<1> HIDE DEF low, up
<1>4. s \in Byte
  <2>1. (IF up THEN low + 96 ELSE low) \in Int
    BY <1>3
  <2> QED BY <2>1, Wraps, SMT
<1> HIDE DEF s
<1>5. Typed(c, n)
  BY SettingZN, CalmIsTyped
<1> HIDE DEF n
<1>6. Typed(n, v) /\ Typed(n, g)
  BY <1>5, SettingFlag, CalmIsTyped DEF Typed
<1> HIDE DEF v, g
<1>7. Typed(v, f) /\ Typed(g, h)
  BY <1>6, SettingFlag, CalmIsTyped DEF Typed
<1> HIDE DEF f, h
<1>8. Typed(f, [f EXCEPT !.a = s]) /\ Typed(h, [h EXCEPT !.a = r])
  BY <1>2, <1>4, <1>7, Assigning DEF Typed
<1>9. Typed(c, [f EXCEPT !.a = s]) /\ Typed(c, [h EXCEPT !.a = r])
  BY <1>5, <1>6, <1>7, <1>8, TypedIsTransitive
<1> QED BY <1>9 DEF Arr, r, low, up, n, v, f, s, g, h

LEMMA TypedImmediate ==
  ASSUME NEW c \in Processor, NEW op \in Immediates, NEW v \in Byte
  PROVE  Typed(c, Immediate(c, op, v))
<1> DEFINE t == And(c.a, v)
           magic == And(Or(c.a, 238), v)
<1>1. t \in Byte /\ magic \in Byte /\ c.x \in Byte /\ And(c.a, c.x) \in Byte
  <2>1. 238 \in Byte
    BY Ranges, SMT
  <2> QED BY <2>1, Fields, BooleansOfBytes
<1> HIDE DEF t
<1>2. CASE op = "ANC"
  <2> DEFINE d == LoadA(c, t)
  <2>1. Typed(c, d)
    BY <1>1, Loading, CalmIsTyped
  <2> HIDE DEF d
  <2>2. Typed(d, SetFlag(d, FlagC, Bit(t, 7) = 1))
    BY <2>1, SettingFlag, CalmIsTyped DEF Typed
  <2>3. Typed(c, SetFlag(d, FlagC, Bit(t, 7) = 1))
    BY <2>1, <2>2, TypedIsTransitive
  <2> QED BY <1>2, <2>3 DEF Immediate, t, d
<1>3. CASE op = "ALR"
  <2> DEFINE d == SetFlag(c, FlagC, Bit(t, 0) = 1)
             h == t \div 2
  <2>1. h \in Byte
    BY <1>1, ModifiedType DEF Modified, ModifiedOps
  <2>2. Typed(c, d)
    BY SettingFlag, CalmIsTyped
  <2> HIDE DEF d, h
  <2>3. Typed(d, LoadA(d, h))
    BY <2>1, <2>2, Loading, CalmIsTyped DEF Typed
  <2>4. Typed(c, LoadA(d, h))
    BY <2>2, <2>3, TypedIsTransitive
  <2> QED BY <1>3, <2>4 DEF Immediate, t, d, h
<1>4. CASE op = "ARR"
  BY <1>1, <1>4, TypedArr DEF Immediate, t
<1>5. CASE op = "SBX"
  <2> DEFINE e == And(c.a, c.x) - v
             d == SetFlag(c, FlagC, e >= 0)
             h == e % 256
  <2>1. e \in Int
    BY <1>1, Ranges, SMT
  <2>2. h \in Byte
    BY <2>1, Wraps, SMT
  <2>3. Typed(c, d)
    BY SettingFlag, CalmIsTyped
  <2> HIDE DEF d, h
  <2>4. Typed(d, LoadX(d, h))
    BY <2>2, <2>3, Loading, CalmIsTyped DEF Typed
  <2>5. Typed(c, LoadX(d, h))
    BY <2>3, <2>4, TypedIsTransitive
  <2> QED BY <1>5, <2>5 DEF Immediate, Sbx, d, h
<1>6. CASE op = "XAA"
  <2>1. And(magic, c.x) \in Byte
    BY <1>1, BooleansOfBytes
  <2> QED BY <1>6, <2>1, Loading, CalmIsTyped DEF Immediate
<1>7. CASE op = "LXA"
  <2> HIDE DEF magic
  <2> DEFINE d == LoadX(c, magic)
  <2>1. Typed(c, d)
    BY <1>1, Loading, CalmIsTyped
  <2> HIDE DEF d
  <2>2. Typed(d, LoadA(d, magic))
    BY <1>1, <2>1, Loading, CalmIsTyped DEF Typed
  <2>3. Typed(c, LoadA(d, magic))
    BY <2>1, <2>2, TypedIsTransitive
  <2> QED BY <1>7, <2>3 DEF Immediate, magic, d
<1> QED BY <1>2, <1>3, <1>4, <1>5, <1>6, <1>7 DEF Immediates

-------------------------------------------------------------------------------
(* The 6502 family: a step, and the service of an interrupt.               *)

LEMMA TypedUnstable ==
  ASSUME NEW c \in Processor, NEW i \in Instructions, i.op \in Unstable, i.mode \in Accessing
  PROVE  Typed(c, UnstableOp(c, i))
<1> DEFINE v == Operand(c, i)
           both == And(c.a, c.x)
           page == (Hi(Resolve(c, i)) + 1) % 256
           s == And(v, c.sp)
<1>1. /\ v \in Byte /\ both \in Byte /\ s \in Byte
      /\ c.x \in Byte /\ c.y \in Byte
  BY OperandType, Fields, BooleansOfBytes
<1>2. page \in Byte
  <2>1. Resolve(c, i) \in Int
    BY Resolved, Ranges, SMT DEF Accessing, Memory8, Resolving
  <2>2. Hi(Resolve(c, i)) + 1 \in Int
    BY <2>1, LoHiType, Ranges, SMT
  <2> QED BY <2>2, Wraps, SMT
<1>3. i.mode # "IMM"
  BY DEF Accessing, Memory8
<1> HIDE DEF v, both, page, s
<1>4. And(both, page) \in Byte /\ And(c.x, page) \in Byte /\ And(c.y, page) \in Byte
  BY <1>1, <1>2, BooleansOfBytes
<1>5. CASE i.op \in {"SAX", "SHA", "SHX", "SHY"}
  <2>1. /\ Typed(c, Store(c, i, both)) /\ Typed(c, Store(c, i, And(both, page)))
        /\ Typed(c, Store(c, i, And(c.x, page))) /\ Typed(c, Store(c, i, And(c.y, page)))
    BY <1>1, <1>3, <1>4, OperandType
  <2> QED BY <1>5, <2>1 DEF UnstableOp, both, page
<1>6. CASE i.op = "TAS"
  <2> DEFINE d == [c EXCEPT !.sp = both]
  <2>1. Typed(c, d)
    BY <1>1, Assigning
  <2> HIDE DEF d
  <2>2. Typed(d, Store(d, i, And(both, page)))
    BY <1>3, <1>4, <2>1, OperandType DEF Typed
  <2>3. Typed(c, Store(d, i, And(both, page)))
    BY <2>1, <2>2, TypedIsTransitive
  <2> QED BY <1>6, <2>3 DEF UnstableOp, d, both, page
<1>7. CASE i.op = "LAX"
  <2> DEFINE d == LoadX(c, v)
  <2>1. Typed(c, d)
    BY <1>1, Loading, CalmIsTyped
  <2> HIDE DEF d
  <2>2. Typed(d, LoadA(d, v))
    BY <1>1, <2>1, Loading, CalmIsTyped DEF Typed
  <2>3. Typed(c, LoadA(d, v))
    BY <2>1, <2>2, TypedIsTransitive
  <2> QED BY <1>7, <2>3 DEF UnstableOp, d, v
<1>8. CASE i.op = "LAS"
  <2> DEFINE d == [c EXCEPT !.sp = s]
             e == LoadX(d, s)
  <2>1. Typed(c, d)
    BY <1>1, Assigning
  <2> HIDE DEF d
  <2>2. Typed(d, e)
    BY <1>1, <2>1, Loading, CalmIsTyped DEF Typed
  <2>3. Typed(c, e)
    BY <2>1, <2>2, TypedIsTransitive
  <2> HIDE DEF e
  <2>4. Typed(e, LoadA(e, s))
    BY <1>1, <2>3, Loading, CalmIsTyped DEF Typed
  <2>5. Typed(c, LoadA(e, s))
    BY <2>3, <2>4, TypedIsTransitive
  <2> QED BY <1>8, <2>5 DEF UnstableOp, e, d, s, v
<1> QED BY <1>5, <1>6, <1>7, <1>8 DEF Unstable

(* Which modes the opcode tables give an instruction. *)
Accessors == Loads \cup Logics \cup {"BIT", "ADC", "SBC"} \cup Compares

Changers == Stores \cup ReadModifyWrites \cup BitWrites \cup Combined \cup Unstable

LEMMA OpcodeModes ==
  ASSUME NEW variant, NEW op, NEW mode, <<op, mode>> \in Opcodes(variant)
  PROVE  /\ op \in Accessors => mode \in Accessing \cup {"IMM"}
         /\ op \in Changers => mode \in Accessing \cup {"ACC"}
         /\ op \in Changers \ ReadModifyWrites => mode \in Accessing
         /\ op \in Immediates => mode = "IMM"
         /\ op \in Branches => mode = "REL"
         /\ op = "JMP" => mode \in Resolving
<1>1. CASE <<op, mode>> \in Official
  BY <1>1 DEF Official, Accessors, Changers, Accessing, Memory8, Resolving, Loads, Logics,
     Compares, Stores, ReadModifyWrites, BitWrites, Combined, Unstable, Immediates, Branches,
     Transfers, Steps, FlagOps
<1>2. CASE <<op, mode>> \in OfCMOS \cup CmosNOPs
  BY <1>2 DEF OfCMOS, CmosNOPs, BitBranches, Accessors, Changers, Accessing, Memory8,
     Resolving, Loads, Logics, Compares, Stores, ReadModifyWrites, BitWrites, Combined,
     Unstable, Immediates, Branches
<1>3. CASE <<op, mode>> \in OfNMOS
  BY <1>3 DEF OfNMOS, Accessors, Changers, Accessing, Memory8,
     Resolving, Loads, Logics, Compares, Stores, ReadModifyWrites, BitWrites, Combined,
     Unstable, Immediates, Branches
<1> QED BY <1>1, <1>2, <1>3 DEF Opcodes

LEMMA OpcodeOps ==
  ASSUME NEW variant, NEW op, NEW mode, <<op, mode>> \in Opcodes(variant)
  PROVE  op \in Accessors \cup Changers \cup Immediates \cup Branches \cup BitBranches
               \cup Jumps \cup Transfers \cup StackOps \cup Steps \cup FlagOps \cup Idles
  BY DEF Opcodes, Official, OfCMOS, CmosNOPs, OfNMOS, BitBranches, Accessors, Changers,
     Loads, Logics, Compares, Stores, ReadModifyWrites, BitWrites, Combined,
     Unstable, Immediates, Branches, Transfers, Steps, FlagOps, Idles, Jumps, StackOps

(* Every opcode, and so a step.                                            *)
LEMMA TypedExec ==
  ASSUME NEW c \in Processor, NEW i \in Instructions, NEW variant,
         <<i.op, i.mode>> \in Opcodes(variant)
  PROVE  Typed(c, Exec(c, i))
<1> USE DEF Loads, Stores, Transfers, StackOps, Logics, Compares, ReadModifyWrites, Steps,
    BitWrites, Branches, BitBranches, Jumps, FlagOps, Idles, Combined, Immediates, Unstable
<1>1. CASE i.op \in Accessors
  <2>1. Operand(c, i) \in Byte
    BY <1>1, OpcodeModes, OperandType
  <2>2. CASE i.op \in Loads
    BY <2>1, <2>2, TypedLoad DEF Exec
  <2>3. CASE i.op \in Logics
    BY <2>1, <2>3, TypedLogic DEF Exec
  <2>4. CASE i.op = "BIT"
    BY <2>1, <2>4, TypedBitTest DEF Exec
  <2>5. CASE i.op \in {"ADC", "SBC"}
    BY <2>1, <2>5, TypedAdc DEF Exec
  <2>6. CASE i.op \in Compares
    BY <2>1, <2>6, TypedCompare DEF Exec
  <2> QED BY <1>1, <2>2, <2>3, <2>4, <2>5, <2>6 DEF Accessors
<1>2. CASE i.op \in Changers
  <2>1. i.mode \in Accessing \cup {"ACC"} /\ (i.op \notin ReadModifyWrites => i.mode \in Accessing)
    BY <1>2, OpcodeModes
  <2>2. CASE i.op \in Stores
    <3>1. i.mode # "IMM" /\ Stored(c, i.op) \in Byte
      BY <2>1, <2>2, StoredType DEF Accessing, Memory8
    <3> QED BY <2>1, <2>2, <3>1, OperandType DEF Exec
  <2>3. CASE i.op \in ReadModifyWrites
    BY <2>1, <2>3, TypedReadModifyWrite DEF Exec
  <2>4. CASE i.op \in BitWrites
    BY <2>1, <2>4, TypedBitWrite DEF Exec
  <2>5. CASE i.op \in Combined
    BY <2>1, <2>5, TypedCombine DEF Exec
  <2>6. CASE i.op \in Unstable
    BY <2>1, <2>6, TypedUnstable DEF Exec
  <2> QED BY <1>2, <2>2, <2>3, <2>4, <2>5, <2>6 DEF Changers
<1>3. CASE i.op \in Immediates
  <2>1. Operand(c, i) \in Byte
    BY <1>3, OpcodeModes, OperandType
  <2> QED BY <1>3, <2>1, TypedImmediate DEF Exec
<1>4. CASE i.op \in Branches \cup BitBranches
  BY <1>4, OpcodeModes, TypedBranch DEF Exec
<1>5. CASE i.op \in Jumps
  BY <1>5, OpcodeModes, TypedJump DEF Exec
<1>6. CASE i.op \in Transfers \cup Steps
  BY <1>6, TypedTransfer, TypedStepIndex DEF Exec
<1>7. CASE i.op \in StackOps
  BY <1>7, TypedStackOp DEF Exec
<1>8. CASE i.op \in FlagOps \cup Idles
  BY <1>8, CalmFlagOp, CalmIdle, CalmIsTyped DEF Exec
<1> HIDE DEF Loads, Stores, Transfers, StackOps, Logics, Compares, ReadModifyWrites, Steps,
    BitWrites, Branches, BitBranches, Jumps, FlagOps, Idles, Combined, Immediates, Unstable
<1> QED BY <1>1, <1>2, <1>3, <1>4, <1>5, <1>6, <1>7, <1>8, OpcodeOps

LEMMA TypedStep6502 ==
  ASSUME NEW c \in Processor, NEW i \in Instructions, NEW variant,
         <<i.op, i.mode>> \in Opcodes(variant)
  PROVE  Typed(c, Step6502(c, i))
<1> DEFINE pc == (c.pc + 1 + OperandBytes(i.mode)) % 65536
           fetched == [c EXCEPT !.pc = pc]
           done == Exec(fetched, i)
           halted == done.halted \/ (done.pc = c.pc /\ c.variant # "NES")
<1>1. pc \in Word
  <2>1. OperandBytes(i.mode) \in Int
    BY DEF OperandBytes
  <2>2. c.pc + 1 + OperandBytes(i.mode) \in Int
    BY <2>1, Fields, Ranges, SMT
  <2> QED BY <2>2, Wraps, SMT
<1> HIDE DEF pc
<1>2. Typed(c, fetched)
  BY <1>1, Assigning
<1> HIDE DEF fetched
<1>3. Typed(fetched, done)
  BY <1>2, TypedExec DEF Typed
<1>4. Typed(c, done)
  BY <1>2, <1>3, TypedIsTransitive
<1> HIDE DEF done
<1>5. halted \in BOOLEAN
  BY <1>4, Fields DEF Typed
<1> HIDE DEF halted
<1>6. Typed(done, [done EXCEPT !.halted = halted])
  BY <1>4, <1>5, Assigning DEF Typed
<1>7. Typed(c, [done EXCEPT !.halted = halted])
  BY <1>4, <1>6, TypedIsTransitive
<1> QED BY <1>7 DEF Step6502, halted, done, fetched, pc

-------------------------------------------------------------------------------
(* The 65816. Even leaves the mode and the widths alone but may move the   *)
(* stack off its page; Lawful allows a change of mode, and keeps the page  *)
(* of an emulated stack locked and a narrow index clear.                   *)

Even(c, d) ==
  /\ Typed(c, d) /\ d.e = c.e
  /\ d.p \cap {FlagM, FlagX} = c.p \cap {FlagM, FlagX}
  /\ ~XWide(c) => d.xh = c.xh /\ d.yh = c.yh

Lawful(c, d) ==
  /\ Typed(c, d)
  /\ PageLocked(c) => PageLocked(d)
  /\ IndexClear(c) => IndexClear(d)

(* How the relations follow from one another.                              *)
LEMMA CalmIsLawful == \A c, d : Calm(c, d) => Lawful(c, d) /\ Even(c, d)
  BY DEF Calm, Lawful, Even, PageLocked, IndexClear, XWide, Typed

LEMMA EvenIsLawful == \A c, d : Even(c, d) /\ (d.e => d.sph = 1) => Lawful(c, d)
  BY DEF Lawful, Even, PageLocked, IndexClear, XWide

LEMMA EvenIsTransitive ==
  ASSUME NEW b, NEW c, NEW d, Even(b, c), Even(c, d)
  PROVE  Even(b, d)
  BY DEF Even, Typed, XWide, FlagM, FlagX, FlagB, FlagU

LEMMA LawfulIsTransitive ==
  ASSUME NEW b, NEW c, NEW d, Lawful(b, c), Lawful(c, d)
  PROVE  Lawful(b, d)
  BY DEF Lawful, Typed

(* Registers and values at their widths.                                   *)
LEMMA Widths ==
  ASSUME NEW c
  PROVE  /\ AccBits(c) = IF MWide(c) THEN 16 ELSE 8
         /\ IdxBits(c) = IF XWide(c) THEN 16 ELSE 8
         /\ AccBits(c) \in {8, 16} /\ IdxBits(c) \in {8, 16}
         /\ 2 ^ AccBits(c) = IF MWide(c) THEN 65536 ELSE 256
         /\ 2 ^ IdxBits(c) = IF XWide(c) THEN 65536 ELSE 256
<1>1. CASE MWide(c) /\ XWide(c)
  BY <1>1, Powers, SMT DEF AccBits, IdxBits
<1>2. CASE MWide(c) /\ ~XWide(c)
  BY <1>2, Powers, SMT DEF AccBits, IdxBits
<1>3. CASE ~MWide(c) /\ XWide(c)
  BY <1>3, Powers, SMT DEF AccBits, IdxBits
<1>4. CASE ~MWide(c) /\ ~XWide(c)
  BY <1>4, Powers, SMT DEF AccBits, IdxBits
<1> QED BY <1>1, <1>2, <1>3, <1>4

LEMMA RegisterTypes ==
  ASSUME NEW c \in Processor
  PROVE  A16(c) \in Word /\ X16(c) \in Word /\ Y16(c) \in Word /\ SP16(c) \in Word
  BY Fields, PairType DEF A16, X16, Y16, SP16

LEMMA ValueTypes ==
  ASSUME NEW c \in Processor
  PROVE  /\ Acc(c) = IF MWide(c) THEN A16(c) ELSE c.a
         /\ Xidx(c) = IF XWide(c) THEN X16(c) ELSE c.x
         /\ Yidx(c) = IF XWide(c) THEN Y16(c) ELSE c.y
         /\ Acc(c) \in Word /\ Xidx(c) \in Word /\ Yidx(c) \in Word
<1>1. /\ A16(c) % 65536 = A16(c) /\ X16(c) % 65536 = X16(c) /\ Y16(c) % 65536 = Y16(c)
  BY RegisterTypes, Wrapped, SMT
<1>2. /\ A16(c) % 256 = c.a /\ X16(c) % 256 = c.x /\ Y16(c) % 256 = c.y
  BY Fields, HalvesOfPair DEF A16, X16, Y16, Lo
<1>3. /\ Acc(c) = IF MWide(c) THEN A16(c) ELSE c.a
      /\ Xidx(c) = IF XWide(c) THEN X16(c) ELSE c.x
      /\ Yidx(c) = IF XWide(c) THEN Y16(c) ELSE c.y
  BY <1>1, <1>2, Widths DEF Acc, Xidx, Yidx
<1> QED BY <1>3, RegisterTypes, Fields, Wider

LEMMA LoadingAcc ==
  ASSUME NEW c \in Processor, NEW v \in Int
  PROVE  Calm(c, LoadAcc(c, v)) /\ Calm(c, SetA16(c, v))
<1>1. Lo(v) \in Byte /\ Hi(v) \in Byte
  BY LoHiType
<1> DEFINE d == [c EXCEPT !.a = Lo(v)]
<1>2. Calm(c, d)
  BY <1>1, CalmAssigning
<1> HIDE DEF d
<1>3. Calm(d, [d EXCEPT !.b = Hi(v)])
  BY <1>1, <1>2, CalmAssigning, CalmIsTyped
<1>4. Calm(c, [d EXCEPT !.b = Hi(v)])
  BY <1>2, <1>3, CalmIsTransitive
<1>5. Calm(c, SetA16(c, v))
  BY <1>4 DEF SetA16, d
<1>6. Calm(SetA16(c, v), SetZN(SetA16(c, v), v, 16)) /\ Calm(d, SetZN(d, Lo(v), 8))
  BY <1>2, <1>5, SettingZN, CalmIsTyped
<1>7. Calm(c, SetZN(SetA16(c, v), v, 16)) /\ Calm(c, SetZN(d, Lo(v), 8))
  BY <1>2, <1>5, <1>6, CalmIsTransitive
<1> QED BY <1>5, <1>7 DEF LoadAcc, d

LEMMA WideAssigning ==
  /\ \A c \in Processor : \A v \in Byte : XWide(c) => Calm(c, [c EXCEPT !.xh = v])
  /\ \A c \in Processor : \A v \in Byte : XWide(c) => Calm(c, [c EXCEPT !.yh = v])
  /\ \A c \in Processor : \A v \in Byte : ~c.e => Calm(c, [c EXCEPT !.sph = v])
  BY DEF Calm, Typed, Processor, Processors, XWide

LEMMA CalmWidth == \A c, d : Calm(c, d) => XWide(d) = XWide(c) /\ MWide(d) = MWide(c)
  BY DEF Calm, XWide, MWide

LEMMA LoadingIdx ==
  ASSUME NEW c \in Processor, NEW v \in Int
  PROVE  Calm(c, LoadIdxX(c, v)) /\ Calm(c, LoadIdxY(c, v))
<1>1. Lo(v) \in Byte /\ Hi(v) \in Byte
  BY LoHiType
<1> DEFINE d == [c EXCEPT !.x = Lo(v)]
           e == [c EXCEPT !.y = Lo(v)]
           f == [d EXCEPT !.xh = Hi(v)]
           g == [e EXCEPT !.yh = Hi(v)]
<1>2. Calm(c, d) /\ Calm(c, e)
  BY <1>1, CalmAssigning
<1> HIDE DEF d, e
<1>3. XWide(c) => Calm(d, f) /\ Calm(e, g)
  BY <1>1, <1>2, WideAssigning, CalmIsTyped, CalmWidth
<1>4. XWide(c) => Calm(c, f) /\ Calm(c, g)
  BY <1>2, <1>3, CalmIsTransitive
<1> HIDE DEF f, g
<1>5. /\ XWide(c) => Calm(f, SetZN(f, v, 16)) /\ Calm(g, SetZN(g, v, 16))
      /\ Calm(d, SetZN(d, Lo(v), 8)) /\ Calm(e, SetZN(e, Lo(v), 8))
  BY <1>2, <1>4, SettingZN, CalmIsTyped
<1>6. /\ XWide(c) => Calm(c, SetZN(f, v, 16)) /\ Calm(c, SetZN(g, v, 16))
      /\ Calm(c, SetZN(d, Lo(v), 8)) /\ Calm(c, SetZN(e, Lo(v), 8))
  BY <1>2, <1>4, <1>5, CalmIsTransitive
<1> QED BY <1>6 DEF LoadIdxX, LoadIdxY, d, e, f, g

(* Moving the sixteen-bit stack pointer, and putting its page back.        *)
LEMMA SettingSP ==
  ASSUME NEW c \in Processor, NEW v \in Int
  PROVE  Even(c, SetSPRaw(c, v)) /\ (~c.e => Calm(c, SetSPRaw(c, v)))
<1>1. Lo(v) \in Byte /\ Hi(v) \in Byte
  BY LoHiType
<1> DEFINE d == [c EXCEPT !.sp = Lo(v)]
<1>2. Calm(c, d)
  BY <1>1, CalmAssigning
<1> HIDE DEF d
<1>3. Even(d, [d EXCEPT !.sph = Hi(v)])
  <2>1. d \in Processor
    BY <1>2, CalmIsTyped
  <2> QED BY <1>1, <2>1 DEF Even, Typed, Processor, Processors
<1>4. ~c.e => Calm(d, [d EXCEPT !.sph = Hi(v)])
  BY <1>1, <1>2, WideAssigning DEF Calm, Typed
<1>5. Even(c, [d EXCEPT !.sph = Hi(v)])
  BY <1>2, <1>3, EvenIsTransitive, CalmIsLawful
<1>6. ~c.e => Calm(c, [d EXCEPT !.sph = Hi(v)])
  BY <1>2, <1>4, CalmIsTransitive
<1> QED BY <1>5, <1>6 DEF SetSPRaw, d

LEMMA MovingSP ==
  ASSUME NEW c \in Processor, NEW n \in Int
  PROVE  /\ Calm(c, SpMoved(c, n)) /\ Even(c, NewMoved(c, n))
         /\ SP16(SpMoved(c, n)) \in Word /\ (SP16(c) + n) % 65536 \in Word
<1>1. c.sp + n \in Int /\ SP16(c) + n \in Int
  BY Fields, RegisterTypes, Ranges, SMT
<1>2. (c.sp + n) % 256 \in Byte /\ (SP16(c) + n) % 65536 \in Int
  BY <1>1, Wraps, Ranges, SMT
<1>3. (SP16(c) + n) % 65536 \in Word
  BY <1>1, Wraps, SMT
<1>4. Calm(c, [c EXCEPT !.sp = (c.sp + n) % 256])
  BY <1>2, CalmAssigning
<1>5. /\ Even(c, SetSPRaw(c, (SP16(c) + n) % 65536))
      /\ ~c.e => Calm(c, SetSPRaw(c, (SP16(c) + n) % 65536))
  BY <1>2, SettingSP
<1>6. Calm(c, SpMoved(c, n)) /\ Even(c, NewMoved(c, n))
  BY <1>4, <1>5 DEF SpMoved, NewMoved
<1> QED BY <1>3, <1>6, RegisterTypes, CalmIsTyped

LEMMA PushingSP ==
  ASSUME NEW c \in Processor, NEW v \in Byte
  PROVE  Calm(c, SpPush8(c, v)) /\ Even(c, NewPush8(c, v))
<1> DEFINE d == Write(c, SP16(c), v)
<1>1. Calm(c, d)
  BY RegisterTypes, Wider, Writing
<1> HIDE DEF d
<1>2. Calm(d, SpMoved(d, -1)) /\ Even(d, NewMoved(d, -1))
  BY <1>1, MovingSP, CalmIsTyped
<1>3. Calm(c, SpMoved(d, -1)) /\ Even(c, NewMoved(d, -1))
  BY <1>1, <1>2, CalmIsTransitive, EvenIsTransitive, CalmIsLawful
<1> QED BY <1>3 DEF SpPush8, NewPush8, d

LEMMA PushingSP16 ==
  ASSUME NEW c \in Processor, NEW v \in Int
  PROVE  Calm(c, SpPush16(c, v)) /\ Even(c, NewPush16(c, v))
<1>1. Lo(v) \in Byte /\ Hi(v) \in Byte
  BY LoHiType
<1> DEFINE d == SpPush8(c, Hi(v))
           e == NewPush8(c, Hi(v))
<1>2. Calm(c, d) /\ Even(c, e)
  BY <1>1, PushingSP
<1>3. d \in Processor /\ e \in Processor
  BY <1>2 DEF Calm, Even, Typed
<1> HIDE DEF d, e
<1>4. Calm(d, SpPush8(d, Lo(v))) /\ Even(e, NewPush8(e, Lo(v)))
  BY <1>1, <1>3, PushingSP
<1>5. Calm(c, SpPush8(d, Lo(v))) /\ Even(c, NewPush8(e, Lo(v)))
  BY <1>2, <1>4, CalmIsTransitive, EvenIsTransitive
<1> QED BY <1>5 DEF SpPush16, NewPush16, d, e

LEMMA Pulling ==
  ASSUME NEW c \in Processor, NEW n \in Int
  PROVE  /\ SpTop(c, n) \in Byte /\ SpTop16(c, n) \in Word
         /\ NewTop(c, n) \in Byte /\ NewTop16(c, n) \in Word
<1>1. ASSUME NEW k \in Int PROVE SpTop(c, k) \in Byte /\ NewTop(c, k) \in Byte
  BY MovingSP, Wider, ReadType DEF SpTop, NewTop
<1>2. n + 1 \in Int
  OBVIOUS
<1> QED BY <1>1, <1>2, PairType DEF SpTop16, NewTop16

(* What follows a change of mode: the page is put back, high bytes         *)
(* cleared.                                                                *)
LEMMA Reforcing ==
  ASSUME NEW c \in Processor
  PROVE  Even(c, Reforced(c)) /\ (Reforced(c).e => Reforced(c).sph = 1)
<1>1. (IF c.e THEN 1 ELSE c.sph) \in Byte
  BY Fields, Ranges, SMT
<1> DEFINE v == IF c.e THEN 1 ELSE c.sph
<1> HIDE DEF v
<1>2. [c EXCEPT !.sph = v] \in Processor
  BY <1>1, Assigning DEF Typed, v
<1>3. Even(c, [c EXCEPT !.sph = v]) /\ [c EXCEPT !.sph = v].sph = v /\ [c EXCEPT !.sph = v].e = c.e
  BY <1>2 DEF Even, Typed, Processor, Processors
<1> QED BY <1>3 DEF Reforced, v

LEMMA Truncating ==
  ASSUME NEW c \in Processor
  PROVE  /\ Typed(c, Truncated(c)) /\ IndexClear(Truncated(c))
         /\ Truncated(c).e = c.e /\ Truncated(c).sph = c.sph
<1> DEFINE p == c.p \cup (IF c.e THEN {FlagM, FlagX} ELSE {})
           narrow == c.e \/ FlagX \in p
           xh == IF narrow THEN 0 ELSE c.xh
           yh == IF narrow THEN 0 ELSE c.yh
           d == [c EXCEPT !.p = p]
           e == [d EXCEPT !.xh = xh]
           f == [e EXCEPT !.yh = yh]
<1>1. p \in SUBSET Flags /\ xh \in Byte /\ yh \in Byte
  BY Fields, FlagValues, Ranges, SMT
<1>2. ~narrow \/ (xh = 0 /\ yh = 0)
  OBVIOUS
<1>3. narrow <=> (c.e \/ FlagX \in p)
  OBVIOUS
<1> HIDE DEF p, narrow, xh, yh
<1>4. Typed(c, d) /\ d.p = p /\ d.e = c.e /\ d.sph = c.sph
  BY <1>1, Assigning DEF Processor, Processors
<1> HIDE DEF d
<1>5. Typed(d, e) /\ e.p = d.p /\ e.e = d.e /\ e.sph = d.sph /\ e.xh = xh
  BY <1>1, <1>4, Assigning DEF Typed, Processor, Processors
<1> HIDE DEF e
<1>6. Typed(e, f) /\ f.p = e.p /\ f.e = e.e /\ f.sph = e.sph /\ f.xh = e.xh /\ f.yh = yh
  BY <1>1, <1>5, Assigning DEF Typed, Processor, Processors
<1> HIDE DEF f
<1>7. f = Truncated(c)
  BY DEF Truncated, f, e, d, xh, yh, narrow, p
<1>8. Typed(c, f)
  BY <1>4, <1>5, <1>6, TypedIsTransitive
<1>9. IndexClear(f)
  BY <1>2, <1>3, <1>4, <1>5, <1>6 DEF IndexClear, XWide
<1> QED BY <1>4, <1>5, <1>6, <1>7, <1>8, <1>9

-------------------------------------------------------------------------------
(* The 65816: direct page, long and stack-relative addresses.              *)

(* The direct page and the banks.                                          *)
LEMMA DpBaseType ==
  ASSUME NEW c \in Processor, NEW dp \in Int, NEW idx \in Int
  PROVE  DpBase(c, dp, idx) \in Word
<1>1. c.d \in Int /\ 0 <= c.d /\ c.d < 65536
  BY Fields, Ranges, SMT
<1> DEFINE k == (dp + idx) % 256
<1>2. k \in Int /\ 0 <= k /\ k < 256
  BY Wraps, Ranges, SMT
<1> HIDE DEF k
<1>3. (c.d % 256) = 0 => c.d <= 65280
  BY <1>1
<1>4. (c.d % 256) = 0 => c.d + k \in Word
  BY <1>1, <1>2, <1>3, Ranges, SMT
<1>5. c.d + dp + idx \in Int
  BY <1>1
<1>6. (c.d + dp + idx) % 65536 \in Word
  BY <1>5, Wraps, SMT
<1> QED BY <1>4, <1>6 DEF DpBase, Lo, k

LEMMA AtType ==
  /\ \A bank \in Byte : \A a \in Word : At(bank, a) \in Address
  /\ \A v \in Int : Wrap24(v) \in Address
<1>1. \A bank \in Byte : \A a \in Word : At(bank, a) \in Address
  BY Ranges, SMT DEF At
<1> QED BY <1>1, Wraps, SMT DEF Wrap24

LEMMA DpTypes ==
  ASSUME NEW c \in Processor
  PROVE  /\ \A base \in Int : \A n \in Int : DpByte(c, base, n) \in Byte
         /\ \A base \in Int : DpWord(c, base) \in Word
         /\ \A base \in Int : DpLong(c, base) \in Address
         /\ \A dp \in Int : DpWordWrap(c, dp) \in Word
         /\ \A dp \in Int : DpLongWrap(c, dp) \in Address
<1>1. ASSUME NEW base \in Int, NEW n \in Int PROVE DpByte(c, base, n) \in Byte
  <2>1. base + n \in Int
    OBVIOUS
  <2>2. (base + n) % 65536 \in Address
    BY <2>1, Wraps, Wider, SMT
  <2> QED BY <2>2, ReadType DEF DpByte
<1>2. ASSUME NEW base \in Int PROVE DpWord(c, base) \in Word
  BY <1>1, PairType DEF DpWord
<1>3. ASSUME NEW base \in Int PROVE DpLong(c, base) \in Address
  BY <1>1, <1>2, AtType DEF DpLong
<1>4. ASSUME NEW dp \in Int, NEW n \in Int PROVE Read(c, DpBase(c, dp, n)) \in Byte
  BY DpBaseType, Wider, ReadType
<1>5. ASSUME NEW dp \in Int PROVE DpWordWrap(c, dp) \in Word
  BY <1>4, PairType DEF DpWordWrap
<1>6. ASSUME NEW dp \in Int PROVE DpLongWrap(c, dp) \in Address
  BY <1>4, <1>5, AtType DEF DpLongWrap
<1> QED BY <1>1, <1>2, <1>3, <1>5, <1>6

LEMMA StackRelTypes ==
  ASSUME NEW c \in Processor, NEW arg \in Int
  PROVE  StackRel(c, arg) \in Word /\ StackPointer(c, arg) \in Word
<1>1. SP16(c) + arg \in Int
  BY RegisterTypes, Ranges, SMT
<1>2. StackRel(c, arg) \in Word
  BY <1>1, Wraps, SMT DEF StackRel
<1>3. StackRel(c, arg) + 1 \in Int
  BY <1>2, Ranges, SMT
<1>4. StackRel(c, arg) \in Address /\ (StackRel(c, arg) + 1) % 65536 \in Address
  BY <1>2, <1>3, Wraps, Wider, SMT
<1> QED BY <1>2, <1>4, ReadType, PairType DEF StackPointer

EffectiveAddresses == {ea \in [addr : Address, bank0 : BOOLEAN] : ea.bank0 => ea.addr \in Word}

(* An effective address is an address; one in bank 0 wraps within it.      *)
LEMMA Addressed ==
  /\ \A a \in Word : InBank0(a) \in EffectiveAddresses
  /\ \A a \in Int : InBanks(a) \in EffectiveAddresses
  /\ \A c \in Processor : \A p \in Word : \A idx \in Word : InData(c, p, idx) \in EffectiveAddresses
<1>1. \A a \in Word : InBank0(a) \in EffectiveAddresses
  BY Wider DEF InBank0, EffectiveAddresses
<1>2. ASSUME NEW a \in Int PROVE InBanks(a) \in EffectiveAddresses
  BY AtType DEF InBanks, EffectiveAddresses
<1>3. ASSUME NEW c \in Processor, NEW p \in Word, NEW idx \in Word
      PROVE  InData(c, p, idx) \in EffectiveAddresses
  <2>1. At(c.dbr, p) \in Int
    BY Fields, AtType, Ranges, SMT
  <2>2. At(c.dbr, p) + idx \in Int
    BY <2>1, Ranges, SMT
  <2> QED BY <1>2, <2>2 DEF InData
<1> QED BY <1>1, <1>2, <1>3

Resolving816 == Memory816 \cup {"ZPY"}

LEMMA EAType ==
  ASSUME NEW c \in Processor, NEW i \in Instructions, i.mode \in Resolving816
  PROVE  EA(c, i) \in EffectiveAddresses
<1>1. /\ i.arg \in Int
      /\ i.mode \in {"ABS", "ABX", "ABY"} => i.arg \in Word
  BY Ranges, SMT DEF Instructions, Operands
<1>2. /\ Xidx(c) \in Word /\ Yidx(c) \in Word /\ Xidx(c) \in Int /\ Yidx(c) \in Int
      /\ 0 \in Word /\ 0 \in Int
  BY ValueTypes, Ranges, SMT
<1>3. /\ DpBase(c, i.arg, 0) \in Word /\ DpBase(c, i.arg, Xidx(c)) \in Word
      /\ DpBase(c, i.arg, Yidx(c)) \in Word
  BY <1>1, <1>2, DpBaseType
<1>4. DpBase(c, i.arg, 0) \in Int /\ DpBase(c, i.arg, Xidx(c)) \in Int
  BY <1>3, Ranges, SMT
<1>5. /\ DpWord(c, DpBase(c, i.arg, 0)) \in Word
      /\ DpWord(c, DpBase(c, i.arg, Xidx(c))) \in Word
      /\ DpLong(c, DpBase(c, i.arg, 0)) \in Int /\ DpLongWrap(c, i.arg) \in Int
  BY <1>1, <1>4, DpTypes, Ranges, SMT
<1>6. CASE i.mode \in {"ZP", "ZPX", "ZPY"}
  BY <1>3, <1>6, Addressed DEF EA
<1>7. CASE i.mode \in {"ABS", "ABX", "ABY"}
  BY <1>1, <1>2, <1>7, Addressed DEF EA
<1>8. CASE i.mode \in {"LONG", "LONGX", "ILDP", "ILDPY"}
  <2>1. i.arg + Xidx(c) \in Int /\ DpLongWrap(c, i.arg) + Yidx(c) \in Int
    BY <1>1, <1>2, <1>5
  <2> QED BY <1>1, <1>5, <1>8, <2>1, Addressed DEF EA
<1>9. CASE i.mode \in {"IZP", "IZX", "IZY"}
  BY <1>2, <1>5, <1>9, Addressed DEF EA
<1>10. CASE i.mode \in {"SR", "SRIY"}
  BY <1>1, <1>2, <1>10, StackRelTypes, Addressed DEF EA
<1> QED BY <1>6, <1>7, <1>8, <1>9, <1>10 DEF Resolving816, Memory816, Memory8

LEMMA AboveType ==
  ASSUME NEW ea \in EffectiveAddresses
  PROVE  ea.addr \in Address /\ Above(ea) \in Address
<1>1. ea.addr \in Address /\ ea.addr + 1 \in Int
  BY Ranges, SMT DEF EffectiveAddresses
<1>2. (ea.addr + 1) % 65536 \in Address /\ Wrap24(ea.addr + 1) \in Address
  BY <1>1, Wraps, Wider, AtType, SMT
<1> QED BY <1>1, <1>2 DEF Above

LEMMA ReadingEA ==
  ASSUME NEW c \in Processor, NEW ea \in EffectiveAddresses
  PROVE  ReadEA(c, ea, 8) \in Byte /\ ReadEA(c, ea, 16) \in Word
  BY AboveType, ReadType, PairType DEF ReadEA

LEMMA WritingEA ==
  ASSUME NEW c \in Processor, NEW ea \in EffectiveAddresses, NEW bits, NEW v \in Int
  PROVE  Calm(c, WriteEA(c, ea, bits, v))
<1>1. /\ ea.addr \in Address /\ Above(ea) \in Address /\ Lo(v) \in Byte /\ Hi(v) \in Byte
  BY AboveType, LoHiType
<1> DEFINE d == Write(c, ea.addr, Lo(v))
<1>2. Calm(c, d)
  BY <1>1, Writing
<1> HIDE DEF d
<1>3. Calm(d, Write(d, Above(ea), Hi(v)))
  BY <1>1, <1>2, Writing, CalmIsTyped
<1>4. Calm(c, Write(d, Above(ea), Hi(v)))
  BY <1>2, <1>3, CalmIsTransitive
<1> QED BY <1>2, <1>4 DEF WriteEA, d

LEMMA Operand816Type ==
  ASSUME NEW c \in Processor, NEW i \in Instructions, i.mode \in Resolving816 \cup {"IMM"}
  PROVE  Operand816(c, i, 8) \in Byte /\ Operand816(c, i, 16) \in Word
<1>1. i.arg \in Int
  BY Ranges, SMT DEF Instructions
<1>2. (i.arg % (2 ^ 8)) \in Byte /\ (i.arg % (2 ^ 16)) \in Word
  BY <1>1, Powers, Wraps, SMT
<1>3. CASE i.mode = "IMM"
  BY <1>2, <1>3 DEF Operand816
<1>4. CASE i.mode \in Resolving816
  BY <1>4, EAType, ReadingEA DEF Operand816, Resolving816, Memory816, Memory8
<1> QED BY <1>3, <1>4

-------------------------------------------------------------------------------
(* The 65816: arithmetic at the width of the accumulator.                  *)

(* An operand is read at the width of its register.                        *)
LEMMA OperandAtWidth ==
  ASSUME NEW c \in Processor, NEW i \in Instructions, i.mode \in Resolving816 \cup {"IMM"}
  PROVE  /\ Operand816(c, i, AccBits(c)) \in Word /\ Operand816(c, i, IdxBits(c)) \in Word
         /\ ~MWide(c) => Operand816(c, i, AccBits(c)) \in Byte
         /\ ~XWide(c) => Operand816(c, i, IdxBits(c)) \in Byte
<1>1. /\ AccBits(c) = IF MWide(c) THEN 16 ELSE 8
      /\ IdxBits(c) = IF XWide(c) THEN 16 ELSE 8
  BY Widths
<1> QED BY <1>1, Operand816Type, Wider

(* Decimal arithmetic at either width.                                     *)
LEMMA Digits16Types ==
  ASSUME NEW a \in Word, NEW v \in Word, NEW carry \in {0, 1}
  PROVE  AddDigits16(a, v, carry) \in Int /\ SubDigits16(a, v, carry) \in Word
<1>0. a \in Int /\ v \in Int
  BY Ranges, SMT
<1>1. AddDigits16(a, v, carry) \in Int
  <2> DEFINE t1 == DigitSum(a, v, 1, carry)
             s1 == CarryDigit(t1, 1)
             t2 == DigitSum(a, v, 16, s1)
             s2 == CarryDigit(t2, 16)
             t3 == DigitSum(a, v, 256, s2)
             s3 == CarryDigit(t3, 256)
  <2>1. t1 \in Int
    BY <1>0, DigitTypes
  <2> HIDE DEF t1
  <2>2. s1 \in Int
    BY <1>0, <2>1, DigitTypes
  <2> HIDE DEF s1
  <2>3. t2 \in Int
    BY <1>0, <2>2, DigitTypes
  <2> HIDE DEF t2
  <2>4. s2 \in Int
    BY <1>0, <2>3, DigitTypes
  <2> HIDE DEF s2
  <2>5. t3 \in Int
    BY <1>0, <2>4, DigitTypes
  <2> HIDE DEF t3
  <2>6. s3 \in Int
    BY <1>0, <2>5, DigitTypes
  <2> HIDE DEF s3
  <2>7. DigitSum(a, v, 4096, s3) \in Int
    BY <1>0, <2>6, DigitTypes
  <2> QED BY <2>7 DEF AddDigits16, s3, t3, s2, t2, s1, t1
<1>2. SubDigits16(a, v, carry) \in Word
  <2> DEFINE t1 == DigitDiff(a, v, 1, carry - 1)
             s1 == BorrowDigit(t1, 1)
             t2 == DigitDiff(a, v, 16, s1)
             s2 == BorrowDigit(t2, 16)
             t3 == DigitDiff(a, v, 256, s2)
             s3 == BorrowDigit(t3, 256)
             s4 == DigitDiff(a, v, 4096, s3)
  <2>1. t1 \in Int
    BY <1>0, DigitTypes
  <2> HIDE DEF t1
  <2>2. s1 \in Int
    BY <1>0, <2>1, DigitTypes
  <2> HIDE DEF s1
  <2>3. t2 \in Int
    BY <1>0, <2>2, DigitTypes
  <2> HIDE DEF t2
  <2>4. s2 \in Int
    BY <1>0, <2>3, DigitTypes
  <2> HIDE DEF s2
  <2>5. t3 \in Int
    BY <1>0, <2>4, DigitTypes
  <2> HIDE DEF t3
  <2>6. s3 \in Int
    BY <1>0, <2>5, DigitTypes
  <2> HIDE DEF s3
  <2>7. s4 \in Int
    BY <1>0, <2>6, DigitTypes
  <2> HIDE DEF s4
  <2>8. (IF s4 < 0 THEN s4 - 24576 ELSE s4) \in Int
    BY <2>7
  <2>9. (IF s4 < 0 THEN s4 - 24576 ELSE s4) % 65536 \in Word
    BY <2>8, Wraps, SMT
  <2> QED BY <2>9 DEF SubDigits16, s4, s3, t3, s2, t2, s1, t1
<1> QED BY <1>1, <1>2

LEMMA PowerTypes ==
  ASSUME NEW c
  PROVE  /\ 2 ^ AccBits(c) \in Int /\ 2 ^ (AccBits(c) - 4) \in Int
         /\ 2 ^ (AccBits(c) - 1) \in Int
         /\ \A s \in Int : s % (2 ^ AccBits(c)) \in Word
         /\ ~MWide(c) => \A s \in Int : s % (2 ^ AccBits(c)) \in Byte
         /\ \A s \in Int : s % (2 ^ IdxBits(c)) \in Word
<1>1. /\ 2 ^ 16 = 65536 /\ 2 ^ (16 - 4) = 4096 /\ 2 ^ (16 - 1) = 32768
      /\ 2 ^ 8 = 256 /\ 2 ^ (8 - 4) = 16 /\ 2 ^ (8 - 1) = 128
  BY Powers, SMT
<1>4. \A s \in Int : s % (2 ^ IdxBits(c)) \in Word
  <2>1. 2 ^ IdxBits(c) = 256 \/ 2 ^ IdxBits(c) = 65536
    BY Widths
  <2> QED BY <2>1, Wraps, Wider, SMT
<1>2. CASE MWide(c)
  <2>1. AccBits(c) = 16
    BY <1>2, Widths
  <2>2. \A s \in Int : s % (2 ^ AccBits(c)) \in Word
    BY <1>1, <2>1, Wraps, SMT
  <2>3. 2 ^ AccBits(c) \in Int /\ 2 ^ (AccBits(c) - 4) \in Int /\ 2 ^ (AccBits(c) - 1) \in Int
    BY <1>1, <2>1
  <2> QED BY <1>2, <2>2, <2>3, <1>4
<1>3. CASE ~MWide(c)
  <2>1. AccBits(c) = 8
    BY <1>3, Widths
  <2>2. \A s \in Int : s % (2 ^ AccBits(c)) \in Byte
    BY <1>1, <2>1, Wraps, SMT
  <2>3. 2 ^ AccBits(c) \in Int /\ 2 ^ (AccBits(c) - 4) \in Int /\ 2 ^ (AccBits(c) - 1) \in Int
    BY <1>1, <2>1
  <2> QED BY <2>2, <2>3, Wider, <1>4
<1> QED BY <1>2, <1>3

LEMMA CalmFlagsC ==
  ASSUME NEW c \in Processor, NEW cv, NEW vv
  PROVE  Calm(c, [c EXCEPT !.p = (@ \ {FlagC, FlagV}) \cup On(FlagC, cv) \cup On(FlagV, vv)])
<1> DEFINE s == (c.p \ {FlagC, FlagV}) \cup On(FlagC, cv) \cup On(FlagV, vv)
<1>1. s \in SUBSET Flags /\ s \cap {FlagM, FlagX} = c.p \cap {FlagM, FlagX}
  BY Fields, FlagSets, FlagValues
<1> HIDE DEF s
<1>2. Calm(c, [c EXCEPT !.p = s])
  BY <1>1, FlagsChanged
<1> QED BY <1>2 DEF s

(* Addition and subtraction at either width.                               *)
LEMMA CalmAdcDecimal816 ==
  ASSUME NEW c \in Processor, NEW v \in Word
  PROVE  Calm(c, AdcDecimal816(c, v))
<1> DEFINE n == AccBits(c)
           part == IF n = 16 THEN AddDigits16(Acc(c), v, CarryIn(c))
                   ELSE PartialSum8(Acc(c), v, CarryIn(c))
           sum == IF part >= 10 * 2 ^ (n - 4) THEN part + 6 * 2 ^ (n - 4) ELSE part
           d == [c EXCEPT !.p = (@ \ {FlagC, FlagV})
                                  \cup On(FlagC, sum >= 2 ^ n)
                                  \cup On(FlagV, Overflow(Acc(c), v, part, n))]
<1>1. Acc(c) \in Word /\ CarryIn(c) \in {0, 1}
  BY ValueTypes, CarryType
<1>2. part \in Int
  BY <1>1, Digits16Types, Decimal8Types
<1> HIDE DEF part
<1>3. sum \in Int
  BY <1>2, PowerTypes
<1> HIDE DEF sum
<1>4. sum % (2 ^ n) \in Int
  BY <1>3, PowerTypes, Ranges, SMT
<1>5. Calm(c, d)
  BY CalmFlagsC
<1> HIDE DEF d, n
<1>6. Calm(d, LoadAcc(d, sum % (2 ^ n)))
  BY <1>4, <1>5, LoadingAcc, CalmIsTyped
<1>7. Calm(c, LoadAcc(d, sum % (2 ^ n)))
  BY <1>5, <1>6, CalmIsTransitive
<1> QED BY <1>7 DEF AdcDecimal816, d, sum, part, n

LEMMA CalmAdc816 ==
  ASSUME NEW c \in Processor, NEW v \in Word
  PROVE  Calm(c, Adc816(c, v))
<1> DEFINE sum == Acc(c) + v + CarryIn(c)
           d == SetCV(c, Acc(c), v, sum, AccBits(c))
           r == sum % (2 ^ AccBits(c))
<1>1. sum \in Int
  BY ValueTypes, CarryType, Ranges, SMT
<1> HIDE DEF sum
<1>2. r \in Int
  BY <1>1, PowerTypes, Ranges, SMT
<1>3. Calm(c, d)
  BY SettingCV
<1> HIDE DEF d, r
<1>4. Calm(d, LoadAcc(d, r))
  BY <1>2, <1>3, LoadingAcc, CalmIsTyped
<1>5. Calm(c, LoadAcc(d, r)) /\ Calm(c, AdcDecimal816(c, v))
  BY <1>3, <1>4, CalmIsTransitive, CalmAdcDecimal816
<1> QED BY <1>5 DEF Adc816, sum, d, r

LEMMA CalmSbc816 ==
  ASSUME NEW c \in Processor, NEW v \in Word
  PROVE  Calm(c, Sbc816(c, v))
<1> DEFINE w == Complement(v, AccBits(c))
           sum == Acc(c) + w + CarryIn(c)
           f == SetCV(c, Acc(c), w, sum, AccBits(c))
           decimal == IF MWide(c) THEN SubDigits16(Acc(c), v, CarryIn(c))
                      ELSE DecimalDiff8(Acc(c), v, CarryIn(c))
           r == IF FlagD \in c.p THEN decimal ELSE sum % (2 ^ AccBits(c))
<1>1. Acc(c) \in Word /\ CarryIn(c) \in {0, 1}
  BY ValueTypes, CarryType
<1>2. decimal \in Word
  BY <1>1, Digits16Types, Decimal8Types, Wider
<1> HIDE DEF decimal
<1>3. w \in Int
  BY PowerTypes, Ranges, SMT DEF Complement
<1> HIDE DEF w
<1>4. sum \in Int
  BY <1>1, <1>3, Ranges, SMT
<1> HIDE DEF sum
<1>5. r \in Int
  BY <1>2, <1>4, PowerTypes, Ranges, SMT
<1>6. Calm(c, f)
  BY SettingCV
<1> HIDE DEF f, r
<1>7. Calm(f, LoadAcc(f, r))
  BY <1>5, <1>6, LoadingAcc, CalmIsTyped
<1>8. Calm(c, LoadAcc(f, r))
  BY <1>6, <1>7, CalmIsTransitive
<1> QED BY <1>8 DEF Sbc816, r, decimal, f, sum, w

(* Comparisons, tests and register reads.                                  *)
LEMMA CalmCompareAt ==
  ASSUME NEW c \in Processor, NEW reg, NEW v, NEW bits
  PROVE  Calm(c, CompareAt(c, reg, v, bits))
<1> DEFINE r == reg % (2 ^ bits)
           w == v % (2 ^ bits)
           d == SetFlag(c, FlagC, r >= w)
<1>1. Calm(c, d)
  BY SettingFlag
<1> HIDE DEF d
<1>2. Calm(d, SetZN(d, (r - w) % (2 ^ bits), bits))
  BY <1>1, SettingZN, CalmIsTyped
<1>3. Calm(c, SetZN(d, (r - w) % (2 ^ bits), bits))
  BY <1>1, <1>2, CalmIsTransitive
<1> QED BY <1>3 DEF CompareAt, d

LEMMA CalmBit816 ==
  ASSUME NEW c \in Processor, NEW i, NEW v
  PROVE  Calm(c, Bit816(c, i, v))
<1> DEFINE z == SetFlag(c, FlagZ, And(Acc(c), v) = 0)
           n == AccBits(c)
           d == SetFlag(z, FlagN, Bit(v, n - 1) = 1)
           e == SetFlag(d, FlagV, Bit(v, n - 2) = 1)
<1>1. Calm(c, z)
  BY SettingFlag
<1> HIDE DEF z
<1>2. Calm(z, d)
  BY <1>1, SettingFlag, CalmIsTyped
<1>3. Calm(c, d)
  BY <1>1, <1>2, CalmIsTransitive
<1> HIDE DEF d
<1>4. Calm(d, e)
  BY <1>3, SettingFlag, CalmIsTyped
<1>5. Calm(c, e)
  BY <1>3, <1>4, CalmIsTransitive
<1> QED BY <1>1, <1>5 DEF Bit816, e, d, z, n

LEMMA CalmAccRead ==
  ASSUME NEW c \in Processor, NEW i \in Instructions, i.op \in AccReads,
         i.mode \in Resolving816 \cup {"IMM"}
  PROVE  Calm(c, AccRead(c, i))
<1> DEFINE v == Operand816(c, i, AccBits(c))
<1>1. v \in Word
  BY OperandAtWidth
<1> HIDE DEF v
<1>2. v \in Int
  BY <1>1, Ranges, SMT
<1>3. CASE i.op \in Logics
  <2>1. /\ Or(Acc(c), v) \in Int /\ And(Acc(c), v) \in Int /\ Xor(Acc(c), v) \in Int
    BY BooleansOfBytes, Ranges, SMT
  <2>2. Calm(c, LogicReads(c, i.op, v))
    BY <1>3, <2>1, LoadingAcc DEF LogicReads, Logics
  <2> QED BY <1>3, <2>2 DEF AccRead, Logics, v
<1>4. CASE i.op \in {"ADC", "SBC"}
  BY <1>1, <1>4, CalmAdc816, CalmSbc816 DEF AccRead, Logics, v
<1>5. CASE i.op = "LDA"
  BY <1>2, <1>5, LoadingAcc DEF AccRead, Logics, v
<1>6. CASE i.op \in {"CMP", "BIT"}
  BY <1>6, CalmCompareAt, CalmBit816 DEF AccRead, Logics, v
<1> QED BY <1>3, <1>4, <1>5, <1>6 DEF AccReads, Logics

LEMMA CalmIdxRead ==
  ASSUME NEW c \in Processor, NEW i \in Instructions, i.op \in IdxReads,
         i.mode \in Resolving816 \cup {"IMM"}
  PROVE  Calm(c, IdxRead(c, i))
<1> DEFINE v == Operand816(c, i, IdxBits(c))
<1>1. v \in Int
  BY OperandAtWidth, Ranges, SMT
<1> HIDE DEF v
<1> QED BY <1>1, LoadingIdx, CalmCompareAt DEF IdxRead, IdxReads, v

LEMMA CalmWrites816 ==
  ASSUME NEW c \in Processor, NEW i \in Instructions, i.op \in Stores, i.mode \in Resolving816
  PROVE  Calm(c, Writes816(c, i))
<1>1. A16(c) \in Int /\ X16(c) \in Int /\ Y16(c) \in Int /\ 0 \in Int
  BY RegisterTypes, Ranges, SMT
<1> QED BY <1>1, EAType, WritingEA DEF Writes816, Stores

-------------------------------------------------------------------------------
(* The 65816: read-modify-write, branches, and what changes the mode.      *)

(* Read-modify-write at either width.                                      *)
LEMMA CalmRmwFlags ==
  ASSUME NEW c \in Processor, NEW op, NEW v, NEW n
  PROVE  Calm(c, RmwFlags(c, op, v, n))
<1> DEFINE carry == CASE op \in {"ASL", "ROL"} -> SetFlag(c, FlagC, Bit(v, n - 1) = 1)
                      [] op \in {"LSR", "ROR"} -> SetFlag(c, FlagC, Bit(v, 0) = 1)
                      [] OTHER -> c
<1>1. Calm(c, carry)
  <2>1. /\ Calm(c, SetFlag(c, FlagC, Bit(v, n - 1) = 1))
        /\ Calm(c, SetFlag(c, FlagC, Bit(v, 0) = 1)) /\ Calm(c, c)
    BY SettingFlag, Fields
  <2> QED BY <2>1
<1> HIDE DEF carry
<1>2. Calm(carry, SetZN(carry, RmwValue(c, op, v, n), n))
  BY <1>1, SettingZN, CalmIsTyped
<1>3. Calm(c, SetZN(carry, RmwValue(c, op, v, n), n))
  BY <1>1, <1>2, CalmIsTransitive
<1>4. Calm(c, SetFlag(c, FlagZ, And(v, Acc(c)) = 0))
  BY SettingFlag
<1> QED BY <1>3, <1>4 DEF RmwFlags, carry

Rmws == ReadModifyWrites \cup {"TSB", "TRB"}

(* The value at the accumulator's width. *)
LEMMA RmwNarrow ==
  ASSUME NEW c \in Processor, ~MWide(c), NEW op \in ReadModifyWrites, NEW v \in Byte
  PROVE  RmwValue(c, op, v, AccBits(c)) \in Byte
<1>1. AccBits(c) = 8 /\ 2 ^ 8 = 256 /\ 2 ^ (8 - 1) = 128
  BY Widths, Powers, SMT
<1>2. Modified(c, op, v) \in Byte
  BY ModifiedType DEF ReadModifyWrites, ModifiedOps
<1>3. RmwValue(c, op, v, 8) = Modified(c, op, v)
  BY <1>1 DEF RmwValue, Modified, ReadModifyWrites
<1> QED BY <1>1, <1>2, <1>3

LEMMA RmwInt ==
  ASSUME NEW c \in Processor, NEW op \in Rmws, NEW v \in Word
  PROVE  RmwValue(c, op, v, AccBits(c)) \in Int
<1>1. v \in Int /\ CarryIn(c) \in Int
  BY CarryType, Ranges, SMT
<1>2. Or(v, Acc(c)) \in Int /\ AndNot(v, Acc(c)) \in Int
  BY BooleansOfBytes, Ranges, SMT
<1>3. 2 ^ (AccBits(c) - 1) \in Int /\ \A s \in Int : s % (2 ^ AccBits(c)) \in Int
  BY PowerTypes, Ranges, SMT
<1>4. v \div 2 \in Int /\ 2 * v \in Int /\ v + 1 \in Int /\ v - 1 \in Int
      /\ 2 * v + CarryIn(c) \in Int
  BY <1>1
<1>5. (v \div 2) + (2 ^ (AccBits(c) - 1)) * CarryIn(c) \in Int
  <2> DEFINE k == 2 ^ (AccBits(c) - 1)
             h == v \div 2
  <2>1. k \in Int /\ h \in Int
    BY <1>3, <1>4
  <2> HIDE DEF k, h
  <2>2. k * CarryIn(c) = 0 \/ k * CarryIn(c) = k
    BY <2>1, CarryType
  <2>3. h + k * CarryIn(c) \in Int
    BY <2>1, <2>2
  <2> QED BY <2>3 DEF k, h
<1>6. /\ (v + 1) % (2 ^ AccBits(c)) \in Int /\ (v - 1) % (2 ^ AccBits(c)) \in Int
      /\ (2 * v) % (2 ^ AccBits(c)) \in Int
      /\ (2 * v + CarryIn(c)) % (2 ^ AccBits(c)) \in Int
  BY <1>3, <1>4
<1>7. CASE op \in {"INC", "DEC", "ASL", "LSR", "ROL"}
  BY <1>7, <1>4, <1>6 DEF RmwValue
<1>8. CASE op = "ROR"
  BY <1>8, <1>5 DEF RmwValue
<1>9. CASE op \in {"TSB", "TRB"}
  BY <1>9, <1>2 DEF RmwValue
<1> QED BY <1>7, <1>8, <1>9 DEF Rmws, ReadModifyWrites

LEMMA ReadAtWidth ==
  ASSUME NEW c \in Processor, NEW i \in Instructions, i.mode \in Resolving816
  PROVE  ReadEA(c, EA(c, i), AccBits(c)) \in Word
<1>1. AccBits(c) \in {8, 16}
  BY Widths
<1> QED BY <1>1, EAType, ReadingEA, Wider

LEMMA CalmRmw816 ==
  ASSUME NEW c \in Processor, NEW i \in Instructions, i.op \in Rmws,
         i.mode \in Resolving816 \cup {"ACC"},
         i.mode = "ACC" => i.op \in ReadModifyWrites
  PROVE  Calm(c, Rmw816(c, i))
<1> DEFINE n == AccBits(c)
           v == IF i.mode = "ACC" THEN Acc(c) ELSE ReadEA(c, EA(c, i), n)
           w == RmwValue(c, i.op, v, n)
           f == RmwFlags(c, i.op, v, n)
<1>1. v \in Word
  BY ValueTypes, ReadAtWidth
<1>2. i.mode = "ACC" /\ ~MWide(c) => w \in Byte
  BY RmwNarrow, ValueTypes, Fields
<1> HIDE DEF v
<1>3. w \in Int
  BY <1>1, RmwInt
<1>4. Calm(c, f)
  BY CalmRmwFlags
<1> HIDE DEF w, f, n
<1>5. i.mode # "ACC" => Calm(f, WriteEA(f, EA(c, i), n, w))
  BY <1>3, <1>4, EAType, WritingEA, CalmIsTyped
<1>6. Calm(f, SetA16(f, w))
  BY <1>3, <1>4, LoadingAcc, CalmIsTyped
<1>7. i.mode = "ACC" /\ ~MWide(c) => Calm(f, [f EXCEPT !.a = w])
  BY <1>2, <1>4, CalmAssigning, CalmIsTyped
<1>8. /\ i.mode # "ACC" => Calm(c, WriteEA(f, EA(c, i), n, w))
      /\ Calm(c, SetA16(f, w))
      /\ i.mode = "ACC" /\ ~MWide(c) => Calm(c, [f EXCEPT !.a = w])
  BY <1>4, <1>5, <1>6, <1>7, CalmIsTransitive
<1> QED BY <1>8 DEF Rmw816, n, v, w, f

(* Branches and what does nothing.                                         *)
LEMMA CalmBranch816 ==
  ASSUME NEW c \in Processor, NEW i \in Instructions
  PROVE  Calm(c, Branch816(c, i))
<1>1. i.arg \in Int
  BY Ranges, SMT DEF Instructions
<1>2. c.pc + Signed(i.arg, 8) \in Int /\ c.pc + Signed(i.arg, 16) \in Int
  BY <1>1, SignedType, Fields, Ranges, SMT
<1>3. /\ (c.pc + Signed(i.arg, 8)) % 65536 \in Word
      /\ (c.pc + Signed(i.arg, 16)) % 65536 \in Word
  BY <1>2, Wraps, SMT
<1>4. /\ Calm(c, [c EXCEPT !.pc = (c.pc + Signed(i.arg, 8)) % 65536])
      /\ Calm(c, [c EXCEPT !.pc = (c.pc + Signed(i.arg, 16)) % 65536])
      /\ Calm(c, c)
  BY <1>3, CalmAssigning, Fields
<1> QED BY <1>4 DEF Branch816

LEMMA CalmIdle816 ==
  ASSUME NEW c \in Processor, NEW op \in Idles816
  PROVE  Calm(c, Idle816(c, op))
<1>1. (c.pc + 1) % 65536 \in Word
  <2>1. c.pc + 1 \in Int
    BY Fields, Ranges, SMT
  <2> QED BY <2>1, Wraps, SMT
<1>2. Calm(c, [c EXCEPT !.pc = (c.pc + 1) % 65536])
  BY <1>1, CalmAssigning
<1> QED BY <1>2, CalmIdle DEF Idle816, Idles816, Idles

(* What changes the mode: REP, SEP, PLP, RTI and XCE.                      *)
LEMMA ReforcedLawful ==
  ASSUME NEW c \in Processor, NEW d, Even(c, d)
  PROVE  Lawful(c, Reforced(d))
<1>1. d \in Processor
  BY DEF Even, Typed
<1>2. Even(c, Reforced(d)) /\ (Reforced(d).e => Reforced(d).sph = 1)
  BY <1>1, Reforcing, EvenIsTransitive
<1> QED BY <1>2, EvenIsLawful

LEMMA LawfulRegister816 ==
  ASSUME NEW c \in Processor, NEW op \in Registers816
  PROVE  Lawful(c, Register816(c, op))
<1>1. /\ A16(c) \in Int /\ X16(c) \in Int /\ Y16(c) \in Int /\ SP16(c) \in Int /\ c.d \in Int
      /\ A16(c) \in Word
  BY RegisterTypes, Fields, Ranges, SMT
<1>2. /\ (X16(c) + 1) % 65536 \in Int /\ (X16(c) - 1) % 65536 \in Int
      /\ (Y16(c) + 1) % 65536 \in Int /\ (Y16(c) - 1) % 65536 \in Int
  BY <1>1
<1>3. CASE op \in {"INX", "INY", "DEX", "DEY", "TAX", "TAY", "TSX", "TYX", "TXY"}
  BY <1>1, <1>2, <1>3, LoadingIdx, CalmIsLawful DEF Register816
<1>4. CASE op \in {"TXA", "TYA"}
  BY <1>1, <1>4, LoadingAcc, CalmIsLawful DEF Register816
<1>5. CASE op = "TXS"
  <2> DEFINE d == [c EXCEPT !.sp = c.x]
             e == [d EXCEPT !.sph = c.xh]
  <2>1. Calm(c, d)
    BY Fields, CalmAssigning
  <2> HIDE DEF d
  <2>2. d \in Processor /\ Even(c, d)
    BY <2>1, CalmIsTyped, CalmIsLawful
  <2>3. Even(d, e)
    BY Fields, <2>2 DEF Even, Typed, Processor, Processors
  <2> HIDE DEF e
  <2>4. Even(c, e)
    BY <2>2, <2>3, EvenIsTransitive
  <2>5. Lawful(c, Reforced(e))
    BY <2>4, ReforcedLawful
  <2> QED BY <1>5, <2>5 DEF Register816, e, d
<1>6. CASE op = "TCS"
  <2> DEFINE d == [c EXCEPT !.sp = c.a]
             e == [d EXCEPT !.sph = c.b]
  <2>1. Calm(c, d)
    BY Fields, CalmAssigning
  <2> HIDE DEF d
  <2>2. d \in Processor /\ Even(c, d)
    BY <2>1, CalmIsTyped, CalmIsLawful
  <2>3. Even(d, e)
    BY Fields, <2>2 DEF Even, Typed, Processor, Processors
  <2> HIDE DEF e
  <2>4. Even(c, e)
    BY <2>2, <2>3, EvenIsTransitive
  <2>5. Lawful(c, Reforced(e))
    BY <2>4, ReforcedLawful
  <2> QED BY <1>6, <2>5 DEF Register816, e, d
<1>7. CASE op = "TCD"
  <2> DEFINE d == [c EXCEPT !.d = A16(c)]
  <2>1. Calm(c, d)
    BY <1>1, CalmAssigning
  <2> HIDE DEF d
  <2>2. Calm(d, SetZN(d, A16(c), 16))
    BY <2>1, SettingZN, CalmIsTyped
  <2>3. Calm(c, SetZN(d, A16(c), 16))
    BY <2>1, <2>2, CalmIsTransitive
  <2> QED BY <1>7, <2>3, CalmIsLawful DEF Register816, d
<1>8. CASE op \in {"TDC", "TSC"}
  <2>1. Calm(c, SetA16(c, c.d)) /\ Calm(c, SetA16(c, SP16(c)))
    BY <1>1, LoadingAcc
  <2>2. /\ Calm(SetA16(c, c.d), SetZN(SetA16(c, c.d), c.d, 16))
        /\ Calm(SetA16(c, SP16(c)), SetZN(SetA16(c, SP16(c)), SP16(c), 16))
    BY <2>1, SettingZN, CalmIsTyped
  <2>3. /\ Calm(c, SetZN(SetA16(c, c.d), c.d, 16))
        /\ Calm(c, SetZN(SetA16(c, SP16(c)), SP16(c), 16))
    BY <2>1, <2>2, CalmIsTransitive
  <2> QED BY <1>8, <2>3, CalmIsLawful DEF Register816
<1>9. CASE op = "XBA"
  <2> DEFINE d == [c EXCEPT !.a = c.b]
             e == [d EXCEPT !.b = c.a]
  <2>1. Calm(c, d)
    BY Fields, CalmAssigning
  <2> HIDE DEF d
  <2>2. Calm(d, e)
    BY <2>1, Fields, CalmAssigning, CalmIsTyped
  <2>3. Calm(c, e)
    BY <2>1, <2>2, CalmIsTransitive
  <2> HIDE DEF e
  <2>4. Calm(e, SetZN(e, c.b, 8))
    BY <2>3, SettingZN, CalmIsTyped
  <2>5. Calm(c, SetZN(e, c.b, 8))
    BY <2>3, <2>4, CalmIsTransitive
  <2> QED BY <1>9, <2>5, CalmIsLawful DEF Register816, e, d
<1> QED BY <1>3, <1>4, <1>5, <1>6, <1>7, <1>8, <1>9 DEF Registers816

LEMMA TruncatedLawful ==
  ASSUME NEW c \in Processor, NEW d \in Processor, d.variant = c.variant,
         PageLocked(c) => PageLocked(d)
  PROVE  Lawful(c, Truncated(d))
  BY Truncating DEF Lawful, Typed, PageLocked

LEMMA LawfulXce ==
  ASSUME NEW c \in Processor
  PROVE  Lawful(c, Xce(c))
<1> DEFINE d == [c EXCEPT !.e = FlagC \in c.p]
           s == SetFlag(d, FlagC, c.e)
           r == Reforced(s)
<1>1. Typed(c, d) /\ d.p = c.p /\ d.xh = c.xh /\ d.yh = c.yh
  <2>1. (FlagC \in c.p) \in BOOLEAN
    OBVIOUS
  <2>2. Typed(c, d)
    BY <2>1, Assigning
  <2>3. d.p = c.p /\ d.xh = c.xh /\ d.yh = c.yh
    BY DEF Processor, Processors
  <2> QED BY <2>2, <2>3
<1> HIDE DEF d
<1>2. Calm(d, s)
  BY <1>1, SettingFlag DEF Typed
<1> HIDE DEF s
<1>3. Typed(c, s)
  BY <1>1, <1>2, TypedIsTransitive, CalmIsTyped
<1>4. ~s.e => Lawful(c, s)
  BY <1>1, <1>2, <1>3 DEF Lawful, PageLocked, IndexClear, XWide, Calm
<1>5. Typed(s, r) /\ (r.e => r.sph = 1)
  BY <1>3, Reforcing DEF Typed, Even
<1> HIDE DEF r
<1>6. r \in Processor /\ r.variant = c.variant /\ PageLocked(r)
  BY <1>3, <1>5 DEF Typed, PageLocked
<1>7. Lawful(c, Truncated(r))
  BY <1>6, TruncatedLawful
<1> QED BY <1>4, <1>7 DEF Xce, r, s, d

LEMMA LawfulModeControl ==
  ASSUME NEW c \in Processor, NEW i \in Instructions, i.op \in ModeControls
  PROVE  Lawful(c, ModeControl(c, i))
<1>1. Bits(Lo(i.arg)) \in SUBSET Flags
  <2>1. i.arg \in Int
    BY Ranges, SMT DEF Instructions
  <2> QED BY <2>1, LoHiType, BitsOfByte
<1>2. CASE i.op = "SEP"
  <2> DEFINE d == [c EXCEPT !.p = c.p \cup Bits(Lo(i.arg))]
  <2>1. Typed(c, d)
    BY <1>1, Fields, Assigning
  <2>2. PageLocked(c) => PageLocked(d)
    BY DEF PageLocked, Processor, Processors
  <2> HIDE DEF d
  <2>3. Lawful(c, Truncated(d))
    BY <2>1, <2>2, TruncatedLawful DEF Typed
  <2> QED BY <1>2, <2>3 DEF ModeControl, d
<1>3. CASE i.op = "REP"
  <2> DEFINE p == (c.p \ Bits(Lo(i.arg))) \cup (IF c.e THEN {FlagM, FlagX} ELSE {})
             d == [c EXCEPT !.p = p]
  <2>1. p \in SUBSET Flags
    BY Fields, FlagValues
  <2>2. p \subseteq c.p \cup (IF c.e THEN {FlagM, FlagX} ELSE {})
    OBVIOUS
  <2> HIDE DEF p
  <2>3. Typed(c, d)
    BY <2>1, Assigning
  <2>4. /\ PageLocked(c) => PageLocked(d)
        /\ d.e = c.e /\ d.xh = c.xh /\ d.yh = c.yh /\ d.p = p
    BY DEF PageLocked, Processor, Processors
  <2> HIDE DEF d
  <2>5. IndexClear(c) => IndexClear(d)
    BY <2>2, <2>4 DEF IndexClear, XWide
  <2>6. Lawful(c, d)
    BY <2>3, <2>4, <2>5 DEF Lawful
  <2> QED BY <1>3, <2>6 DEF ModeControl, d, p
<1> QED BY <1>2, <1>3, LawfulXce DEF ModeControls, ModeControl

LEMMA LawfulPlp816 ==
  ASSUME NEW c \in Processor
  PROVE  Lawful(c, Plp816(c)) /\ Plp816(c).e = c.e
<1> DEFINE d == SpMoved(c, 1)
           s == Bits(SpTop(c, 1))
           e == [d EXCEPT !.p = s]
<1>1. s \in SUBSET Flags
  BY Pulling, BitsOfByte
<1>2. Calm(c, d)
  BY MovingSP
<1> HIDE DEF d, s
<1>3. Typed(d, e)
  BY <1>1, <1>2, Assigning, CalmIsTyped
<1>4. d \in Processor /\ e.e = d.e /\ e.sph = d.sph
  BY <1>2, CalmIsTyped DEF Processor, Processors
<1> HIDE DEF e
<1>5. /\ e \in Processor /\ e.variant = c.variant /\ e.e = c.e
      /\ PageLocked(c) => PageLocked(e)
  BY <1>2, <1>3, <1>4 DEF Typed, Calm, PageLocked
<1>6. Lawful(c, Truncated(e)) /\ Truncated(e).e = c.e
  BY <1>5, TruncatedLawful, Truncating
<1> QED BY <1>6 DEF Plp816, e, d, s

(* Stack instructions: those of the 65C02 and those that are new.          *)
LEMMA LawfulStackOp816 ==
  ASSUME NEW c \in Processor, NEW op \in Stack816
  PROVE  Lawful(c, StackOp816(c, op))
<1>1. /\ A16(c) \in Int /\ X16(c) \in Int /\ Y16(c) \in Int
  BY RegisterTypes, Ranges, SMT
<1>2. CASE op \in {"PHA", "PHX", "PHY"}
  <2>1. ASSUME NEW v \in Int, NEW n PROVE Calm(c, PushWide(c, v, n))
    BY LoHiType, PushingSP, PushingSP16 DEF PushWide
  <2> QED BY <1>1, <1>2, <2>1, CalmIsLawful DEF StackOp816
<1>3. CASE op \in {"PLA", "PLX", "PLY"}
  <2>1. ASSUME NEW n \in {8, 16} PROVE Calm(c, SpPulled(c, n)) /\ PulledWide(c, n) \in Int
    <3>1. n \div 8 \in Int
      BY <2>1
    <3>2. Calm(c, SpPulled(c, n))
      BY <3>1, MovingSP DEF SpPulled
    <3>3. SpTop16(c, 1) \in Int /\ SpTop(c, 1) \in Int
      BY Pulling, Ranges, SMT
    <3> QED BY <3>2, <3>3 DEF PulledWide
  <2>2. /\ Calm(c, SpPulled(c, AccBits(c))) /\ Calm(c, SpPulled(c, IdxBits(c)))
        /\ PulledWide(c, AccBits(c)) \in Int /\ PulledWide(c, IdxBits(c)) \in Int
    BY <2>1, Widths
  <2> DEFINE d == SpPulled(c, AccBits(c))
             e == SpPulled(c, IdxBits(c))
             v == PulledWide(c, AccBits(c))
             w == PulledWide(c, IdxBits(c))
  <2> HIDE DEF d, e, v, w
  <2>3. Calm(c, d) /\ Calm(c, e) /\ v \in Int /\ w \in Int
    BY <2>2 DEF d, e, v, w
  <2>4. Calm(d, LoadAcc(d, v)) /\ Calm(e, LoadIdxX(e, w)) /\ Calm(e, LoadIdxY(e, w))
    BY <2>3, LoadingAcc, LoadingIdx, CalmIsTyped
  <2>5. Calm(c, LoadAcc(d, v)) /\ Calm(c, LoadIdxX(e, w)) /\ Calm(c, LoadIdxY(e, w))
    BY <2>3, <2>4, CalmIsTransitive
  <2> QED BY <1>3, <2>5, CalmIsLawful DEF StackOp816, d, e, v, w
<1>4. CASE op \in {"PHP", "PHB", "PHK"}
  BY <1>4, Fields, NumType, PushingSP, CalmIsLawful DEF StackOp816
<1>5. CASE op = "PLB"
  <2> DEFINE d == SpMoved(c, 1)
             v == SpTop(c, 1)
             e == [d EXCEPT !.dbr = v]
  <2>1. Calm(c, d) /\ v \in Byte
    BY MovingSP, Pulling
  <2> HIDE DEF d, v
  <2>2. Calm(d, e)
    BY <2>1, CalmAssigning, CalmIsTyped
  <2>3. Calm(c, e)
    BY <2>1, <2>2, CalmIsTransitive
  <2> HIDE DEF e
  <2>4. Calm(e, SetZN(e, v, 8))
    BY <2>3, SettingZN, CalmIsTyped
  <2>5. Calm(c, SetZN(e, v, 8))
    BY <2>3, <2>4, CalmIsTransitive
  <2> QED BY <1>5, <2>5, CalmIsLawful DEF StackOp816, e, d, v
<1> QED BY <1>2, <1>3, <1>4, <1>5, LawfulPlp816 DEF Stack816, StackOp816

LEMMA LawfulNewStackOp ==
  ASSUME NEW c \in Processor, NEW i \in Instructions, i.op \in NewStack
  PROVE  Lawful(c, NewStackOp(c, i))
<1>1. i.arg \in Int /\ c.d \in Int
  BY Fields, Ranges, SMT DEF Instructions
<1>2. DpWordWrap(c, i.arg) \in Int
  BY <1>1, DpTypes, Ranges, SMT
<1>3. (c.pc + Signed(i.arg, 16)) % 65536 \in Int
  <2>1. c.pc + Signed(i.arg, 16) \in Int
    BY <1>1, SignedType, Fields, Ranges, SMT
  <2> QED BY <2>1
<1>4. CASE i.op \in {"PHD", "PEA", "PEI", "PER"}
  BY <1>1, <1>2, <1>3, <1>4, PushingSP16, ReforcedLawful DEF NewStackOp
<1>5. CASE i.op = "PLD"
  <2> DEFINE d == NewMoved(c, 2)
             v == NewTop16(c, 1)
             e == [d EXCEPT !.d = v]
  <2>1. Even(c, d) /\ v \in Word
    BY MovingSP, Pulling
  <2> HIDE DEF d, v
  <2>2. d \in Processor
    BY <2>1 DEF Even, Typed
  <2>3. Calm(d, e)
    BY <2>1, <2>2, CalmAssigning
  <2> HIDE DEF e
  <2>4. Calm(e, SetZN(e, v, 16))
    BY <2>3, SettingZN, CalmIsTyped
  <2>5. Calm(d, SetZN(e, v, 16))
    BY <2>3, <2>4, CalmIsTransitive
  <2>6. Even(c, SetZN(e, v, 16))
    BY <2>1, <2>5, EvenIsTransitive, CalmIsLawful
  <2>7. Lawful(c, Reforced(SetZN(e, v, 16)))
    BY <2>6, ReforcedLawful
  <2> QED BY <1>5, <2>7 DEF NewStackOp, e, d, v
<1> QED BY <1>4, <1>5 DEF NewStack

-------------------------------------------------------------------------------
(* The 65816: long jumps, returns and interrupts.                          *)

(* Where calls return, and where long jumps go.                            *)
LEMMA PreviousPC ==
  ASSUME NEW c \in Processor
  PROVE  (c.pc - 1) % 65536 \in Word /\ (c.pc + 1) % 65536 \in Word
<1>1. c.pc - 1 \in Int /\ c.pc + 1 \in Int
  BY Fields, Ranges, SMT
<1> QED BY <1>1, Wraps, SMT

LEMMA LastByteType ==
  ASSUME NEW c \in Processor, NEW d \in Processor, NEW slots, NEW v \in Byte
  PROVE  LastByte(c, d, slots, v) \in Byte
<1>1. At(c.pbr, (c.pc - 1) % 65536) \in Address
  BY Fields, PreviousPC, AtType
<1> QED BY <1>1, ReadType DEF LastByte

LEMMA ProgramPointerType ==
  ASSUME NEW c \in Processor, NEW a \in Int
  PROVE  ProgramPointer(c, a) \in Word
<1>1. a % 65536 \in Word /\ (a + 1) % 65536 \in Word
  BY Wraps, SMT
<1>2. At(c.pbr, a % 65536) \in Address /\ At(c.pbr, (a + 1) % 65536) \in Address
  BY <1>1, Fields, AtType
<1> QED BY <1>2, ReadType, PairType DEF ProgramPointer

LEMMA SplitAddress ==
  ASSUME NEW a \in Address
  PROVE  a \div 65536 \in Byte /\ a % 65536 \in Word
<1>1. a \in Int /\ 0 <= a /\ a < 16777216
  BY Ranges, SMT
<1>2. a \div 65536 \in Int /\ 0 <= a \div 65536 /\ a \div 65536 < 256
  BY <1>1
<1>3. a \div 65536 \in Byte
  BY <1>2, Ranges, SMT
<1> QED BY <1>1, <1>3, Wraps, SMT

LEMMA CalmPcPbr ==
  ASSUME NEW c \in Processor, NEW pc \in Word, NEW pbr \in Byte
  PROVE  /\ Calm(c, [c EXCEPT !.pc = pc, !.pbr = pbr])
         /\ Calm(c, [c EXCEPT !.pbr = pbr, !.pc = pc])
<1> DEFINE d == [c EXCEPT !.pc = pc]
           e == [c EXCEPT !.pbr = pbr]
<1>1. Calm(c, d) /\ Calm(c, e)
  BY CalmAssigning
<1> HIDE DEF d, e
<1>2. Calm(d, [d EXCEPT !.pbr = pbr]) /\ Calm(e, [e EXCEPT !.pc = pc])
  BY <1>1, CalmAssigning, CalmIsTyped
<1>3. Calm(c, [d EXCEPT !.pbr = pbr]) /\ Calm(c, [e EXCEPT !.pc = pc])
  BY <1>1, <1>2, CalmIsTransitive
<1> QED BY <1>3 DEF d, e

LEMMA LawfulJsl ==
  ASSUME NEW c \in Processor, NEW i \in Instructions
  PROVE  Lawful(c, Jsl(c, i))
<1> DEFINE one == NewPush8(c, c.pbr)
           bank == LastByte(c, one, {SP16(c)}, i.arg \div 65536)
           two == NewPush16(one, (c.pc - 1) % 65536)
           r == Reforced(two)
<1>1. i.arg \in Address
  BY DEF Instructions
<1>2. Even(c, one)
  BY Fields, PushingSP
<1>3. one \in Processor
  BY <1>2 DEF Even, Typed
<1> HIDE DEF one
<1>4. bank \in Byte
  BY <1>1, <1>3, SplitAddress, LastByteType
<1> HIDE DEF bank
<1>5. Even(one, two)
  BY <1>3, PreviousPC, PushingSP16, Ranges, SMT
<1>6. Even(c, two)
  BY <1>2, <1>5, EvenIsTransitive
<1> HIDE DEF two
<1>7. Lawful(c, r)
  BY <1>6, ReforcedLawful
<1>8. r \in Processor
  BY <1>7 DEF Lawful, Typed
<1> HIDE DEF r
<1> DEFINE pc == i.arg % 65536
<1>9. pc \in Word
  BY <1>1, SplitAddress
<1> HIDE DEF pc
<1>10. Calm(r, [r EXCEPT !.pbr = bank, !.pc = pc])
  BY <1>4, <1>8, <1>9, CalmPcPbr
<1>11. Lawful(c, [r EXCEPT !.pbr = bank, !.pc = pc])
  BY <1>7, <1>10, CalmIsLawful, LawfulIsTransitive
<1> QED BY <1>11 DEF Jsl, pc, r, two, bank, one

LEMMA CalmJsrIndirect ==
  ASSUME NEW c \in Processor, NEW i \in Instructions
  PROVE  Calm(c, JsrIndirect(c, i))
<1> DEFINE pushed == SpPush16(c, (c.pc - 1) % 65536)
           slots == {SP16(c), SP16(SpMoved(c, -1))}
           last == LastByte(c, pushed, slots, Hi(i.arg))
           base == Pair(Lo(i.arg), last)
           target == ProgramPointer(pushed, base + Xidx(c))
<1>1. Calm(c, pushed)
  BY PreviousPC, PushingSP16, Ranges, SMT
<1>2. pushed \in Processor
  BY <1>1, CalmIsTyped
<1>3. Lo(i.arg) \in Byte /\ Hi(i.arg) \in Byte
  BY LoHiType, Ranges, SMT DEF Instructions
<1> HIDE DEF pushed, slots
<1>4. last \in Byte
  BY <1>2, <1>3, LastByteType
<1> HIDE DEF last
<1>5. base \in Word
  BY <1>3, <1>4, PairType
<1> HIDE DEF base
<1>6. base + Xidx(c) \in Int
  BY <1>5, ValueTypes, Ranges, SMT
<1>7. target \in Word
  BY <1>2, <1>6, ProgramPointerType
<1> HIDE DEF target
<1>8. Calm(pushed, [pushed EXCEPT !.pc = target])
  BY <1>2, <1>7, CalmAssigning
<1>9. Calm(c, [pushed EXCEPT !.pc = target])
  BY <1>1, <1>8, CalmIsTransitive
<1> QED BY <1>9 DEF JsrIndirect, target, base, last, slots, pushed

LEMMA LawfulRti816 ==
  ASSUME NEW c \in Processor
  PROVE  Lawful(c, Rti816(c)) /\ Rti816(c).e = c.e
<1> DEFINE f == Plp816(c)
           g == SpMoved(f, 2)
           pc == SpTop16(f, 1)
           r == [g EXCEPT !.pc = pc]
           h == SpMoved(r, 1)
           v == SpTop(r, 1)
           k == [h EXCEPT !.pbr = v]
<1>1. Lawful(c, f) /\ f.e = c.e
  BY LawfulPlp816
<1>2. f \in Processor
  BY <1>1 DEF Lawful, Typed
<1> HIDE DEF f
<1>3. Calm(f, g) /\ pc \in Word
  BY <1>2, MovingSP, Pulling
<1> HIDE DEF g, pc
<1>4. Calm(g, r)
  BY <1>3, CalmAssigning, CalmIsTyped
<1>5. Calm(f, r)
  BY <1>3, <1>4, CalmIsTransitive
<1>6. r \in Processor
  BY <1>5, CalmIsTyped
<1> HIDE DEF r
<1>7. Calm(r, h) /\ v \in Byte
  BY <1>6, MovingSP, Pulling
<1> HIDE DEF h, v
<1>8. Calm(h, k)
  BY <1>7, CalmAssigning, CalmIsTyped
<1>9. Calm(f, k)
  BY <1>5, <1>7, <1>8, CalmIsTransitive
<1> HIDE DEF k
<1>10. /\ Lawful(c, r) /\ Lawful(c, k) /\ r.e = c.e /\ k.e = c.e
  BY <1>1, <1>5, <1>9, CalmIsLawful, LawfulIsTransitive DEF Calm
<1> QED BY <1>10 DEF Rti816, k, v, h, r, pc, g, f

Rtl816(c) == [Reforced(NewMoved(c, 3)) EXCEPT
                 !.pc = (NewTop16(c, 1) + 1) % 65536, !.pbr = NewTop(c, 3)]

LEMMA LawfulRtl ==
  ASSUME NEW c \in Processor
  PROVE  Lawful(c, Rtl816(c))
<1> DEFINE d == NewMoved(c, 3)
           r == Reforced(d)
           pc == (NewTop16(c, 1) + 1) % 65536
           v == NewTop(c, 3)
<1>1. Even(c, d) /\ v \in Byte
  BY MovingSP, Pulling
<1>2. pc \in Word
  <2>1. NewTop16(c, 1) + 1 \in Int
    BY Pulling, Ranges, SMT
  <2> QED BY <2>1, Wraps, SMT
<1> HIDE DEF d, pc, v
<1>3. Lawful(c, r)
  BY <1>1, ReforcedLawful
<1>4. r \in Processor
  BY <1>3 DEF Lawful, Typed
<1> HIDE DEF r
<1>5. Calm(r, [r EXCEPT !.pc = pc, !.pbr = v])
  BY <1>1, <1>2, <1>4, CalmPcPbr
<1>6. Lawful(c, [r EXCEPT !.pc = pc, !.pbr = v])
  BY <1>3, <1>5, CalmIsLawful, LawfulIsTransitive
<1> QED BY <1>6 DEF Rtl816, r, d, pc, v

JumpModes == {<<"JMP", "ABS">>, <<"JMP", "IND">>, <<"JMP", "IAX">>, <<"JML", "LONG">>,
             <<"JML", "IAL">>, <<"JSR", "JSRABS">>, <<"JSR", "IAX">>, <<"JSL", "LONG">>,
             <<"RTS", "IMP">>, <<"RTL", "IMP">>, <<"RTI", "IMP">>}

LEMMA LawfulJump816 ==
  ASSUME NEW c \in Processor, NEW i \in Instructions, <<i.op, i.mode>> \in JumpModes
  PROVE  Lawful(c, Jump816(c, i))
<1>1. /\ i.arg \in Address /\ i.arg \in Int
      /\ i.mode \in {"ABS", "JSRABS"} => i.arg \in Word
  BY Ranges, SMT DEF Instructions, Operands
<1>2. CASE i.op = "JMP"
  <2>1. i.arg + Xidx(c) \in Int
    BY <1>1, ValueTypes, Ranges, SMT
  <2>2. DpWord(c, i.arg) \in Word /\ ProgramPointer(c, i.arg + Xidx(c)) \in Word
    BY <1>1, <2>1, DpTypes, ProgramPointerType
  <2>3. /\ Calm(c, [c EXCEPT !.pc = DpWord(c, i.arg)])
        /\ Calm(c, [c EXCEPT !.pc = ProgramPointer(c, i.arg + Xidx(c))])
        /\ i.mode = "ABS" => Calm(c, [c EXCEPT !.pc = i.arg])
    BY <1>1, <2>2, CalmAssigning
  <2>4. i.mode \in {"ABS", "IND", "IAX"}
    BY <1>2 DEF JumpModes
  <2> QED BY <1>2, <2>3, <2>4, CalmIsLawful DEF Jump816
<1>3. CASE i.op = "JML"
  <2>1. DpByte(c, i.arg, 2) \in Byte /\ DpWord(c, i.arg) \in Word
    BY <1>1, DpTypes
  <2> DEFINE bank == i.arg \div 65536
             pc == i.arg % 65536
  <2>2. bank \in Byte /\ pc \in Word
    BY <1>1, SplitAddress
  <2> HIDE DEF bank, pc
  <2>3. /\ Calm(c, [c EXCEPT !.pbr = bank, !.pc = pc])
        /\ Calm(c, [c EXCEPT !.pbr = DpByte(c, i.arg, 2), !.pc = DpWord(c, i.arg)])
    BY <2>1, <2>2, CalmPcPbr
  <2>4. i.mode \in {"LONG", "IAL"}
    BY <1>3 DEF JumpModes
  <2> QED BY <1>3, <2>3, <2>4, CalmIsLawful DEF Jump816, bank, pc
<1>4. CASE i.op = "JSR"
  <2> DEFINE d == SpPush16(c, (c.pc - 1) % 65536)
  <2>1. Calm(c, d)
    BY PreviousPC, PushingSP16, Ranges, SMT
  <2> HIDE DEF d
  <2>2. i.mode = "JSRABS" => Calm(d, [d EXCEPT !.pc = i.arg])
    BY <1>1, <2>1, CalmAssigning, CalmIsTyped
  <2>3. i.mode = "JSRABS" => Calm(c, [d EXCEPT !.pc = i.arg])
    BY <2>1, <2>2, CalmIsTransitive
  <2>4. i.mode \in {"JSRABS", "IAX"}
    BY <1>4 DEF JumpModes
  <2> QED BY <1>4, <2>3, <2>4, CalmJsrIndirect, CalmIsLawful DEF Jump816, d
<1>5. CASE i.op = "RTS"
  <2> DEFINE d == SpMoved(c, 2)
             pc == (SpTop16(c, 1) + 1) % 65536
  <2>1. SpTop16(c, 1) + 1 \in Int
    BY Pulling, Ranges, SMT
  <2>2. Calm(c, d) /\ pc \in Word
    BY <2>1, MovingSP, Wraps, SMT
  <2> HIDE DEF d, pc
  <2>3. Calm(d, [d EXCEPT !.pc = pc])
    BY <2>2, CalmAssigning, CalmIsTyped
  <2>4. Calm(c, [d EXCEPT !.pc = pc])
    BY <2>2, <2>3, CalmIsTransitive
  <2> QED BY <1>5, <2>4, CalmIsLawful DEF Jump816, d, pc
<1>6. CASE i.op = "JSL"
  BY <1>6, LawfulJsl DEF Jump816
<1>7. CASE i.op = "RTL"
  <2>1. Jump816(c, i) = Rtl816(c)
    BY <1>7 DEF Jump816, Rtl816
  <2> QED BY <2>1, LawfulRtl
<1>8. CASE i.op = "RTI"
  BY <1>8, LawfulRti816 DEF Jump816
<1> QED BY <1>2, <1>3, <1>4, <1>5, <1>6, <1>7, <1>8 DEF JumpModes

(* Entering a handler, for an instruction or an interrupt.                 *)
LEMMA CalmEntered ==
  ASSUME NEW c \in Processor, NEW pc \in Word, NEW p, NEW emulated \in Word, NEW native \in Word,
         p \subseteq Flags, emulated + 1 \in Word, native + 1 \in Word
  PROVE  Calm(c, Entered(c, pc, p, emulated, native))
<1> DEFINE one == SpPush16(c, pc)
           two == SpPush8(one, Num(p))
           bank == SpPush8(c, c.pbr)
           long == SpPush16(bank, pc)
           last == SpPush8(long, Num(p))
           frame == IF c.e THEN two ELSE last
<1>1. pc \in Int /\ Num(p) \in Byte /\ c.pbr \in Byte
  BY NumType, Fields, Ranges, SMT
<1>2. Calm(c, one) /\ Calm(c, bank)
  BY <1>1, PushingSP16, PushingSP
<1> HIDE DEF one, bank
<1>3. Calm(one, two) /\ Calm(bank, long)
  BY <1>1, <1>2, PushingSP16, PushingSP, CalmIsTyped
<1>4. Calm(c, two) /\ Calm(c, long)
  BY <1>2, <1>3, CalmIsTransitive
<1> HIDE DEF two, long
<1>5. Calm(long, last)
  BY <1>1, <1>4, PushingSP, CalmIsTyped
<1>6. Calm(c, last)
  BY <1>4, <1>5, CalmIsTransitive
<1> HIDE DEF last
<1>7. Calm(c, frame)
  BY <1>4, <1>6
<1> HIDE DEF frame
<1> DEFINE g == [frame EXCEPT !.pbr = 0]
           s == (g.p \cup {FlagI}) \ {FlagD}
           h == [g EXCEPT !.p = s]
           t == Vector(frame, IF c.e THEN emulated ELSE native)
           k == [h EXCEPT !.pc = t]
<1>8. frame \in Processor
  BY <1>7, CalmIsTyped
<1>9. Calm(frame, g) /\ g.p = frame.p
  <2>1. 0 \in Byte
    BY Ranges, SMT
  <2> QED BY <2>1, <1>8, CalmAssigning DEF Processor, Processors
<1> HIDE DEF g
<1>10. t \in Word
  BY <1>8, VectorType
<1> HIDE DEF t
<1>11. s \in SUBSET Flags /\ s \cap {FlagM, FlagX} = g.p \cap {FlagM, FlagX}
  <2>1. g.p \in SUBSET Flags
    BY <1>9, Fields, CalmIsTyped
  <2> QED BY <2>1, FlagValues
<1> HIDE DEF s
<1>12. Calm(g, h)
  BY <1>9, <1>11, FlagsChanged, CalmIsTyped
<1>13. Calm(frame, h)
  BY <1>9, <1>12, CalmIsTransitive
<1> HIDE DEF h
<1>14. Calm(h, k)
  BY <1>10, <1>13, CalmAssigning, CalmIsTyped
<1>15. Calm(c, k)
  BY <1>7, <1>13, <1>14, CalmIsTransitive
<1>16. k = [frame EXCEPT !.pbr = 0, !.p = (frame.p \cup {FlagI}) \ {FlagD}, !.pc = t]
  BY <1>9 DEF k, h, s, g
<1> HIDE DEF k
<1> QED BY <1>15, <1>16 DEF Entered, t, frame, two, one, last, long, bank

LEMMA VectorWords ==
  /\ 65534 \in Word /\ 65535 \in Word /\ 65510 \in Word /\ 65510 + 1 \in Word
  /\ 65534 + 1 \in Word /\ 65524 \in Word /\ 65524 + 1 \in Word /\ 65508 \in Word
  /\ 65508 + 1 \in Word
  /\ \A source \in DOMAIN Vectors816 :
        /\ Vectors816[source][1] \in Word /\ Vectors816[source][1] + 1 \in Word
        /\ Vectors816[source][2] \in Word /\ Vectors816[source][2] + 1 \in Word
  BY Ranges, SMT DEF Vectors816

LEMMA CalmTraps ==
  ASSUME NEW c \in Processor
  PROVE  Calm(c, Brk816(c)) /\ Calm(c, Cop816(c))
<1>1. (c.pc + 1) % 65536 \in Word
  BY PreviousPC
<1> DEFINE p == IF c.e THEN c.p \cup {FlagB} ELSE c.p
<1>2. p \subseteq Flags /\ c.p \subseteq Flags
  BY Fields, FlagValues
<1> HIDE DEF p
<1>3. Calm(c, Entered(c, (c.pc + 1) % 65536, p, 65534, 65510))
  BY <1>1, <1>2, VectorWords, CalmEntered
<1>4. Calm(c, Entered(c, (c.pc + 1) % 65536, c.p, 65524, 65508))
  BY <1>1, <1>2, VectorWords, CalmEntered
<1> QED BY <1>3, <1>4 DEF Brk816, Cop816, p

LEMMA CalmService816 ==
  ASSUME NEW c \in Processor, NEW source \in DOMAIN Vectors816
  PROVE  Calm(c, Service816(c, source))
<1> DEFINE d == [c EXCEPT !.halted = FALSE]
           p == IF c.e THEN (c.p \cup {FlagU}) \ {FlagB} ELSE c.p
<1>1. Calm(c, d)
  BY CalmAssigning
<1> HIDE DEF d
<1>2. p \subseteq Flags /\ c.pc \in Word
  BY Fields, FlagValues
<1> HIDE DEF p
<1>3. /\ Vectors816[source][1] \in Word /\ Vectors816[source][1] + 1 \in Word
      /\ Vectors816[source][2] \in Word /\ Vectors816[source][2] + 1 \in Word
  BY VectorWords
<1>4. Calm(d, Entered(d, c.pc, p, Vectors816[source][1], Vectors816[source][2]))
  BY <1>1, <1>2, <1>3, CalmEntered, CalmIsTyped
<1>5. Calm(c, Entered(d, c.pc, p, Vectors816[source][1], Vectors816[source][2]))
  BY <1>1, <1>4, CalmIsTransitive
<1> QED BY <1>5 DEF Service816, d, p

-------------------------------------------------------------------------------
(* The 65816: block moves, as a step repeated. The operator that copies is *)
(* a recursive function, and that it is one is shown by building it.       *)

(* Induction over the steps of a block move, from well-foundedness.        *)
LEMMA Climb ==
  ASSUME NEW n \in Nat, NEW T \in SUBSET (0 .. n), 0 \in T,
         \A k \in 1 .. n : k - 1 \in T => k \in T
  PROVE  T = 0 .. n
<1> DEFINE Missing == (0 .. n) \ T
<1>1. Missing = {}
  <2> SUFFICES ASSUME Missing # {} PROVE FALSE
    OBVIOUS
  <2>1. Missing \subseteq Nat
    OBVIOUS
  <2>2. PICK k \in Missing : \A j \in Missing : ~(<<j, k>> \in OpToRel(<, Nat))
    <3> HIDE DEF Missing
    <3> QED BY <2>1, NatLessThanWellFounded, WFMin
  <2>3. k \in 1 .. n /\ k - 1 \notin Missing
    <3>1. k \in 1 .. n
      OBVIOUS
    <3>2. <<k - 1, k>> \in OpToRel(<, Nat)
      BY <3>1 DEF OpToRel
    <3>3. k - 1 \notin Missing
      BY <2>2, <3>2
    <3> HIDE DEF Missing
    <3> QED BY <3>1, <3>3
  <2>4. k - 1 \in T
    BY <2>3
  <2> QED BY <2>3, <2>4
<1> QED BY <1>1

(* What a step makes of a processor, repeated. *)
Repeats(f, S, n, x, F) ==
  /\ f \in [0 .. n -> S]
  /\ \A k \in 0 .. n : f[k] = IF k = 0 THEN x ELSE F[k][f[k - 1]]

LEMMA Repetition ==
  ASSUME NEW S, NEW n \in Nat, NEW x \in S, NEW F \in [1 .. n -> [S -> S]]
  PROVE  \E f : Repeats(f, S, n, x, F)
<1> DEFINE Path(f, m) == /\ f \in [0 .. m -> S]
                         /\ \A k \in 0 .. m : f[k] = IF k = 0 THEN x ELSE F[k][f[k - 1]]
           T == {m \in 0 .. n : \E f : Path(f, m)}
<1>1. 0 \in T
  <2>1. Path([k \in 0 .. 0 |-> x], 0)
    OBVIOUS
  <2> HIDE DEF Path
  <2> QED BY <2>1
<1>2. ASSUME NEW m \in 1 .. n, m - 1 \in T PROVE m \in T
  <2>1. PICK f : Path(f, m - 1)
    BY <1>2
  <2> DEFINE g == [k \in 0 .. m |-> IF k = m THEN F[m][f[m - 1]] ELSE f[k]]
  <2>2. F[m][f[m - 1]] \in S
    BY <2>1
  <2>3. g \in [0 .. m -> S]
    BY <2>1, <2>2
  <2>4. ASSUME NEW k \in 0 .. m
        PROVE  g[k] = IF k = 0 THEN x ELSE F[k][g[k - 1]]
    <3>1. CASE k = m
      BY <3>1
    <3>2. CASE k # m
      BY <2>1, <3>2
    <3> QED BY <3>1, <3>2
  <2>5. Path(g, m)
    BY <2>3, <2>4
  <2> HIDE DEF Path, g
  <2> QED BY <2>5
<1>3. T = 0 .. n
  <2>1. T \in SUBSET (0 .. n)
    OBVIOUS
  <2> HIDE DEF T
  <2> QED BY <1>1, <1>2, <2>1, Climb
<1>4. n \in T
  <2> HIDE DEF T
  <2> QED BY <1>3
<1> QED BY <1>4 DEF Repeats

CopyBlock(c, n, from, to, f) ==
  [k \in 0 .. n |-> IF k = 0 THEN c ELSE Write(f[k - 1], to[k - 1], Read(f[k - 1], from[k - 1]))]

LEMMA CopyingBlock ==
  ASSUME NEW c \in Processor, NEW n \in Nat, NEW from \in [0 .. n -> Address],
         NEW to \in [0 .. n -> Address]
  PROVE  /\ \E f : f = CopyBlock(c, n, from, to, f)
         /\ \A f : f = CopyBlock(c, n, from, to, f) => \A k \in 0 .. n : Calm(c, f[k])
<1> DEFINE S == {d \in Processor : Calm(c, d)}
           F == [k \in 1 .. n |-> [d \in S |-> Write(d, to[k - 1], Read(d, from[k - 1]))]]
<1>1. F \in [1 .. n -> [S -> S]]
  <2>1. ASSUME NEW k \in 1 .. n, NEW d \in S
        PROVE  Write(d, to[k - 1], Read(d, from[k - 1])) \in S
    <3>1. k - 1 \in 0 .. n
      OBVIOUS
    <3>2. Read(d, from[k - 1]) \in Byte
      BY <3>1, ReadType
    <3> DEFINE e == Write(d, to[k - 1], Read(d, from[k - 1]))
    <3>3. Calm(d, e)
      BY <3>1, <3>2, Writing
    <3> HIDE DEF e
    <3>4. Calm(c, e)
      BY <3>3, CalmIsTransitive
    <3>5. e \in S
      BY <3>4, CalmIsTyped
    <3> QED BY <3>5 DEF e
  <2> HIDE DEF S
  <2> QED BY <2>1
<1>2. c \in S
  BY Fields
<1>3. \A k \in 1 .. n : \A d \in S : F[k][d] = Write(d, to[k - 1], Read(d, from[k - 1]))
  <2> HIDE DEF S
  <2> QED OBVIOUS
<1>4. \A k \in 0 .. n : \A d : d \in S => Calm(c, d)
  OBVIOUS
<1> HIDE DEF F, S
<1>5. \E f : f = CopyBlock(c, n, from, to, f)
  <2>1. PICK f : Repeats(f, S, n, c, F)
    BY <1>1, <1>2, Repetition
  <2>2. ASSUME NEW k \in 1 .. n
        PROVE  f[k] = Write(f[k - 1], to[k - 1], Read(f[k - 1], from[k - 1]))
    <3>1. k \in 0 .. n /\ k # 0 /\ k - 1 \in 0 .. n
      OBVIOUS
    <3>2. f[k - 1] \in S /\ f[k] = F[k][f[k - 1]]
      BY <2>1, <3>1 DEF Repeats
    <3> QED BY <3>1, <3>2, <1>3
  <2>3. f \in [0 .. n -> S] /\ f[0] = c
    BY <2>1 DEF Repeats
  <2>4. f = CopyBlock(c, n, from, to, f)
    BY <2>2, <2>3 DEF CopyBlock
  <2> QED BY <2>4
<1>6. ASSUME NEW f, f = CopyBlock(c, n, from, to, f) PROVE \A k \in 0 .. n : f[k] \in S
  <2> DEFINE T == {k \in 0 .. n : f[k] \in S}
  <2>1. T \in SUBSET (0 .. n) /\ 0 \in T
    <3>1. 0 \in 0 .. n
      OBVIOUS
    <3>2. f[0] = c
      <4> HIDE DEF T
      <4> QED BY <1>6, <3>1 DEF CopyBlock
    <3> QED BY <1>2, <3>1, <3>2
  <2>2. ASSUME NEW k \in 1 .. n, k - 1 \in T PROVE k \in T
    <3>1. k \in 0 .. n /\ k # 0 /\ f[k - 1] \in S
      BY <2>2
    <3>2. f[k] = F[k][f[k - 1]]
      <4>1. f[k] = Write(f[k - 1], to[k - 1], Read(f[k - 1], from[k - 1]))
        <5> HIDE DEF T
        <5> QED BY <1>6, <3>1 DEF CopyBlock
      <4> HIDE DEF T
      <4>2. k \in 1 .. n
        OBVIOUS
      <4> QED BY <3>1, <4>1, <4>2, <1>3
    <3>3. f[k] \in S
      <4> HIDE DEF T
      <4> QED BY <3>1, <3>2, <1>1
    <3> QED BY <3>1, <3>3
  <2>3. T = 0 .. n
    <3> HIDE DEF T
    <3> QED BY <2>1, <2>2, Climb
  <2> QED BY <2>3
<1> QED BY <1>4, <1>5, <1>6

(* A block move leaves the mode and the page of the stack. *)
LEMMA TypedBlockMove ==
  ASSUME NEW c \in Processor, NEW i \in Instructions, i.mode = "BLOCK"
  PROVE  /\ Typed(c, BlockMove(c, i)) /\ BlockMove(c, i).e = c.e
         /\ c.e => BlockMove(c, i).sph = c.sph
<1> DEFINE by == IF i.op = "MVN" THEN 1 ELSE -1
           n == A16(c) + 1
           from(k) == At(Hi(i.arg), (X16(c) + by * k) % 65536)
           to(k) == At(Lo(i.arg), (Y16(c) + by * k) % 65536)
           moved[k \in 0 .. n] ==
             IF k = 0 THEN c
             ELSE Write(moved[k - 1], to(k - 1), Read(moved[k - 1], from(k - 1)))
           x == (X16(c) + by * n) % 65536
           y == (Y16(c) + by * n) % 65536
           last == moved[n]
<1>1. /\ Lo(i.arg) \in Byte /\ Hi(i.arg) \in Byte
  BY LoHiType, Ranges, SMT DEF Instructions
<1>2. by \in Int
  OBVIOUS
<1> HIDE DEF by
<1>3. n \in Nat
  BY RegisterTypes, Ranges, SMT
<1> HIDE DEF n
<1>4. X16(c) \in Int /\ Y16(c) \in Int
  BY RegisterTypes, Ranges, SMT
<1>5. ASSUME NEW k \in Int 
      PROVE  (X16(c) + by * k) % 65536 \in Word /\ (Y16(c) + by * k) % 65536 \in Word
  <2>1. by * k \in Int
    BY <1>2
  <2>2. X16(c) + by * k \in Int /\ Y16(c) + by * k \in Int
    BY <1>4, <2>1
  <2> QED BY <2>2, Wraps, SMT
<1>6. \A k \in 0 .. n : from(k) \in Address /\ to(k) \in Address
  <2>1. ASSUME NEW k \in 0 .. n PROVE from(k) \in Address /\ to(k) \in Address
    BY <1>1, <1>5, AtType
  <2> QED BY <2>1
<1> HIDE DEF from, to
<1>7. Calm(c, last)
  <2> DEFINE fromf == [k \in 0 .. n |-> from(k)]
             tof == [k \in 0 .. n |-> to(k)]
  <2>1. fromf \in [0 .. n -> Address] /\ tof \in [0 .. n -> Address]
    BY <1>6
  <2>2. \A f : CopyBlock(c, n, fromf, tof, f) = [k \in 0 .. n |->
              IF k = 0 THEN c ELSE Write(f[k - 1], to(k - 1), Read(f[k - 1], from(k - 1)))]
    <3> SUFFICES ASSUME NEW f, NEW k \in 0 .. n, k # 0
                 PROVE  fromf[k - 1] = from(k - 1) /\ tof[k - 1] = to(k - 1)
      BY DEF CopyBlock
    <3>1. k - 1 \in 0 .. n
      BY <1>3
    <3> QED BY <3>1
  <2> HIDE DEF fromf, tof
  <2>3. \E f : f = [k \in 0 .. n |->
              IF k = 0 THEN c ELSE Write(f[k - 1], to(k - 1), Read(f[k - 1], from(k - 1)))]
    BY <1>3, <2>1, <2>2, CopyingBlock
  <2>4. moved = [k \in 0 .. n |->
              IF k = 0 THEN c ELSE Write(moved[k - 1], to(k - 1), Read(moved[k - 1], from(k - 1)))]
    BY <2>3
  <2> HIDE DEF moved
  <2>5. moved = CopyBlock(c, n, fromf, tof, moved)
    BY <2>2, <2>4
  <2>6. n \in 0 .. n
    BY <1>3
  <2> QED BY <1>3, <2>1, <2>5, <2>6, CopyingBlock
<1> HIDE DEF moved, last
<1>8. Typed(c, last) /\ last \in Processor /\ last.e = c.e /\ (c.e => last.sph = c.sph)
  BY <1>7 DEF Calm, Typed
<1>9. /\ x \in Word /\ y \in Word
  BY <1>3, <1>5
<1>10. /\ Lo(x) \in Byte /\ Hi(x) \in Byte /\ Lo(y) \in Byte /\ Hi(y) \in Byte /\ 255 \in Byte
  BY <1>9, LoHiType, Ranges, SMT
<1> HIDE DEF x, y
<1> DEFINE full == 255
           bank == Lo(i.arg)
           xl == Lo(x)
           xhi == Hi(x)
           yl == Lo(y)
           yhi == Hi(y)
           r1 == [last EXCEPT !.a = full]
           r2 == [r1 EXCEPT !.b = full]
           r3 == [r2 EXCEPT !.dbr = bank]
           r4 == [r3 EXCEPT !.x = xl]
           r5 == [r4 EXCEPT !.xh = xhi]
           r6 == [r5 EXCEPT !.y = yl]
           r7 == [r6 EXCEPT !.yh = yhi]
<1>11. /\ full \in Byte /\ bank \in Byte /\ xl \in Byte /\ xhi \in Byte
       /\ yl \in Byte /\ yhi \in Byte
  BY <1>1, <1>10
<1>12. r7 = BlockMove(c, i)
  BY DEF BlockMove, x, y, last, moved, from, to, n, by
<1> HIDE DEF full, bank, xl, xhi, yl, yhi
<1>13. Typed(c, r1) /\ r1 \in Processor /\ r1.e = c.e /\ (c.e => r1.sph = c.sph)
  <2>1. Typed(last, r1)
    BY <1>8, <1>11, Assigning
  <2>2. r1.e = last.e /\ r1.sph = last.sph
    BY <1>8 DEF Processor, Processors
  <2> QED BY <2>1, <2>2, <1>8 DEF Typed
<1> HIDE DEF r1
<1>14. Typed(c, r2) /\ r2 \in Processor /\ r2.e = c.e /\ (c.e => r2.sph = c.sph)
  <2>1. Typed(r1, r2)
    BY <1>13, <1>11, Assigning
  <2>2. r2.e = r1.e /\ r2.sph = r1.sph
    BY <1>13 DEF Processor, Processors
  <2> QED BY <2>1, <2>2, <1>13 DEF Typed
<1> HIDE DEF r2
<1>15. Typed(c, r3) /\ r3 \in Processor /\ r3.e = c.e /\ (c.e => r3.sph = c.sph)
  <2>1. Typed(r2, r3)
    BY <1>14, <1>11, Assigning
  <2>2. r3.e = r2.e /\ r3.sph = r2.sph
    BY <1>14 DEF Processor, Processors
  <2> QED BY <2>1, <2>2, <1>14 DEF Typed
<1> HIDE DEF r3
<1>16. Typed(c, r4) /\ r4 \in Processor /\ r4.e = c.e /\ (c.e => r4.sph = c.sph)
  <2>1. Typed(r3, r4)
    BY <1>15, <1>11, Assigning
  <2>2. r4.e = r3.e /\ r4.sph = r3.sph
    BY <1>15 DEF Processor, Processors
  <2> QED BY <2>1, <2>2, <1>15 DEF Typed
<1> HIDE DEF r4
<1>17. Typed(c, r5) /\ r5 \in Processor /\ r5.e = c.e /\ (c.e => r5.sph = c.sph)
  <2>1. Typed(r4, r5)
    BY <1>16, <1>11, Assigning
  <2>2. r5.e = r4.e /\ r5.sph = r4.sph
    BY <1>16 DEF Processor, Processors
  <2> QED BY <2>1, <2>2, <1>16 DEF Typed
<1> HIDE DEF r5
<1>18. Typed(c, r6) /\ r6 \in Processor /\ r6.e = c.e /\ (c.e => r6.sph = c.sph)
  <2>1. Typed(r5, r6)
    BY <1>17, <1>11, Assigning
  <2>2. r6.e = r5.e /\ r6.sph = r5.sph
    BY <1>17 DEF Processor, Processors
  <2> QED BY <2>1, <2>2, <1>17 DEF Typed
<1> HIDE DEF r6
<1>19. Typed(c, r7) /\ r7 \in Processor /\ r7.e = c.e /\ (c.e => r7.sph = c.sph)
  <2>1. Typed(r6, r7)
    BY <1>18, <1>11, Assigning
  <2>2. r7.e = r6.e /\ r7.sph = r6.sph
    BY <1>18 DEF Processor, Processors
  <2> QED BY <2>1, <2>2, <1>18 DEF Typed
<1> HIDE DEF r7
<1> QED BY <1>12, <1>19

-------------------------------------------------------------------------------
(* The 65816: a step.                                                      *)

(* Which modes the opcode table gives an instruction.                      *)
LEMMA OpcodeModes816 ==
  ASSUME NEW op, NEW mode, <<op, mode>> \in Opcodes816
  PROVE  /\ op \in AccReads \cup IdxReads => mode \in Resolving816 \cup {"IMM"}
         /\ op \in Stores => mode \in Resolving816
         /\ op \in Rmws => mode \in Resolving816 \cup {"ACC"}
         /\ op \in Rmws /\ mode = "ACC" => op \in ReadModifyWrites
         /\ op \in Jumps816 => <<op, mode>> \in JumpModes
         /\ op \in BlockMoves => mode = "BLOCK"
<1>1. CASE <<op, mode>> \in AccOpcodes
  BY <1>1 DEF AccOpcodes, AccReads, IdxReads, Stores, Rmws, Jumps816, BlockMoves,
     ReadModifyWrites, Resolving816, Memory816, Memory8
<1>2. CASE <<op, mode>> \in OtherOpcodes
  BY <1>2 DEF OtherOpcodes, AccReads, IdxReads, Stores, Rmws, Jumps816, BlockMoves,
     ReadModifyWrites, Resolving816, Memory816, Memory8
<1>3. CASE <<op, mode>> \in ControlOpcodes
  BY <1>3 DEF ControlOpcodes, AccReads, IdxReads, Stores, Rmws, Jumps816, BlockMoves,
     ReadModifyWrites, JumpModes, Registers816, FlagOps, Stack816, Idles816, Branches
<1> QED BY <1>1, <1>2, <1>3 DEF Opcodes816

LEMMA OpcodeOps816 ==
  ASSUME NEW op, NEW mode, <<op, mode>> \in Opcodes816
  PROVE  op \in AccReads \cup IdxReads \cup Stores \cup Rmws \cup Registers816 \cup FlagOps
               \cup ModeControls \cup Stack816 \cup NewStack \cup Jumps816 \cup Branches
               \cup {"BRL", "BRK", "COP"} \cup BlockMoves \cup Idles816
  BY DEF Opcodes816, AccOpcodes, OtherOpcodes, ControlOpcodes, AccReads, IdxReads, Stores, Rmws,
     Registers816, FlagOps, ModeControls, Stack816, NewStack, Jumps816, Branches, BlockMoves,
     Idles816, ReadModifyWrites

(* What an instruction other than a block move keeps, and what all keep. *)
Orderly(c, d, op) ==
  /\ Typed(c, d) /\ (PageLocked(c) => PageLocked(d))
  /\ op \notin BlockMoves /\ IndexClear(c) => IndexClear(d)

LEMMA OrderlyExec816 ==
  ASSUME NEW c \in Processor, NEW i \in Instructions, <<i.op, i.mode>> \in Opcodes816
  PROVE  Orderly(c, Exec816(c, i), i.op)
<1> DEFINE d == Exec816(c, i)
<1> SUFFICES Lawful(c, d) \/ (i.op \in BlockMoves /\ d = BlockMove(c, i))
  <2>1. ASSUME i.op \in BlockMoves, d = BlockMove(c, i) PROVE Orderly(c, d, i.op)
    BY <2>1, TypedBlockMove, OpcodeModes816 DEF Orderly, Typed, PageLocked
  <2>2. ASSUME Lawful(c, d) PROVE Orderly(c, d, i.op)
    BY <2>2 DEF Orderly, Lawful
  <2> HIDE DEF d
  <2> QED BY <2>1, <2>2 DEF d
<1> USE DEF AccReads, IdxReads, Stores, ReadModifyWrites, Registers816, FlagOps, ModeControls,
    Stack816, NewStack, Jumps816, Branches, BlockMoves, Idles816
<1>1. CASE i.op \in AccReads
  BY <1>1, OpcodeModes816, CalmAccRead, CalmIsLawful DEF Exec816
<1>2. CASE i.op \in IdxReads
  BY <1>2, OpcodeModes816, CalmIdxRead, CalmIsLawful DEF Exec816
<1>3. CASE i.op \in Stores
  BY <1>3, OpcodeModes816, CalmWrites816, CalmIsLawful DEF Exec816
<1>4. CASE i.op \in Rmws
  BY <1>4, OpcodeModes816, CalmRmw816, CalmIsLawful DEF Exec816, Rmws
<1>5. CASE i.op \in Registers816
  BY <1>5, LawfulRegister816 DEF Exec816
<1>6. CASE i.op \in FlagOps
  BY <1>6, CalmFlagOp, CalmIsLawful DEF Exec816
<1>7. CASE i.op \in ModeControls
  BY <1>7, LawfulModeControl DEF Exec816
<1>8. CASE i.op \in Stack816
  BY <1>8, LawfulStackOp816 DEF Exec816
<1>9. CASE i.op \in NewStack
  BY <1>9, LawfulNewStackOp DEF Exec816
<1>10. CASE i.op \in Jumps816
  BY <1>10, OpcodeModes816, LawfulJump816 DEF Exec816
<1>11. CASE i.op \in Branches \cup {"BRL"}
  BY <1>11, CalmBranch816, CalmIsLawful DEF Exec816
<1>12. CASE i.op \in {"BRK", "COP"}
  BY <1>12, CalmTraps, CalmIsLawful DEF Exec816
<1>13. CASE i.op \in BlockMoves
  BY <1>13 DEF Exec816
<1>14. CASE i.op \in Idles816
  BY <1>14, CalmIdle816, CalmIsLawful DEF Exec816
<1> HIDE DEF AccReads, IdxReads, Stores, ReadModifyWrites, Registers816, FlagOps, ModeControls,
    Stack816, NewStack, Jumps816, Branches, BlockMoves, Idles816, d
<1> QED BY <1>1, <1>2, <1>3, <1>4, <1>5, <1>6, <1>7, <1>8, <1>9, <1>10, <1>11, <1>12, <1>13,
           <1>14, OpcodeOps816 DEF d

LEMMA OperandBytes816Type ==
  ASSUME NEW c, NEW i
  PROVE  OperandBytes816(c, i) \in 0 .. 3
<1>1. AccBits(c) \div 8 \in 0 .. 3 /\ IdxBits(c) \div 8 \in 0 .. 3
  BY Widths
<1> QED BY <1>1 DEF OperandBytes816

LEMMA OrderlyStep816 ==
  ASSUME NEW c \in Processor, NEW i \in Instructions, <<i.op, i.mode>> \in Opcodes816
  PROVE  Orderly(c, Step816(c, i), i.op)
<1> DEFINE pc == (c.pc + 1 + OperandBytes816(c, i)) % 65536
           fetched == [c EXCEPT !.pc = pc]
           done == Exec816(fetched, i)
           halted == done.halted \/ done.pc = c.pc
           last == [done EXCEPT !.halted = halted]
<1>1. pc \in Word
  <2>1. c.pc + 1 + OperandBytes816(c, i) \in Int
    BY OperandBytes816Type, Fields, Ranges, SMT
  <2> QED BY <2>1, Wraps, SMT
<1> HIDE DEF pc
<1>2. Lawful(c, fetched)
  BY <1>1, CalmAssigning, CalmIsLawful
<1>3. fetched \in Processor
  BY <1>2 DEF Lawful, Typed
<1> HIDE DEF fetched
<1>4. Orderly(fetched, done, i.op)
  BY <1>3, OrderlyExec816
<1>5. done \in Processor
  BY <1>4 DEF Orderly, Typed
<1> HIDE DEF done
<1>6. halted \in BOOLEAN
  BY <1>5, Fields
<1> HIDE DEF halted
<1>7. Lawful(done, last)
  BY <1>5, <1>6, CalmAssigning, CalmIsLawful
<1> HIDE DEF last
<1>8. Orderly(c, last, i.op)
  BY <1>2, <1>4, <1>7 DEF Orderly, Lawful, Typed
<1> QED BY <1>8 DEF Step816, last, halted, done, fetched, pc

(* Reset puts the processor into emulation mode, its stack on page one.    *)
LEMMA PoweringUp ==
  ASSUME NEW c \in Processor
  PROVE  /\ Typed(c, PoweredUp(c)) /\ PageLocked(PoweredUp(c))
         /\ c.variant = "65816" => IndexClear(PoweredUp(c))
<1> DEFINE pc == Vector(c, 65532)
<1>1. pc \in Word
  <2>1. 65532 \in Word /\ 65532 + 1 \in Word
    BY Ranges, SMT
  <2> QED BY <2>1, VectorType
<1>2. 0 \in Byte /\ 1 \in Byte /\ 253 \in Byte /\ 0 \in Word /\ {FlagU, FlagI} \in SUBSET Flags
  BY FlagValues, Ranges, SMT
<1> HIDE DEF pc
<1> DEFINE r1 == [c EXCEPT !.a = 0]
           r2 == [r1 EXCEPT !.x = 0]
           r3 == [r2 EXCEPT !.y = 0]
           r4 == [r3 EXCEPT !.sp = 253]
           r5 == [r4 EXCEPT !.p = {FlagU, FlagI}]
           r6 == [r5 EXCEPT !.pc = pc]
           r7 == [r6 EXCEPT !.halted = FALSE]
           r8 == [r7 EXCEPT !.stoppedBySTP = FALSE]
<1>3. Typed(c, r1) /\ r1 \in Processor
  <2>1. Typed(c, r1)
    BY <1>1, <1>2, Assigning
  <2> QED BY <2>1, TypedIsTransitive DEF Typed
<1> HIDE DEF r1
<1>4. Typed(c, r2) /\ r2 \in Processor
  <2>1. Typed(r1, r2)
    BY <1>1, <1>2, Assigning, <1>3
  <2> QED BY <2>1, TypedIsTransitive, <1>3 DEF Typed
<1> HIDE DEF r2
<1>5. Typed(c, r3) /\ r3 \in Processor
  <2>1. Typed(r2, r3)
    BY <1>1, <1>2, Assigning, <1>4
  <2> QED BY <2>1, TypedIsTransitive, <1>4 DEF Typed
<1> HIDE DEF r3
<1>6. Typed(c, r4) /\ r4 \in Processor
  <2>1. Typed(r3, r4)
    BY <1>1, <1>2, Assigning, <1>5
  <2> QED BY <2>1, TypedIsTransitive, <1>5 DEF Typed
<1> HIDE DEF r4
<1>7. Typed(c, r5) /\ r5 \in Processor
  <2>1. Typed(r4, r5)
    BY <1>1, <1>2, Assigning, <1>6
  <2> QED BY <2>1, TypedIsTransitive, <1>6 DEF Typed
<1> HIDE DEF r5
<1>8. Typed(c, r6) /\ r6 \in Processor
  <2>1. Typed(r5, r6)
    BY <1>1, <1>2, Assigning, <1>7
  <2> QED BY <2>1, TypedIsTransitive, <1>7 DEF Typed
<1> HIDE DEF r6
<1>9. Typed(c, r7) /\ r7 \in Processor
  <2>1. Typed(r6, r7)
    BY <1>1, <1>2, Assigning, <1>8
  <2> QED BY <2>1, TypedIsTransitive, <1>8 DEF Typed
<1> HIDE DEF r7
<1>10. Typed(c, r8) /\ r8 \in Processor
  <2>1. Typed(r7, r8)
    BY <1>1, <1>2, Assigning, <1>9
  <2> QED BY <2>1, TypedIsTransitive, <1>9 DEF Typed
<1> HIDE DEF r8
<1> DEFINE s1 == [r8 EXCEPT !.e = TRUE]
           s2 == [s1 EXCEPT !.b = 0]
           s3 == [s2 EXCEPT !.xh = 0]
           s4 == [s3 EXCEPT !.yh = 0]
           s5 == [s4 EXCEPT !.sph = 1]
           s6 == [s5 EXCEPT !.d = 0]
           s7 == [s6 EXCEPT !.dbr = 0]
           s8 == [s7 EXCEPT !.pbr = 0]
<1>11. /\ Typed(c, s1) /\ s1 \in Processor
      /\ s1.e = TRUE
  <2>1. Typed(r8, s1)
    BY <1>2, <1>10, Assigning
  <2>2. s1.e = TRUE
    BY <1>10 DEF Processor, Processors
  <2> QED BY <2>1, <2>2, <1>10, TypedIsTransitive DEF Typed
<1> HIDE DEF s1
<1>12. /\ Typed(c, s2) /\ s2 \in Processor
      /\ s2.e = TRUE
  <2>1. Typed(s1, s2)
    BY <1>2, <1>11, Assigning
  <2>2. s2.e = TRUE
    BY <1>11 DEF Processor, Processors
  <2> QED BY <2>1, <2>2, <1>11, TypedIsTransitive DEF Typed
<1> HIDE DEF s2
<1>13. /\ Typed(c, s3) /\ s3 \in Processor
      /\ s3.e = TRUE /\ s3.xh = 0
  <2>1. Typed(s2, s3)
    BY <1>2, <1>12, Assigning
  <2>2. s3.e = TRUE /\ s3.xh = 0
    BY <1>12 DEF Processor, Processors
  <2> QED BY <2>1, <2>2, <1>12, TypedIsTransitive DEF Typed
<1> HIDE DEF s3
<1>14. /\ Typed(c, s4) /\ s4 \in Processor
      /\ s4.e = TRUE /\ s4.xh = 0 /\ s4.yh = 0
  <2>1. Typed(s3, s4)
    BY <1>2, <1>13, Assigning
  <2>2. s4.e = TRUE /\ s4.xh = 0 /\ s4.yh = 0
    BY <1>13 DEF Processor, Processors
  <2> QED BY <2>1, <2>2, <1>13, TypedIsTransitive DEF Typed
<1> HIDE DEF s4
<1>15. /\ Typed(c, s5) /\ s5 \in Processor
      /\ s5.e = TRUE /\ s5.xh = 0 /\ s5.yh = 0 /\ s5.sph = 1
  <2>1. Typed(s4, s5)
    BY <1>2, <1>14, Assigning
  <2>2. s5.e = TRUE /\ s5.xh = 0 /\ s5.yh = 0 /\ s5.sph = 1
    BY <1>14 DEF Processor, Processors
  <2> QED BY <2>1, <2>2, <1>14, TypedIsTransitive DEF Typed
<1> HIDE DEF s5
<1>16. /\ Typed(c, s6) /\ s6 \in Processor
      /\ s6.e = TRUE /\ s6.xh = 0 /\ s6.yh = 0 /\ s6.sph = 1
  <2>1. Typed(s5, s6)
    BY <1>2, <1>15, Assigning
  <2>2. s6.e = TRUE /\ s6.xh = 0 /\ s6.yh = 0 /\ s6.sph = 1
    BY <1>15 DEF Processor, Processors
  <2> QED BY <2>1, <2>2, <1>15, TypedIsTransitive DEF Typed
<1> HIDE DEF s6
<1>17. /\ Typed(c, s7) /\ s7 \in Processor
      /\ s7.e = TRUE /\ s7.xh = 0 /\ s7.yh = 0 /\ s7.sph = 1
  <2>1. Typed(s6, s7)
    BY <1>2, <1>16, Assigning
  <2>2. s7.e = TRUE /\ s7.xh = 0 /\ s7.yh = 0 /\ s7.sph = 1
    BY <1>16 DEF Processor, Processors
  <2> QED BY <2>1, <2>2, <1>16, TypedIsTransitive DEF Typed
<1> HIDE DEF s7
<1>18. /\ Typed(c, s8) /\ s8 \in Processor
      /\ s8.e = TRUE /\ s8.xh = 0 /\ s8.yh = 0 /\ s8.sph = 1
  <2>1. Typed(s7, s8)
    BY <1>2, <1>17, Assigning
  <2>2. s8.e = TRUE /\ s8.xh = 0 /\ s8.yh = 0 /\ s8.sph = 1
    BY <1>17 DEF Processor, Processors
  <2> QED BY <2>1, <2>2, <1>17, TypedIsTransitive DEF Typed
<1> HIDE DEF s8
<1>19. PoweredUp(c) = IF c.variant # "65816" THEN r8 ELSE s8
  BY DEF PoweredUp, pc, r1, r2, r3, r4, r5, r6, r7, r8, s1, s2, s3, s4, s5, s6, s7, s8
<1> QED BY <1>10, <1>18, <1>19 DEF Typed, PageLocked, IndexClear

-------------------------------------------------------------------------------
(* The inductive invariant: the processor is one, the instruction is one   *)
(* of its instructions, and the stack of an emulated 65816 is on page one. *)

EventNames == {"none", "RESET", "NMI", "IRQ", "ABORT"}

CoresTypeOK ==
  /\ menu \in DOMAIN Menus /\ left \in Nat
  /\ cpu \in Processor /\ ir \in Instructions \cup {Event(name) : name \in EventNames}

CoresInv == CoresTypeOK /\ StackPageLocked

LEMMA NothingWritten == << >> \in Memories
<1>1. << >> \in [{} -> Byte]
  OBVIOUS
<1>2. {} \in SUBSET Address
  OBVIOUS
<1> QED BY <1>1, <1>2 DEF Memories

(* A processor with nothing written is a processor.                        *)
LEMMA FreshProcessors == Processors({<< >>}) \subseteq Processor
  BY NothingWritten DEF Processor, Processors

(* The invariant holds of the processors a run starts from.                *)
THEOREM CoresInit == Init => CoresInv
<1> SUFFICES ASSUME Init PROVE CoresInv
  OBVIOUS
<1>1. cpu \in Processor /\ PageLocked(cpu)
  BY CoresAssumption, FreshProcessors DEF Init
<1>2. NoInstruction = Event("none") /\ "none" \in EventNames
  BY DEF Event, NoInstruction, EventNames
<1>3. Length[menu] \in Nat
  BY CoresAssumption DEF Init
<1> QED BY <1>1, <1>2, <1>3 DEF Init, CoresInv, CoresTypeOK, StackPageLocked

(* What a step makes of the processor. *)
Steady(c, d, op) ==
  /\ Typed(c, d) /\ (PageLocked(c) => PageLocked(d))
  /\ c.variant = "65816" => Orderly(c, d, op)

(* The page and the index registers concern the 65816 alone.               *)
LEMMA SteadyOthers ==
  ASSUME NEW c, NEW d, NEW op, Typed(c, d), c.variant # "65816"
  PROVE  Steady(c, d, op)
  BY DEF Steady, Typed, PageLocked

(* Each way to step is steady.                                             *)
LEMMA SteadyExecute ==
  ASSUME NEW c \in Processor, NEW i \in Instructions, <<i.op, i.mode>> \in OpcodesOf(c.variant)
  PROVE  Steady(c, Stepped(c, i), i.op)
<1>1. CASE c.variant = "65816"
  BY <1>1, OrderlyStep816 DEF Stepped, OpcodesOf, Steady, Orderly
<1>2. CASE c.variant # "65816"
  BY <1>2, TypedStep6502, SteadyOthers DEF Stepped, OpcodesOf
<1> QED BY <1>1, <1>2

LEMMA SteadyService ==
  ASSUME NEW c \in Processor, NEW source \in Sources(c)
  PROVE  Steady(c, Served(c, source), source)
<1>1. CASE c.variant = "65816"
  <2>1. source \in DOMAIN Vectors816
    BY DEF Sources, Vectors816
  <2>2. Lawful(c, Service816(c, source))
    BY <2>1, CalmService816, CalmIsLawful
  <2> QED BY <1>1, <2>2 DEF Served, Steady, Orderly, Lawful
<1>2. CASE c.variant # "65816"
  <2>1. source \in {"NMI", "IRQ"}
    BY <1>2 DEF Sources
  <2> QED BY <1>2, <2>1, TypedService6502, SteadyOthers DEF Served
<1> QED BY <1>1, <1>2

LEMMA SteadyReset ==
  ASSUME NEW c \in Processor, NEW op
  PROVE  Steady(c, PoweredUp(c), op)
  BY PoweringUp DEF Steady, Orderly

(* What a step may not do, from the invariant.                             *)
LEMMA CoresStep ==
  ASSUME CoresInv, Next
  PROVE  Steady(cpu, cpu', ir'.op) /\ left' \in Nat /\ menu' = menu
         /\ ir' \in Instructions \cup {Event(name) : name \in EventNames}
<1> USE DEF CoresInv, CoresTypeOK
<1>1. ASSUME NEW i \in Menus[menu], Execute(i)
      PROVE  Steady(cpu, cpu', ir'.op) /\ ir' \in Instructions
  <2>1. i \in Instructions
    BY CoresAssumption
  <2> QED BY <1>1, <2>1, SteadyExecute DEF Execute
<1>2. ASSUME NEW source \in DOMAIN Vectors816, Service(source)
      PROVE  Steady(cpu, cpu', ir'.op) /\ \E name \in EventNames : ir' = Event(name)
  <2>1. source \in EventNames /\ Event(source).op = source
    BY DEF Vectors816, Event, NoInstruction, EventNames
  <2> QED BY <1>2, <2>1, SteadyService DEF Service
<1>3. ASSUME Reset
      PROVE  Steady(cpu, cpu', ir'.op) /\ \E name \in EventNames : ir' = Event(name)
  BY <1>3, SteadyReset DEF Reset, EventNames
<1>4. left' \in Nat /\ menu' = menu
  <2>1. Spend
    BY DEF Next, Execute, Service, Reset
  <2> QED BY <2>1 DEF Spend
<1> QED BY <1>1, <1>2, <1>3, <1>4 DEF Next

(* The inductive invariant holds in every state: every step of every       *)
(* variant, interrupt and reset returns a processor (cpu.go, Step and      *)
(* Reset), and the stack of an emulated 65816 is on page one.              *)
THEOREM CoresInvariant == Spec => []CoresInv
<1>1. CoresInv /\ [Next]_vars => CoresInv'
  <2> SUFFICES ASSUME CoresInv, [Next]_vars PROVE CoresInv'
    OBVIOUS
  <2>1. CASE Next
    BY <2>1, CoresStep DEF CoresInv, CoresTypeOK, StackPageLocked, Steady, Typed
  <2>2. CASE UNCHANGED vars
    BY <2>2 DEF vars, CoresInv, CoresTypeOK, StackPageLocked
  <2> QED BY <2>1, <2>2
<1> QED BY <1>1, CoresInit, PTL DEF Spec

(* In emulation mode the stack never leaves page one, whatever runs, is    *)
(* interrupted or reset (ctrl816.go, spReforce).                           *)
THEOREM PageIsLocked == Spec => []StackPageLocked
<1>1. CoresInv => StackPageLocked
  BY DEF CoresInv
<1> QED BY <1>1, CoresInvariant, PTL

(* No step but a block move leaves a high byte in an index register that   *)
(* is narrow, whichever of SEP, PLP, RTI and XCE narrowed it (exec816.go,  *)
(* applyWidthTruncation).                                                  *)
THEOREM NarrowIndexesAreClear == Spec => NarrowIndexIsClear
<1>1. CoresInv /\ [Next]_vars =>
        [cpu.variant = "65816" /\ IndexClear(cpu) /\ ir'.op \notin BlockMoves
           => IndexClear(cpu')]_vars
  BY CoresStep DEF Steady, Orderly
<1> QED BY <1>1, CoresInvariant, PTL DEF Spec, NarrowIndexIsClear

-------------------------------------------------------------------------------
(* Decimal arithmetic, digit by digit: the sum of two digits is corrected  *)
(* and carries, and the digits of the whole are those of the decimal sum.  *)

FourDigits(d0, d1, d2, d3) == d0 + 16 * d1 + 256 * d2 + 4096 * d3

(* A word is its four hexadecimal digits, and no others.                   *)
LEMMA Sixteens == 16 ^ 0 = 1 /\ 16 ^ 1 = 16 /\ 16 ^ 2 = 256 /\ 16 ^ 3 = 4096
  BY SMT

LEMMA DigitsOfWord ==
  ASSUME NEW v \in Word
  PROVE  /\ Digit(v, 0) \in 0 .. 15 /\ Digit(v, 1) \in 0 .. 15
         /\ Digit(v, 2) \in 0 .. 15 /\ Digit(v, 3) \in 0 .. 15
         /\ v = FourDigits(Digit(v, 0), Digit(v, 1), Digit(v, 2), Digit(v, 3))
         /\ Digit(v, 0) = (v \div 1) % 16 /\ Digit(v, 1) = (v \div 16) % 16
         /\ Digit(v, 2) = (v \div 256) % 16 /\ Digit(v, 3) = (v \div 4096) % 16
<1>1. v \in Int /\ 0 <= v /\ v < 65536
  BY Ranges, SMT
<1>2. /\ Digit(v, 0) = (v \div 1) % 16 /\ Digit(v, 1) = (v \div 16) % 16
      /\ Digit(v, 2) = (v \div 256) % 16 /\ Digit(v, 3) = (v \div 4096) % 16
  BY Sixteens DEF Digit
<1> DEFINE q1 == v \div 16
           q2 == v \div 256
           q3 == v \div 4096
<1>3. q1 \in Int /\ q2 \in Int /\ q3 \in Int
  BY <1>1
<1>4. v = 16 * q1 + (v % 16) /\ q2 = q1 \div 16 /\ q3 = q2 \div 16 /\ q3 < 16 /\ 0 <= q3
  BY <1>1
<1>5. v \div 1 = v
  BY <1>1
<1> HIDE DEF q1, q2, q3
<1>6. q1 = 16 * q2 + (q1 % 16) /\ q2 = 16 * q3 + (q2 % 16) /\ q3 % 16 = q3
  BY <1>3, <1>4
<1>7. /\ v % 16 \in 0 .. 15 /\ q1 % 16 \in 0 .. 15 /\ q2 % 16 \in 0 .. 15 /\ q3 \in 0 .. 15
  BY <1>1, <1>3, <1>4
<1>8. /\ Digit(v, 0) = v % 16 /\ Digit(v, 1) = q1 % 16 /\ Digit(v, 2) = q2 % 16
      /\ Digit(v, 3) = q3
  BY <1>2, <1>5, <1>6 DEF q1, q2, q3
<1>9. v = FourDigits(v % 16, q1 % 16, q2 % 16, q3)
  <2> DEFINE d0 == v % 16
             d1 == q1 % 16
             d2 == q2 % 16
  <2>1. d0 \in Int /\ d1 \in Int /\ d2 \in Int
    BY <1>7
  <2>2. v = 16 * q1 + d0 /\ q1 = 16 * q2 + d1 /\ q2 = 16 * q3 + d2
    BY <1>4, <1>6
  <2> HIDE DEF d0, d1, d2
  <2>3. v = FourDigits(d0, d1, d2, q3)
    BY <1>3, <2>1, <2>2 DEF FourDigits
  <2> QED BY <2>3 DEF d0, d1, d2
<1> QED BY <1>2, <1>7, <1>8, <1>9

LEMMA DigitsOfFour ==
  ASSUME NEW d0 \in Int, NEW d1 \in Int, NEW d2 \in Int, NEW d3 \in Int,
         0 <= d0, d0 < 16, 0 <= d1, d1 < 16, 0 <= d2, d2 < 16, 0 <= d3, d3 < 16
  PROVE  /\ FourDigits(d0, d1, d2, d3) \in Word
         /\ Digit(FourDigits(d0, d1, d2, d3), 0) = d0
         /\ Digit(FourDigits(d0, d1, d2, d3), 1) = d1
         /\ Digit(FourDigits(d0, d1, d2, d3), 2) = d2
         /\ Digit(FourDigits(d0, d1, d2, d3), 3) = d3
<1> DEFINE v == FourDigits(d0, d1, d2, d3)
<1>1. v \in Int /\ 0 <= v /\ v < 65536
  BY DEF FourDigits
<1>2. v \in Word
  BY <1>1, Ranges, SMT
<1>3. v \div 1 = v /\ v % 16 = d0
  BY DEF FourDigits
<1>4. v \div 16 = d1 + 16 * d2 + 256 * d3
  BY DEF FourDigits
<1>5. v \div 256 = d2 + 16 * d3
  BY DEF FourDigits
<1>6. v \div 4096 = d3
  BY DEF FourDigits
<1>7. /\ (d1 + 16 * d2 + 256 * d3) % 16 = d1 /\ (d2 + 16 * d3) % 16 = d2 /\ d3 % 16 = d3
  OBVIOUS
<1> HIDE DEF v
<1>8. Digit(v, 0) = d0 /\ Digit(v, 1) = d1 /\ Digit(v, 2) = d2 /\ Digit(v, 3) = d3
  BY <1>3, <1>4, <1>5, <1>6, <1>7, Sixteens DEF Digit
<1> QED BY <1>2, <1>8 DEF v

(* One digit of an addition and of a subtraction: the digit, what goes on. *)
Kept10(t) == IF t >= 10 THEN t - 10 ELSE IF t < 0 THEN t + 10 ELSE t

Carry10(t) == IF t >= 10 THEN 1 ELSE 0

Borrow10(t) == IF t < 0 THEN 1 ELSE 0

(* A digit that carries or borrows is corrected.                           *)
LEMMA CarriedDigit ==
  ASSUME NEW t \in Int, 0 <= t, t <= 19
  PROVE  /\ CarryDigit(t, 1) = Kept10(t) + 16 * Carry10(t)
         /\ \A low \in Int : 0 <= low /\ low < 16 =>
              CarryDigit(t * 16 + low, 16) = (Kept10(t) + 16 * Carry10(t)) * 16 + low
         /\ \A low \in Int : 0 <= low /\ low < 256 =>
              CarryDigit(t * 256 + low, 256) = (Kept10(t) + 16 * Carry10(t)) * 256 + low
<1>1. CarryDigit(t, 1) = Kept10(t) + 16 * Carry10(t)
  BY DEF CarryDigit, Kept10, Carry10
<1>2. ASSUME NEW low \in Int, 0 <= low, low < 16
      PROVE  CarryDigit(t * 16 + low, 16) = (Kept10(t) + 16 * Carry10(t)) * 16 + low
  BY <1>2 DEF CarryDigit, Kept10, Carry10
<1>3. ASSUME NEW low \in Int, 0 <= low, low < 256
      PROVE  CarryDigit(t * 256 + low, 256) = (Kept10(t) + 16 * Carry10(t)) * 256 + low
  BY <1>3 DEF CarryDigit, Kept10, Carry10
<1> QED BY <1>1, <1>2, <1>3

LEMMA BorrowedDigit ==
  ASSUME NEW t \in Int, -10 <= t, t <= 9
  PROVE  /\ BorrowDigit(t, 1) = Kept10(t) - 16 * Borrow10(t)
         /\ \A low \in Int : 0 <= low /\ low < 16 =>
              BorrowDigit(t * 16 + low, 16) = (Kept10(t) - 16 * Borrow10(t)) * 16 + low
         /\ \A low \in Int : 0 <= low /\ low < 256 =>
              BorrowDigit(t * 256 + low, 256) = (Kept10(t) - 16 * Borrow10(t)) * 256 + low
<1>1. BorrowDigit(t, 1) = Kept10(t) - 16 * Borrow10(t)
  BY DEF BorrowDigit, Kept10, Borrow10
<1>2. ASSUME NEW low \in Int, 0 <= low, low < 16
      PROVE  BorrowDigit(t * 16 + low, 16) = (Kept10(t) - 16 * Borrow10(t)) * 16 + low
  BY <1>2 DEF BorrowDigit, Kept10, Borrow10
<1>3. ASSUME NEW low \in Int, 0 <= low, low < 256
      PROVE  BorrowDigit(t * 256 + low, 256) = (Kept10(t) - 16 * Borrow10(t)) * 256 + low
  BY <1>3 DEF BorrowDigit, Kept10, Borrow10
<1> QED BY <1>1, <1>2, <1>3

(* Decoding adds up the digits at their places.                            *)
LEMMA Decimals10 ==
  ASSUME NEW t \in Int, -10 <= t, t <= 19
  PROVE  /\ Kept10(t) \in Int /\ 0 <= Kept10(t) /\ Kept10(t) <= 9
         /\ Carry10(t) \in Int /\ 0 <= Carry10(t) /\ Carry10(t) <= 1
         /\ Borrow10(t) \in Int /\ 0 <= Borrow10(t) /\ Borrow10(t) <= 1
         /\ t >= 0 => t = Kept10(t) + 10 * Carry10(t)
         /\ t <= 9 => t = Kept10(t) - 10 * Borrow10(t)
  BY DEF Kept10, Carry10, Borrow10

LEMMA DecimalDigits ==
  ASSUME NEW v \in Word, IsDecimal(v)
  PROVE  /\ Digit(v, 0) \in Int /\ 0 <= Digit(v, 0) /\ Digit(v, 0) <= 9
         /\ Digit(v, 1) \in Int /\ 0 <= Digit(v, 1) /\ Digit(v, 1) <= 9
         /\ Digit(v, 2) \in Int /\ 0 <= Digit(v, 2) /\ Digit(v, 2) <= 9
         /\ Digit(v, 3) \in Int /\ 0 <= Digit(v, 3) /\ Digit(v, 3) <= 9
<1>1. /\ Digit(v, 0) < 10 /\ Digit(v, 1) < 10 /\ Digit(v, 2) < 10 /\ Digit(v, 3) < 10
  BY DEF IsDecimal
<1> QED BY <1>1, DigitsOfWord

LEMMA DigitSums ==
  ASSUME NEW a \in Word, NEW v \in Word, NEW low
  PROVE  /\ DigitSum(a, v, 1, low) = (Digit(a, 0) + Digit(v, 0)) * 1 + low
         /\ DigitSum(a, v, 16, low) = (Digit(a, 1) + Digit(v, 1)) * 16 + low
         /\ DigitSum(a, v, 256, low) = (Digit(a, 2) + Digit(v, 2)) * 256 + low
         /\ DigitSum(a, v, 4096, low) = (Digit(a, 3) + Digit(v, 3)) * 4096 + low
         /\ DigitDiff(a, v, 1, low) = (Digit(a, 0) - Digit(v, 0)) * 1 + low
         /\ DigitDiff(a, v, 16, low) = (Digit(a, 1) - Digit(v, 1)) * 16 + low
         /\ DigitDiff(a, v, 256, low) = (Digit(a, 2) - Digit(v, 2)) * 256 + low
         /\ DigitDiff(a, v, 4096, low) = (Digit(a, 3) - Digit(v, 3)) * 4096 + low
  BY DigitsOfWord DEF DigitSum, DigitDiff

(* The digits of a decimal sum: k0, k1, k2 are kept, t1 and t3 are the last *)
(* digits of two and of four before their correction.                      *)
SumOf(a, v, carry, k0, k1, k2, t1, t3) ==
    /\ 0 <= k0 /\ k0 <= 9 /\ 0 <= k1 /\ k1 <= 9 /\ 0 <= k2 /\ k2 <= 9
    /\ 0 <= t1 /\ t1 <= 19 /\ 0 <= t3 /\ t3 <= 19
    /\ AddDigits16(a, v, carry) = 4096 * t3 + 256 * k2 + 16 * k1 + k0
    /\ Decode(a) + Decode(v) + carry = 1000 * t3 + 100 * k2 + 10 * k1 + k0
    /\ PartialSum8(a, v, carry) = 16 * t1 + k0
    /\ Digit(a, 0) + 10 * Digit(a, 1) + Digit(v, 0) + 10 * Digit(v, 1) + carry = 10 * t1 + k0

(* Adding digit by digit adds the numbers, modulo the limit.               *)
LEMMA DecimalSums ==
  ASSUME NEW a \in Word, NEW v \in Word, IsDecimal(a), IsDecimal(v), NEW carry \in {0, 1}
  PROVE  \E k0, k1, k2, t1, t3 \in Int : SumOf(a, v, carry, k0, k1, k2, t1, t3)
<1> DEFINE a0 == Digit(a, 0) a1 == Digit(a, 1) a2 == Digit(a, 2) a3 == Digit(a, 3)
           v0 == Digit(v, 0) v1 == Digit(v, 1) v2 == Digit(v, 2) v3 == Digit(v, 3)
<1>1. /\ a0 \in Int /\ 0 <= a0 /\ a0 <= 9 /\ a1 \in Int /\ 0 <= a1 /\ a1 <= 9
      /\ a2 \in Int /\ 0 <= a2 /\ a2 <= 9 /\ a3 \in Int /\ 0 <= a3 /\ a3 <= 9
  BY DecimalDigits
<1>2. /\ v0 \in Int /\ 0 <= v0 /\ v0 <= 9 /\ v1 \in Int /\ 0 <= v1 /\ v1 <= 9
      /\ v2 \in Int /\ 0 <= v2 /\ v2 <= 9 /\ v3 \in Int /\ 0 <= v3 /\ v3 <= 9
  BY DecimalDigits
<1>3. \A low : /\ DigitSum(a, v, 1, low) = (a0 + v0) * 1 + low
               /\ DigitSum(a, v, 16, low) = (a1 + v1) * 16 + low
               /\ DigitSum(a, v, 256, low) = (a2 + v2) * 256 + low
               /\ DigitSum(a, v, 4096, low) = (a3 + v3) * 4096 + low
  BY DigitSums
<1>4. Decode(a) = a0 + 10 * a1 + 100 * a2 + 1000 * a3
  BY DEF Decode
<1>5. Decode(v) = v0 + 10 * v1 + 100 * v2 + 1000 * v3
  BY DEF Decode
<1> HIDE DEF a0, a1, a2, a3, v0, v1, v2, v3
<1> DEFINE t0 == a0 + v0 + carry     k0 == Kept10(t0)  c0 == Carry10(t0)
           t1 == a1 + v1 + c0        k1 == Kept10(t1)  c1 == Carry10(t1)
           t2 == a2 + v2 + c1        k2 == Kept10(t2)  c2 == Carry10(t2)
           t3 == a3 + v3 + c2
           s1 == k0 + 16 * c0
           s2 == (k1 + 16 * c1) * 16 + k0
           s3 == (k2 + 16 * c2) * 256 + (16 * k1 + k0)
<1>6. t0 \in Int /\ 0 <= t0 /\ t0 <= 19 /\ t0 = a0 + v0 + carry
  BY <1>1, <1>2
<1> HIDE DEF t0
<1>7. k0 \in Int /\ 0 <= k0 /\ k0 <= 9 /\ c0 \in Int /\ 0 <= c0 /\ c0 <= 1 /\ t0 = k0 + 10 * c0
  BY <1>6, Decimals10
<1>8. CarryDigit(DigitSum(a, v, 1, carry), 1) = s1
  <2>1. DigitSum(a, v, 1, carry) = t0
    BY <1>1, <1>2, <1>3, <1>6
  <2> QED BY <1>6, <2>1, CarriedDigit
<1> HIDE DEF k0, c0
<1>9. t1 \in Int /\ 0 <= t1 /\ t1 <= 19 /\ t1 = a1 + v1 + c0
  BY <1>1, <1>2, <1>7
<1>10. DigitSum(a, v, 16, s1) = t1 * 16 + k0
  BY <1>1, <1>2, <1>3, <1>7
<1> HIDE DEF t1, s1
<1>11. k1 \in Int /\ 0 <= k1 /\ k1 <= 9 /\ c1 \in Int /\ 0 <= c1 /\ c1 <= 1 /\ t1 = k1 + 10 * c1
  BY <1>9, Decimals10
<1>12. CarryDigit(t1 * 16 + k0, 16) = s2
  BY <1>7, <1>9, CarriedDigit
<1> HIDE DEF k1, c1
<1>13. t2 \in Int /\ 0 <= t2 /\ t2 <= 19 /\ t2 = a2 + v2 + c1
  BY <1>1, <1>2, <1>11
<1>14. DigitSum(a, v, 256, s2) = t2 * 256 + (16 * k1 + k0)
  BY <1>1, <1>2, <1>3, <1>7, <1>11
<1> HIDE DEF t2, s2
<1>15. k2 \in Int /\ 0 <= k2 /\ k2 <= 9 /\ c2 \in Int /\ 0 <= c2 /\ c2 <= 1 /\ t2 = k2 + 10 * c2
  BY <1>13, Decimals10
<1>16. CarryDigit(t2 * 256 + (16 * k1 + k0), 256) = s3
  <2>1. 16 * k1 + k0 \in Int /\ 0 <= 16 * k1 + k0 /\ 16 * k1 + k0 < 256
    BY <1>7, <1>11
  <2> QED BY <1>13, <2>1, CarriedDigit
<1> HIDE DEF k2, c2
<1>17. t3 \in Int /\ 0 <= t3 /\ t3 <= 19 /\ t3 = a3 + v3 + c2
  BY <1>1, <1>2, <1>15
<1>18. DigitSum(a, v, 4096, s3) = 4096 * t3 + 256 * k2 + 16 * k1 + k0
  BY <1>1, <1>2, <1>3, <1>7, <1>11, <1>15
<1> HIDE DEF t3, s3
<1>19. AddDigits16(a, v, carry) = DigitSum(a, v, 4096, s3)
  <2>1. CarryDigit(DigitSum(a, v, 16, s1), 16) = s2
    BY <1>10, <1>12
  <2>2. CarryDigit(DigitSum(a, v, 256, s2), 256) = s3
    BY <1>14, <1>16
  <2> QED BY <1>8, <2>1, <2>2 DEF AddDigits16
<1>20. PartialSum8(a, v, carry) = 16 * t1 + k0
  <2>1. PartialSum8(a, v, carry) = t1 * 16 + k0
    BY <1>8, <1>10, Zenon DEF PartialSum8
  <2> QED BY <2>1, <1>7, <1>9
<1>21. Decode(a) + Decode(v) + carry = 1000 * t3 + 100 * k2 + 10 * k1 + k0
  BY <1>1, <1>2, <1>4, <1>5, <1>6, <1>7, <1>9, <1>11, <1>13, <1>15, <1>17
<1>22. a0 + 10 * a1 + v0 + 10 * v1 + carry = 10 * t1 + k0
  BY <1>1, <1>2, <1>6, <1>7, <1>9
<1>23. Digit(a, 0) + 10 * Digit(a, 1) + Digit(v, 0) + 10 * Digit(v, 1) + carry = 10 * t1 + k0
  BY <1>22 DEF a0, a1, v0, v1
<1>24. /\ AddDigits16(a, v, carry) = 4096 * t3 + 256 * k2 + 16 * k1 + k0
  BY <1>18, <1>19
<1>25. /\ k0 \in Int /\ k1 \in Int /\ k2 \in Int /\ t1 \in Int /\ t3 \in Int
       /\ 0 <= k0 /\ k0 <= 9 /\ 0 <= k1 /\ k1 <= 9 /\ 0 <= k2 /\ k2 <= 9
       /\ 0 <= t1 /\ t1 <= 19 /\ 0 <= t3 /\ t3 <= 19
  BY <1>7, <1>9, <1>11, <1>15, <1>17
<1>26. SumOf(a, v, carry, k0, k1, k2, t1, t3)
  BY <1>20, <1>21, <1>23, <1>24, <1>25 DEF SumOf
<1> QED BY <1>25, <1>26

(* The two and four digits of a decimal difference before the last borrow. *)
Digits2(a, v, carry) ==
    DigitDiff(a, v, 16, BorrowDigit(DigitDiff(a, v, 1, carry - 1), 1))

Digits4(a, v, carry) ==
    LET s1 == BorrowDigit(DigitDiff(a, v, 1, carry - 1), 1)
        s2 == BorrowDigit(DigitDiff(a, v, 16, s1), 16)
        s3 == BorrowDigit(DigitDiff(a, v, 256, s2), 256)
    IN  DigitDiff(a, v, 4096, s3)

(* The digits of a decimal difference, in the same way. *)
DiffOf(a, v, carry, k0, k1, k2, t1, t3) ==
    /\ 0 <= k0 /\ k0 <= 9 /\ 0 <= k1 /\ k1 <= 9 /\ 0 <= k2 /\ k2 <= 9
    /\ -10 <= t1 /\ t1 <= 9 /\ -10 <= t3 /\ t3 <= 9
    /\ Digits4(a, v, carry) = 4096 * t3 + 256 * k2 + 16 * k1 + k0
    /\ Decode(a) - Decode(v) - 1 + carry = 1000 * t3 + 100 * k2 + 10 * k1 + k0
    /\ Digits2(a, v, carry) = 16 * t1 + k0
    /\ Digit(a, 0) + 10 * Digit(a, 1) - Digit(v, 0) - 10 * Digit(v, 1) - 1 + carry = 10 * t1 + k0

(* Subtracting digit by digit subtracts the numbers, modulo the limit.     *)
LEMMA DecimalDiffs ==
  ASSUME NEW a \in Word, NEW v \in Word, IsDecimal(a), IsDecimal(v), NEW carry \in {0, 1}
  PROVE  \E k0, k1, k2, t1, t3 \in Int : DiffOf(a, v, carry, k0, k1, k2, t1, t3)
<1> DEFINE a0 == Digit(a, 0) a1 == Digit(a, 1) a2 == Digit(a, 2) a3 == Digit(a, 3)
           v0 == Digit(v, 0) v1 == Digit(v, 1) v2 == Digit(v, 2) v3 == Digit(v, 3)
<1>1. /\ a0 \in Int /\ 0 <= a0 /\ a0 <= 9 /\ a1 \in Int /\ 0 <= a1 /\ a1 <= 9
      /\ a2 \in Int /\ 0 <= a2 /\ a2 <= 9 /\ a3 \in Int /\ 0 <= a3 /\ a3 <= 9
  BY DecimalDigits
<1>2. /\ v0 \in Int /\ 0 <= v0 /\ v0 <= 9 /\ v1 \in Int /\ 0 <= v1 /\ v1 <= 9
      /\ v2 \in Int /\ 0 <= v2 /\ v2 <= 9 /\ v3 \in Int /\ 0 <= v3 /\ v3 <= 9
  BY DecimalDigits
<1>3. \A low : /\ DigitDiff(a, v, 1, low) = (a0 - v0) * 1 + low
               /\ DigitDiff(a, v, 16, low) = (a1 - v1) * 16 + low
               /\ DigitDiff(a, v, 256, low) = (a2 - v2) * 256 + low
               /\ DigitDiff(a, v, 4096, low) = (a3 - v3) * 4096 + low
  BY DigitSums
<1>4. Decode(a) = a0 + 10 * a1 + 100 * a2 + 1000 * a3
  BY DEF Decode
<1>5. Decode(v) = v0 + 10 * v1 + 100 * v2 + 1000 * v3
  BY DEF Decode
<1> HIDE DEF a0, a1, a2, a3, v0, v1, v2, v3
<1> DEFINE t0 == a0 - v0 + carry - 1     k0 == Kept10(t0)  c0 == Borrow10(t0)
           t1 == a1 - v1 - c0        k1 == Kept10(t1)  c1 == Borrow10(t1)
           t2 == a2 - v2 - c1        k2 == Kept10(t2)  c2 == Borrow10(t2)
           t3 == a3 - v3 - c2
           s1 == k0 - 16 * c0
           s2 == (k1 - 16 * c1) * 16 + k0
           s3 == (k2 - 16 * c2) * 256 + (16 * k1 + k0)
<1>6. t0 \in Int /\ -10 <= t0 /\ t0 <= 9 /\ t0 = a0 - v0 + carry - 1
  BY <1>1, <1>2
<1> HIDE DEF t0
<1>7. k0 \in Int /\ 0 <= k0 /\ k0 <= 9 /\ c0 \in Int /\ 0 <= c0 /\ c0 <= 1 /\ t0 = k0 - 10 * c0
  BY <1>6, Decimals10
<1>8. BorrowDigit(DigitDiff(a, v, 1, carry - 1), 1) = s1
  <2>1. DigitDiff(a, v, 1, carry - 1) = t0
    BY <1>1, <1>2, <1>3, <1>6
  <2> QED BY <1>6, <2>1, BorrowedDigit
<1> HIDE DEF k0, c0
<1>9. t1 \in Int /\ -10 <= t1 /\ t1 <= 9 /\ t1 = a1 - v1 - c0
  BY <1>1, <1>2, <1>7
<1>10. DigitDiff(a, v, 16, s1) = t1 * 16 + k0
  BY <1>1, <1>2, <1>3, <1>7
<1> HIDE DEF t1, s1
<1>11. k1 \in Int /\ 0 <= k1 /\ k1 <= 9 /\ c1 \in Int /\ 0 <= c1 /\ c1 <= 1 /\ t1 = k1 - 10 * c1
  BY <1>9, Decimals10
<1>12. BorrowDigit(t1 * 16 + k0, 16) = s2
  BY <1>7, <1>9, BorrowedDigit
<1> HIDE DEF k1, c1
<1>13. t2 \in Int /\ -10 <= t2 /\ t2 <= 9 /\ t2 = a2 - v2 - c1
  BY <1>1, <1>2, <1>11
<1>14. DigitDiff(a, v, 256, s2) = t2 * 256 + (16 * k1 + k0)
  BY <1>1, <1>2, <1>3, <1>7, <1>11
<1> HIDE DEF t2, s2
<1>15. k2 \in Int /\ 0 <= k2 /\ k2 <= 9 /\ c2 \in Int /\ 0 <= c2 /\ c2 <= 1 /\ t2 = k2 - 10 * c2
  BY <1>13, Decimals10
<1>16. BorrowDigit(t2 * 256 + (16 * k1 + k0), 256) = s3
  <2>1. 16 * k1 + k0 \in Int /\ 0 <= 16 * k1 + k0 /\ 16 * k1 + k0 < 256
    BY <1>7, <1>11
  <2> QED BY <1>13, <2>1, BorrowedDigit
<1> HIDE DEF k2, c2
<1>17. t3 \in Int /\ -10 <= t3 /\ t3 <= 9 /\ t3 = a3 - v3 - c2
  BY <1>1, <1>2, <1>15
<1>18. DigitDiff(a, v, 4096, s3) = 4096 * t3 + 256 * k2 + 16 * k1 + k0
  BY <1>1, <1>2, <1>3, <1>7, <1>11, <1>15
<1> HIDE DEF t3, s3
<1>19. Digits4(a, v, carry) = DigitDiff(a, v, 4096, s3)
  <2>1. BorrowDigit(DigitDiff(a, v, 16, s1), 16) = s2
    BY <1>10, <1>12
  <2>2. BorrowDigit(DigitDiff(a, v, 256, s2), 256) = s3
    BY <1>14, <1>16
  <2> QED BY <1>8, <2>1, <2>2 DEF Digits4
<1>20. Digits2(a, v, carry) = 16 * t1 + k0
  <2>1. Digits2(a, v, carry) = t1 * 16 + k0
    BY <1>8, <1>10, Zenon DEF Digits2
  <2> QED BY <2>1, <1>7, <1>9
<1>21. Decode(a) - Decode(v) - 1 + carry = 1000 * t3 + 100 * k2 + 10 * k1 + k0
  BY <1>1, <1>2, <1>4, <1>5, <1>6, <1>7, <1>9, <1>11, <1>13, <1>15, <1>17
<1>22. a0 + 10 * a1 - v0 - 10 * v1 - 1 + carry = 10 * t1 + k0
  BY <1>1, <1>2, <1>6, <1>7, <1>9
<1>23. Digit(a, 0) + 10 * Digit(a, 1) - Digit(v, 0) - 10 * Digit(v, 1) - 1 + carry = 10 * t1 + k0
  BY <1>22 DEF a0, a1, v0, v1
<1>24. /\ Digits4(a, v, carry) = 4096 * t3 + 256 * k2 + 16 * k1 + k0
  BY <1>18, <1>19
<1>25. /\ k0 \in Int /\ k1 \in Int /\ k2 \in Int /\ t1 \in Int /\ t3 \in Int
       /\ 0 <= k0 /\ k0 <= 9 /\ 0 <= k1 /\ k1 <= 9 /\ 0 <= k2 /\ k2 <= 9
       /\ -10 <= t1 /\ t1 <= 9 /\ -10 <= t3 /\ t3 <= 9
  BY <1>7, <1>9, <1>11, <1>15, <1>17
<1>26. DiffOf(a, v, carry, k0, k1, k2, t1, t3)
  BY <1>20, <1>21, <1>23, <1>24, <1>25 DEF DiffOf
<1> QED BY <1>25, <1>26

(* r is the packed-decimal form of value, modulo limit. *)
Packs(r, value, limit) == r \in Word /\ IsDecimal(r) /\ Decode(r) = value % limit

(* Four digits with the last correction. *)
LastDigit(part) == IF part >= 40960 THEN part + 24576 ELSE part

LEMMA DigitsOfDecimal ==
  ASSUME NEW k0 \in Int, NEW k1 \in Int, NEW k2 \in Int, NEW k3 \in Int,
         0 <= k0, k0 <= 9, 0 <= k1, k1 <= 9, 0 <= k2, k2 <= 9, 0 <= k3, k3 <= 9
  PROVE  /\ FourDigits(k0, k1, k2, k3) \in Word
         /\ IsDecimal(FourDigits(k0, k1, k2, k3))
         /\ Decode(FourDigits(k0, k1, k2, k3)) = k0 + 10 * k1 + 100 * k2 + 1000 * k3
<1> DEFINE r == FourDigits(k0, k1, k2, k3)
<1>1. r \in Word /\ Digit(r, 0) = k0 /\ Digit(r, 1) = k1 /\ Digit(r, 2) = k2 /\ Digit(r, 3) = k3
  BY DigitsOfFour
<1> HIDE DEF r
<1>2. \A k \in 0 .. 3 : k = 0 \/ k = 1 \/ k = 2 \/ k = 3
  OBVIOUS
<1>3. IsDecimal(r)
  BY <1>1, <1>2 DEF IsDecimal
<1>4. Decode(r) = k0 + 10 * k1 + 100 * k2 + 1000 * k3
  BY <1>1 DEF Decode
<1> QED BY <1>1, <1>3, <1>4 DEF r

(* Four digits: the sum and the difference.                                *)
LEMMA WideSum ==
  ASSUME NEW a \in Word, NEW v \in Word, IsDecimal(a), IsDecimal(v), NEW carry \in {0, 1}
  PROVE  /\ LastDigit(AddDigits16(a, v, carry)) >= 65536 <=> Decode(a) + Decode(v) + carry >= 10000
         /\ Packs(LastDigit(AddDigits16(a, v, carry)) % 65536, Decode(a) + Decode(v) + carry, 10000)
<1>1. PICK k0, k1, k2, t1, t3 \in Int : SumOf(a, v, carry, k0, k1, k2, t1, t3)
  BY DecimalSums
<1> DEFINE total == Decode(a) + Decode(v) + carry
           part == AddDigits16(a, v, carry)
           sum == LastDigit(part)
           k3 == Kept10(t3)
<1>2. /\ 0 <= k0 /\ k0 <= 9 /\ 0 <= k1 /\ k1 <= 9 /\ 0 <= k2 /\ k2 <= 9 /\ 0 <= t3 /\ t3 <= 19
      /\ part = 4096 * t3 + 256 * k2 + 16 * k1 + k0
      /\ total = 1000 * t3 + 100 * k2 + 10 * k1 + k0
  BY <1>1 DEF SumOf
<1> HIDE DEF total, part
<1>6. sum = IF part >= 40960 THEN part + 24576 ELSE part
  BY DEF LastDigit
<1> HIDE DEF sum
<1>3. k3 \in Int /\ 0 <= k3 /\ k3 <= 9
  BY <1>2 DEF Kept10
<1>7. /\ FourDigits(k0, k1, k2, k3) \in Word /\ IsDecimal(FourDigits(k0, k1, k2, k3))
      /\ Decode(FourDigits(k0, k1, k2, k3)) = k0 + 10 * k1 + 100 * k2 + 1000 * k3
  <2> HIDE DEF k3
  <2> QED BY <1>2, <1>3, DigitsOfDecimal
<1>4. CASE t3 >= 10
  <2>1. sum = 65536 + (4096 * (t3 - 10) + 256 * k2 + 16 * k1 + k0)
    BY <1>2, <1>4, <1>6
  <2>2. k3 = t3 - 10
    BY <1>4 DEF Kept10
  <2>3. sum % 65536 = 4096 * (t3 - 10) + 256 * k2 + 16 * k1 + k0
    BY <1>2, <1>4, <2>1
  <2>4. total >= 10000
    BY <1>2, <1>4
  <2>5. total % 10000 = 1000 * (t3 - 10) + 100 * k2 + 10 * k1 + k0
    BY <1>2, <1>4
  <2>6. sum >= 65536
    BY <1>2, <1>4, <2>1
  <2>7. sum % 65536 = FourDigits(k0, k1, k2, k3)
    BY <1>2, <2>2, <2>3 DEF FourDigits
  <2>8. Packs(sum % 65536, total, 10000)
    <3>1. Decode(sum % 65536) = total % 10000
      BY <1>2, <1>3, <1>7, <2>2, <2>5, <2>7
    <3> QED BY <3>1, <1>7, <2>7 DEF Packs
  <2> QED BY <2>4, <2>6, <2>8 DEF total, part, sum
<1>5. CASE t3 < 10
  <2>1. sum = 4096 * t3 + 256 * k2 + 16 * k1 + k0
    BY <1>2, <1>5, <1>6
  <2>2. k3 = t3
    BY <1>2, <1>5 DEF Kept10
  <2>3. sum % 65536 = sum
    BY <1>2, <1>5, <2>1
  <2>4. ~(total >= 10000)
    BY <1>2, <1>5
  <2>5. total % 10000 = 1000 * t3 + 100 * k2 + 10 * k1 + k0
    BY <1>2, <1>5
  <2>6. ~(sum >= 65536)
    BY <1>2, <1>5, <2>1
  <2>7. sum % 65536 = FourDigits(k0, k1, k2, k3)
    BY <1>2, <2>1, <2>2, <2>3 DEF FourDigits
  <2>8. Packs(sum % 65536, total, 10000)
    <3>1. Decode(sum % 65536) = total % 10000
      BY <1>2, <1>3, <1>7, <2>2, <2>5, <2>7
    <3> QED BY <3>1, <1>7, <2>7 DEF Packs
  <2> QED BY <2>4, <2>6, <2>8 DEF total, part, sum
<1> QED BY <1>4, <1>5

LEMMA WideDiff ==
  ASSUME NEW a \in Word, NEW v \in Word, IsDecimal(a), IsDecimal(v), NEW carry \in {0, 1}
  PROVE  Packs(SubDigits16(a, v, carry), Decode(a) - Decode(v) - 1 + carry, 10000)
<1>1. PICK k0, k1, k2, t1, t3 \in Int : DiffOf(a, v, carry, k0, k1, k2, t1, t3)
  BY DecimalDiffs
<1> DEFINE total == Decode(a) - Decode(v) - 1 + carry
           s4 == Digits4(a, v, carry)
           k3 == Kept10(t3)
           r == SubDigits16(a, v, carry)
<1>2. /\ 0 <= k0 /\ k0 <= 9 /\ 0 <= k1 /\ k1 <= 9 /\ 0 <= k2 /\ k2 <= 9 /\ -10 <= t3 /\ t3 <= 9
      /\ s4 = 4096 * t3 + 256 * k2 + 16 * k1 + k0
      /\ total = 1000 * t3 + 100 * k2 + 10 * k1 + k0
  BY <1>1 DEF DiffOf
<1>3. r = (IF s4 < 0 THEN s4 - 24576 ELSE s4) % 65536
  BY DEF SubDigits16, Digits4
<1> HIDE DEF total, s4, r
<1>4. k3 \in Int /\ 0 <= k3 /\ k3 <= 9
  BY <1>2 DEF Kept10
<1>5. r = 4096 * k3 + 256 * k2 + 16 * k1 + k0
  <2>1. CASE t3 < 0
    <3>1. s4 < 0 /\ k3 = t3 + 10
      BY <1>2, <2>1 DEF Kept10
    <3>2. s4 - 24576 = (4096 * k3 + 256 * k2 + 16 * k1 + k0) - 65536
      BY <1>2, <3>1
    <3> HIDE DEF k3
    <3> QED BY <1>2, <1>3, <1>4, <3>1, <3>2
  <2>2. CASE t3 >= 0
    <3>1. ~(s4 < 0) /\ k3 = t3
      BY <1>2, <2>2 DEF Kept10
    <3> HIDE DEF k3
    <3> QED BY <1>2, <1>3, <1>4, <3>1
  <2> QED BY <2>1, <2>2
<1>6. total % 10000 = 1000 * k3 + 100 * k2 + 10 * k1 + k0
  <2>1. CASE t3 < 0
    <3>1. k3 = t3 + 10
      BY <1>2, <2>1 DEF Kept10
    <3> HIDE DEF k3
    <3> QED BY <1>2, <1>4, <3>1
  <2>2. CASE t3 >= 0
    <3>1. k3 = t3
      BY <1>2, <2>2 DEF Kept10
    <3> HIDE DEF k3
    <3> QED BY <1>2, <1>4, <3>1
  <2> QED BY <2>1, <2>2
<1> HIDE DEF k3
<1>7. r = FourDigits(k0, k1, k2, k3)
  BY <1>2, <1>4, <1>5 DEF FourDigits
<1>8. Packs(r, total, 10000)
  <2>1. /\ FourDigits(k0, k1, k2, k3) \in Word /\ IsDecimal(FourDigits(k0, k1, k2, k3))
        /\ Decode(FourDigits(k0, k1, k2, k3)) = k0 + 10 * k1 + 100 * k2 + 1000 * k3
    BY <1>2, <1>4, DigitsOfDecimal
  <2>2. Decode(r) = total % 10000
    BY <1>2, <1>4, <1>6, <1>7, <2>1
  <2> QED BY <2>1, <2>2, <1>7 DEF Packs
<1> QED BY <1>8 DEF r, total

(* Two digits: a byte is decoded by its own two digits.                    *)
LEMMA BytesAreWords == ASSUME NEW v \in Byte PROVE v \in Word
  BY Ranges, SMT

LEMMA DecodeByte ==
  ASSUME NEW v \in Byte, IsDecimal(v)
  PROVE  /\ Decode(v) = Digit(v, 0) + 10 * Digit(v, 1)
         /\ Digit(v, 2) = 0 /\ Digit(v, 3) = 0
<1>1. v \in Int /\ 0 <= v /\ v < 256
  BY Ranges, SMT
<1>2. v \div 256 = 0 /\ v \div 4096 = 0
  BY <1>1
<1>3. Digit(v, 2) = 0 % 16 /\ Digit(v, 3) = 0 % 16
  BY <1>2, Sixteens DEF Digit
<1>4. Digit(v, 2) = 0 /\ Digit(v, 3) = 0
  BY <1>3
<1>5. Digit(v, 0) \in Int /\ Digit(v, 1) \in Int
  BY BytesAreWords, DecimalDigits
<1> QED BY <1>4, <1>5 DEF Decode

LEMMA TwoDigitsDecimal ==
  ASSUME NEW k0 \in Int, NEW k1 \in Int, 0 <= k0, k0 <= 9, 0 <= k1, k1 <= 9
  PROVE  /\ 16 * k1 + k0 \in Byte /\ IsDecimal(16 * k1 + k0)
         /\ Decode(16 * k1 + k0) = k0 + 10 * k1
<1>1. FourDigits(k0, k1, 0, 0) = 16 * k1 + k0
  BY DEF FourDigits
<1>2. /\ IsDecimal(FourDigits(k0, k1, 0, 0))
      /\ Decode(FourDigits(k0, k1, 0, 0)) = k0 + 10 * k1 + 100 * 0 + 1000 * 0
  BY DigitsOfDecimal
<1>3. 16 * k1 + k0 \in Int /\ 0 <= 16 * k1 + k0 /\ 16 * k1 + k0 < 256
  OBVIOUS
<1>4. 16 * k1 + k0 \in Byte
  BY <1>3, Ranges
<1> QED BY <1>1, <1>2, <1>4

(* Two digits: the sum and the difference.                                 *)
LEMMA NarrowSum ==
  ASSUME NEW a \in Byte, NEW v \in Byte, IsDecimal(a), IsDecimal(v), NEW carry \in {0, 1}
  PROVE  /\ DecimalSum8(a, v, carry) >= 256 <=> Decode(a) + Decode(v) + carry >= 100
         /\ DecimalSum8(a, v, carry) % 256 \in Byte
         /\ Packs(DecimalSum8(a, v, carry) % 256, Decode(a) + Decode(v) + carry, 100)
<1> DEFINE total == Decode(a) + Decode(v) + carry
           part == PartialSum8(a, v, carry)
           sum == DecimalSum8(a, v, carry)
<1>1. a \in Word /\ v \in Word
  BY BytesAreWords
<1>2. PICK k0, k1, k2, t1, t3 \in Int : SumOf(a, v, carry, k0, k1, k2, t1, t3)
  BY <1>1, DecimalSums
<1> DEFINE j1 == Kept10(t1)
<1>3. total = Digit(a, 0) + 10 * Digit(a, 1) + Digit(v, 0) + 10 * Digit(v, 1) + carry
  <2>1. /\ Digit(a, 0) \in Int /\ Digit(a, 1) \in Int /\ Digit(v, 0) \in Int /\ Digit(v, 1) \in Int
    BY <1>1, DecimalDigits
  <2> QED BY <2>1, DecodeByte
<1>4. /\ 0 <= k0 /\ k0 <= 9 /\ 0 <= t1 /\ t1 <= 19 /\ part = 16 * t1 + k0 /\ total = 10 * t1 + k0
  BY <1>2, <1>3 DEF SumOf
<1>5. sum = IF part >= 160 THEN part + 96 ELSE part
  BY DEF DecimalSum8
<1> HIDE DEF total, part, sum
<1>6. j1 \in Int /\ 0 <= j1 /\ j1 <= 9
  BY <1>4 DEF Kept10
<1>7. /\ sum % 256 = 16 * j1 + k0 /\ total % 100 = 10 * j1 + k0
      /\ (sum >= 256 <=> total >= 100)
  <2>1. CASE t1 >= 10
    <3>1. j1 = t1 - 10
      BY <2>1 DEF Kept10
    <3>2. sum = 256 + (16 * j1 + k0) /\ total = 100 + (10 * j1 + k0)
      BY <1>4, <1>5, <2>1, <3>1
    <3> HIDE DEF j1
    <3>3. sum % 256 = 16 * j1 + k0
      BY <1>4, <1>6, <3>2
    <3>4. total % 100 = 10 * j1 + k0
      BY <1>4, <1>6, <3>2
    <3> QED BY <1>4, <1>6, <3>2, <3>3, <3>4
  <2>2. CASE t1 < 10
    <3>1. j1 = t1
      BY <1>4, <2>2 DEF Kept10
    <3>2. sum = 16 * j1 + k0 /\ total = 10 * j1 + k0
      BY <1>4, <1>5, <2>2, <3>1
    <3> HIDE DEF j1
    <3>3. sum % 256 = 16 * j1 + k0
      BY <1>4, <1>6, <3>2
    <3>4. total % 100 = 10 * j1 + k0
      BY <1>4, <1>6, <3>2
    <3> QED BY <1>4, <1>6, <3>2, <3>3, <3>4
  <2> QED BY <1>4, <2>1, <2>2
<1> HIDE DEF j1
<1>8. sum % 256 \in Byte /\ IsDecimal(sum % 256) /\ Decode(sum % 256) = k0 + 10 * j1
  <2>1. /\ 16 * j1 + k0 \in Byte /\ IsDecimal(16 * j1 + k0)
        /\ Decode(16 * j1 + k0) = k0 + 10 * j1
    BY <1>4, <1>6, TwoDigitsDecimal
  <2>2. sum % 256 = 16 * j1 + k0
    BY <1>7
  <2> QED BY <2>1, <2>2, Zenon
<1>9. Decode(sum % 256) = total % 100
  BY <1>4, <1>6, <1>7, <1>8
<1>10. Packs(sum % 256, total, 100)
  BY <1>8, <1>9, BytesAreWords DEF Packs
<1> QED BY <1>7, <1>8, <1>10 DEF sum, total

LEMMA NarrowDiff ==
  ASSUME NEW a \in Byte, NEW v \in Byte, IsDecimal(a), IsDecimal(v), NEW carry \in {0, 1}
  PROVE  /\ DecimalDiff8(a, v, carry) \in Byte
         /\ Packs(DecimalDiff8(a, v, carry), Decode(a) - Decode(v) - 1 + carry, 100)
         /\ a + (255 - v) + carry >= 256 <=> Decode(a) - Decode(v) - 1 + carry >= 0
<1> DEFINE total == Decode(a) - Decode(v) - 1 + carry
           part == Digits2(a, v, carry)
           r == DecimalDiff8(a, v, carry)
           a0 == Digit(a, 0) a1 == Digit(a, 1) v0 == Digit(v, 0) v1 == Digit(v, 1)
<1>1. a \in Word /\ v \in Word
  BY BytesAreWords
<1>2. PICK k0, k1, k2, t1, t3 \in Int : DiffOf(a, v, carry, k0, k1, k2, t1, t3)
  BY <1>1, DecimalDiffs
<1> DEFINE j1 == Kept10(t1)
<1>a. /\ a0 \in Int /\ 0 <= a0 /\ a0 <= 9 /\ a1 \in Int /\ 0 <= a1 /\ a1 <= 9
      /\ v0 \in Int /\ 0 <= v0 /\ v0 <= 9 /\ v1 \in Int /\ 0 <= v1 /\ v1 <= 9
  BY <1>1, DecimalDigits
<1>b. Decode(a) = a0 + 10 * a1 /\ Decode(v) = v0 + 10 * v1
  BY DecodeByte
<1>3. total = a0 + 10 * a1 - v0 - 10 * v1 - 1 + carry
  <2> HIDE DEF a0, a1, v0, v1
  <2> QED BY <1>a, <1>b
<1>4. /\ 0 <= k0 /\ k0 <= 9 /\ -10 <= t1 /\ t1 <= 9 /\ part = 16 * t1 + k0 /\ total = 10 * t1 + k0
  BY <1>2, <1>3 DEF DiffOf
<1>5. r = (IF part < 0 THEN part - 96 ELSE part) % 256
  BY DEF DecimalDiff8, Digits2
<1>c. a = 16 * a1 + a0 /\ v = 16 * v1 + v0
  <2>1. Digit(a, 2) = 0 /\ Digit(a, 3) = 0 /\ Digit(v, 2) = 0 /\ Digit(v, 3) = 0
    BY DecodeByte
  <2>2. /\ a = FourDigits(a0, a1, Digit(a, 2), Digit(a, 3))
        /\ v = FourDigits(v0, v1, Digit(v, 2), Digit(v, 3))
    BY <1>1, DigitsOfWord
  <2> HIDE DEF a0, a1, v0, v1
  <2> QED BY <1>a, <2>1, <2>2 DEF FourDigits
<1> HIDE DEF total, part, r, a0, a1, v0, v1
<1>6. j1 \in Int /\ 0 <= j1 /\ j1 <= 9
  BY <1>4 DEF Kept10
<1>7. r = 16 * j1 + k0 /\ total % 100 = 10 * j1 + k0
  <2>1. CASE t1 < 0
    <3>1. j1 = t1 + 10
      BY <2>1 DEF Kept10
    <3>2. part < 0 /\ part - 96 = (16 * j1 + k0) - 256 /\ total = (10 * j1 + k0) - 100
      BY <1>4, <2>1, <3>1
    <3> HIDE DEF j1
    <3>3. r = 16 * j1 + k0
      BY <1>4, <1>5, <1>6, <3>2
    <3>4. total % 100 = 10 * j1 + k0
      BY <1>4, <1>6, <3>2
    <3> QED BY <3>3, <3>4
  <2>2. CASE t1 >= 0
    <3>1. j1 = t1
      BY <1>4, <2>2 DEF Kept10
    <3>2. ~(part < 0) /\ part = 16 * j1 + k0 /\ total = 10 * j1 + k0
      BY <1>4, <2>2, <3>1
    <3> HIDE DEF j1
    <3>3. r = 16 * j1 + k0
      BY <1>4, <1>5, <1>6, <3>2
    <3>4. total % 100 = 10 * j1 + k0
      BY <1>4, <1>6, <3>2
    <3> QED BY <3>3, <3>4
  <2> QED BY <1>4, <2>1, <2>2
<1> HIDE DEF j1
<1>8. r \in Byte /\ IsDecimal(r) /\ Decode(r) = k0 + 10 * j1
  BY <1>4, <1>6, <1>7, TwoDigitsDecimal
<1>9. Decode(r) = total % 100
  BY <1>4, <1>6, <1>7, <1>8
<1>10. Packs(r, total, 100)
  BY <1>8, <1>9, BytesAreWords DEF Packs
<1>11. a + (255 - v) + carry >= 256 <=> total >= 0
  BY <1>a, <1>c, <1>3
<1> QED BY <1>8, <1>10, <1>11 DEF r, total

(* Four digits: what is left of C by a subtraction.                        *)
LEMMA WideBorrow ==
  ASSUME NEW a \in Word, NEW v \in Word, IsDecimal(a), IsDecimal(v), NEW carry \in {0, 1}
  PROVE  a + (65535 - v) + carry >= 65536 <=> Decode(a) - Decode(v) - 1 + carry >= 0
<1> DEFINE a0 == Digit(a, 0) a1 == Digit(a, 1) a2 == Digit(a, 2) a3 == Digit(a, 3)
           v0 == Digit(v, 0) v1 == Digit(v, 1) v2 == Digit(v, 2) v3 == Digit(v, 3)
<1>1. /\ a0 \in Int /\ 0 <= a0 /\ a0 <= 9 /\ a1 \in Int /\ 0 <= a1 /\ a1 <= 9
      /\ a2 \in Int /\ 0 <= a2 /\ a2 <= 9 /\ a3 \in Int /\ 0 <= a3 /\ a3 <= 9
  BY DecimalDigits
<1>2. /\ v0 \in Int /\ 0 <= v0 /\ v0 <= 9 /\ v1 \in Int /\ 0 <= v1 /\ v1 <= 9
      /\ v2 \in Int /\ 0 <= v2 /\ v2 <= 9 /\ v3 \in Int /\ 0 <= v3 /\ v3 <= 9
  BY DecimalDigits
<1>3. Decode(a) = a0 + 10 * a1 + 100 * a2 + 1000 * a3
  BY DEF Decode
<1>4. Decode(v) = v0 + 10 * v1 + 100 * v2 + 1000 * v3
  BY DEF Decode
<1>5. a = FourDigits(a0, a1, a2, a3)
  BY DigitsOfWord
<1>6. v = FourDigits(v0, v1, v2, v3)
  BY DigitsOfWord
<1> HIDE DEF a0, a1, a2, a3, v0, v1, v2, v3
<1>7. a = a0 + 16 * a1 + 256 * a2 + 4096 * a3 /\ v = v0 + 16 * v1 + 256 * v2 + 4096 * v3
  BY <1>5, <1>6 DEF FourDigits
<1> QED BY <1>1, <1>2, <1>3, <1>4, <1>7

-------------------------------------------------------------------------------
(* Decimal arithmetic: what the instructions of each variant leave in the  *)
(* accumulator and in C.                                                   *)

(* The carry as a number, and the register an instruction loads.           *)
LEMMA CarryOfFlags ==
  ASSUME NEW c \in Processor
  PROVE  /\ \A v, bits : FlagC \in SetZN(c, v, bits).p <=> FlagC \in c.p
         /\ \A a, v, sum, bits : FlagC \in SetCV(c, a, v, sum, bits).p <=> sum >= 2 ^ bits
  BY FlagValues DEF SetZN, SetCV, On, Processor, Processors, FlagC, FlagZ, FlagN, FlagV

LEMMA CarryInType == \A c : CarryIn(c) \in {0, 1}
  BY DEF CarryIn

LEMMA LoadedA ==
  ASSUME NEW c \in Processor, NEW v \in Byte
  PROVE  /\ LoadA(c, v).a = v
         /\ FlagC \in LoadA(c, v).p <=> FlagC \in c.p
<1> DEFINE d == [c EXCEPT !.a = v]
<1>1. d \in Processor /\ d.a = v /\ d.p = c.p
  BY Assigning DEF Typed, Processor, Processors
<1> HIDE DEF d
<1>2. SetZN(d, v, 8).a = d.a
  BY <1>1 DEF SetZN, Processor, Processors
<1> QED BY <1>1, <1>2, CarryOfFlags DEF LoadA, d

LEMMA LoadedAcc ==
  ASSUME NEW c \in Processor, NEW v \in Word
  PROVE  /\ MWide(c) => Pair(LoadAcc(c, v).a, LoadAcc(c, v).b) = v
         /\ ~MWide(c) /\ v \in Byte => LoadAcc(c, v).a = v
         /\ FlagC \in LoadAcc(c, v).p <=> FlagC \in c.p
<1> DEFINE d == [c EXCEPT !.a = Lo(v)]
           e == [d EXCEPT !.b = Hi(v)]
<1>1. v \in Int /\ Lo(v) \in Byte /\ Hi(v) \in Byte
  BY LoHiType, Ranges
<1>2. d \in Processor /\ d.a = Lo(v) /\ d.p = c.p
  BY <1>1, Assigning DEF Typed, Processor, Processors
<1>3. SetA16(c, v) = e
  BY DEF SetA16
<1> HIDE DEF d
<1>4. e \in Processor /\ e.a = Lo(v) /\ e.b = Hi(v) /\ e.p = c.p
  BY <1>1, <1>2, Assigning DEF Typed, Processor, Processors
<1> HIDE DEF e
<1>5. /\ SetZN(e, v, 16).a = e.a /\ SetZN(e, v, 16).b = e.b
      /\ SetZN(d, Lo(v), 8).a = d.a
  BY <1>2, <1>4 DEF SetZN, Processor, Processors
<1>6. CASE MWide(c)
  <2>1. LoadAcc(c, v) = SetZN(e, v, 16)
    BY <1>3, <1>6 DEF LoadAcc
  <2> QED BY <1>4, <1>5, <1>6, <2>1, CarryOfFlags, PairOfHalves
<1>7. CASE ~MWide(c)
  <2>1. LoadAcc(c, v) = SetZN(d, Lo(v), 8)
    BY <1>7 DEF LoadAcc, d
  <2> QED BY <1>2, <1>5, <1>7, <2>1, CarryOfFlags, LoHiOfByte
<1> QED BY <1>6, <1>7

(* What decimal arithmetic makes of the accumulator r and of C. *)
DecimalAdc(r, d, a, v, carry, limit) ==
  /\ Packs(r, Decode(a) + Decode(v) + carry, limit)
  /\ FlagC \in d.p <=> Decode(a) + Decode(v) + carry >= limit

DecimalSbc(r, d, a, v, carry, limit) ==
  /\ Packs(r, Decode(a) - Decode(v) - 1 + carry, limit)
  /\ FlagC \in d.p <=> Decode(a) - Decode(v) - 1 + carry >= 0

(* A 6502 and a 65C02 add and subtract two digits.                         *)
LEMMA AddsDecimally ==
  ASSUME NEW c \in Processor, NEW v \in Byte, IsDecimal(c.a), IsDecimal(v)
  PROVE  /\ DecimalAdc(AdcDecimal(c, v).a, AdcDecimal(c, v), c.a, v, CarryIn(c), 100)
         /\ DecimalAdc(AdcDecimalCMOS(c, v).a, AdcDecimalCMOS(c, v), c.a, v, CarryIn(c), 100)
<1> DEFINE sum == DecimalSum8(c.a, v, CarryIn(c))
           total == Decode(c.a) + Decode(v) + CarryIn(c)
<1>1. /\ sum >= 256 <=> total >= 100
      /\ sum % 256 \in Byte /\ Packs(sum % 256, total, 100)
  BY NarrowSum, CarryInType, Fields
<1>2. AdcDecimal(c, v).a = sum % 256 /\ (FlagC \in AdcDecimal(c, v).p <=> sum >= 256)
  <2> HIDE DEF sum, total
  <2> QED BY DEF AdcDecimal, Processor, Processors, On, FlagC, FlagN, FlagV, FlagZ, sum
<1>3. AdcDecimalCMOS(c, v).a = sum % 256 /\ (FlagC \in AdcDecimalCMOS(c, v).p <=> sum >= 256)
  <2> DEFINE flags == (c.p \ {FlagV, FlagC})
                   \cup On(FlagV, Overflow(c.a, v, PartialSum8(c.a, v, CarryIn(c)), 8))
                   \cup On(FlagC, sum >= 256)
             f == [c EXCEPT !.p = flags]
  <2>1. flags \in SUBSET Flags /\ (FlagC \in flags <=> sum >= 256)
    BY Fields, FlagValues DEF On, FlagC, FlagV
  <2>2. AdcDecimalCMOS(c, v) = LoadA(f, sum % 256)
    BY DEF AdcDecimalCMOS
  <2> HIDE DEF flags
  <2>3. f \in Processor /\ f.p = flags
    BY <2>1, Assigning DEF Typed, Processor, Processors
  <2> HIDE DEF f, sum
  <2> QED BY <1>1, <2>1, <2>2, <2>3, LoadedA
<1> HIDE DEF sum, total
<1> QED BY <1>1, <1>2, <1>3 DEF DecimalAdc, total

LEMMA SubtractsDecimally ==
  ASSUME NEW c \in Processor, NEW v \in Byte, IsDecimal(c.a), IsDecimal(v)
  PROVE  /\ DecimalSbc(SbcDecimal(c, v).a, SbcDecimal(c, v), c.a, v, CarryIn(c), 100)
         /\ DecimalSbc(SbcDecimalCMOS(c, v).a, SbcDecimalCMOS(c, v), c.a, v, CarryIn(c), 100)
<1> DEFINE r == DecimalDiff8(c.a, v, CarryIn(c))
           total == Decode(c.a) - Decode(v) - 1 + CarryIn(c)
           w == Complement(v, 8)
           sum == c.a + w + CarryIn(c)
           f == SetCV(c, c.a, w, sum, 8)
           b == SubBinary(c, v)
<1>1. /\ c.a + (255 - v) + CarryIn(c) >= 256 <=> total >= 0
      /\ r \in Byte /\ Packs(r, total, 100)
  BY NarrowDiff, CarryInType, Fields
<1>2. c.a \in Int /\ v \in Int /\ CarryIn(c) \in Int /\ 2 ^ 8 = 256
  BY Fields, Ranges, CarryInType, Powers
<1>3. sum \in Int /\ sum = c.a + (255 - v) + CarryIn(c)
  BY <1>2 DEF Complement
<1>4. b = LoadA(f, sum % 256)
  BY DEF SubBinary, AddBinary
<1>5. f \in Processor /\ (FlagC \in f.p <=> total >= 0)
  <2>1. f \in Processor
    BY SettingCV, CalmIsTyped
  <2>2. FlagC \in f.p <=> sum >= 2 ^ 8
    BY CarryOfFlags
  <2> HIDE DEF f, sum
  <2> QED BY <1>1, <1>2, <1>3, <2>1, <2>2
<1> HIDE DEF f
<1>6. b \in Processor /\ (FlagC \in b.p <=> total >= 0)
  <2>1. sum % 256 \in Byte
    BY <1>3, Wraps
  <2> HIDE DEF b, sum, total
  <2>2. Calm(f, LoadA(f, sum % 256)) /\ (FlagC \in LoadA(f, sum % 256).p <=> FlagC \in f.p)
    BY <1>5, <2>1, Loading, LoadedA
  <2> QED BY <1>4, <1>5, <2>2, CalmIsTyped
<1>7. SbcDecimal(c, v) = [b EXCEPT !.a = r] /\ SbcDecimalCMOS(c, v) = LoadA(b, r)
  BY DEF SbcDecimal, SbcDecimalCMOS
<1> HIDE DEF b, sum, total, r
<1>8. [b EXCEPT !.a = r].a = r /\ [b EXCEPT !.a = r].p = b.p
  BY <1>6 DEF Processor, Processors
<1>9. LoadA(b, r).a = r /\ (FlagC \in LoadA(b, r).p <=> total >= 0)
  BY <1>1, <1>6, LoadedA
<1> QED BY <1>1, <1>6, <1>7, <1>8, <1>9 DEF DecimalSbc, total

LEMMA Calculating6502 ==
  ASSUME NEW c \in Processor, NEW v \in Byte, Decimal(c), IsDecimal(c.a), IsDecimal(v)
  PROVE  /\ DecimalAdc(Adc(c, v).a, Adc(c, v), c.a, v, CarryIn(c), 100)
         /\ DecimalSbc(Sbc(c, v).a, Sbc(c, v), c.a, v, CarryIn(c), 100)
  BY AddsDecimally, SubtractsDecimally DEF Adc, Sbc

(* The accumulator of a 65816 at its width. *)
Result(d, c) == IF MWide(c) THEN Pair(d.a, d.b) ELSE d.a

(* A 65816 adds and subtracts two or four.                                 *)
LEMMA LoadedResult ==
  ASSUME NEW c \in Processor, NEW v \in Word, MWide(c) \/ v \in Byte
  PROVE  /\ Result(LoadAcc(c, v), c) = v
         /\ FlagC \in LoadAcc(c, v).p <=> FlagC \in c.p
  BY LoadedAcc DEF Result

LEMMA AddsDecimally816 ==
  ASSUME NEW c \in Processor, NEW v \in Word, MWide(c) \/ v \in Byte,
         FlagD \in c.p, IsDecimal(Acc(c)), IsDecimal(v)
  PROVE  DecimalAdc(Result(Adc816(c, v), c), Adc816(c, v), Acc(c), v, CarryIn(c),
                    IF MWide(c) THEN 10000 ELSE 100)
<1> DEFINE n == AccBits(c)
           part == IF n = 16 THEN AddDigits16(Acc(c), v, CarryIn(c))
                   ELSE PartialSum8(Acc(c), v, CarryIn(c))
           sum == IF part >= 10 * 2 ^ (n - 4) THEN part + 6 * 2 ^ (n - 4) ELSE part
           r == sum % (2 ^ n)
           total == Decode(Acc(c)) + Decode(v) + CarryIn(c)
           limit == IF MWide(c) THEN 10000 ELSE 100
           flags == (c.p \ {FlagC, FlagV}) \cup On(FlagC, sum >= 2 ^ n)
                      \cup On(FlagV, Overflow(Acc(c), v, part, n))
           f == [c EXCEPT !.p = flags]
<1>1. /\ r \in Word /\ (MWide(c) \/ r \in Byte)
      /\ Packs(r, total, limit) /\ (sum >= 2 ^ n <=> total >= limit)
  <2>1. CASE MWide(c)
    <3>1. n = 16 /\ 2 ^ n = 65536
      BY <2>1, Widths
    <3>2. 10 * 2 ^ (n - 4) = 40960 /\ 6 * 2 ^ (n - 4) = 24576
      BY <3>1, Powers
    <3>3. sum = LastDigit(AddDigits16(Acc(c), v, CarryIn(c)))
      <4> HIDE DEF n
      <4> QED BY <3>1, <3>2 DEF LastDigit
    <3>4. Acc(c) \in Word
      BY ValueTypes
    <3> HIDE DEF n, sum
    <3> QED BY <2>1, <3>1, <3>3, <3>4, WideSum, CarryInType DEF Packs
  <2>2. CASE ~MWide(c)
    <3>1. n = 8 /\ 2 ^ n = 256
      BY <2>2, Widths
    <3>2. 10 * 2 ^ (n - 4) = 160 /\ 6 * 2 ^ (n - 4) = 96
      BY <3>1, Powers
    <3>3. sum = DecimalSum8(Acc(c), v, CarryIn(c))
      <4> HIDE DEF n
      <4> QED BY <3>1, <3>2 DEF DecimalSum8
    <3>4. Acc(c) \in Byte /\ v \in Byte
      BY <2>2, ValueTypes, Fields
    <3> HIDE DEF n, sum
    <3> QED BY <2>2, <3>1, <3>3, <3>4, NarrowSum, CarryInType, BytesAreWords
  <2> QED BY <2>1, <2>2
<1>2. Adc816(c, v) = LoadAcc(f, r)
  BY Zenon DEF Adc816, AdcDecimal816
<1>3. /\ flags \in SUBSET Flags /\ (FlagC \in flags <=> sum >= 2 ^ n)
      /\ flags \cap {FlagM, FlagX} = c.p \cap {FlagM, FlagX}
  <2> HIDE DEF sum, n, part
  <2> QED BY Fields, FlagValues DEF On, FlagC, FlagV
<1> HIDE DEF flags, sum, n, r, part, total, limit
<1>4. f \in Processor /\ f.p = flags /\ MWide(f) = MWide(c)
  <2>1. Calm(c, f)
    BY <1>3, FlagsChanged
  <2> QED BY <2>1, CalmWidth, CalmIsTyped DEF Processor, Processors
<1> HIDE DEF f
<1>5. Result(LoadAcc(f, r), c) = r /\ (FlagC \in LoadAcc(f, r).p <=> total >= limit)
  BY <1>1, <1>3, <1>4, LoadedResult DEF Result
<1> QED BY <1>1, <1>2, <1>5 DEF DecimalAdc, total, limit

LEMMA SubtractsDecimally816 ==
  ASSUME NEW c \in Processor, NEW v \in Word, MWide(c) \/ v \in Byte,
         FlagD \in c.p, IsDecimal(Acc(c)), IsDecimal(v)
  PROVE  DecimalSbc(Result(Sbc816(c, v), c), Sbc816(c, v), Acc(c), v, CarryIn(c),
                    IF MWide(c) THEN 10000 ELSE 100)
<1> DEFINE n == AccBits(c)
           w == Complement(v, n)
           sum == Acc(c) + w + CarryIn(c)
           f == SetCV(c, Acc(c), w, sum, n)
           r == IF MWide(c) THEN SubDigits16(Acc(c), v, CarryIn(c))
                ELSE DecimalDiff8(Acc(c), v, CarryIn(c))
           total == Decode(Acc(c)) - Decode(v) - 1 + CarryIn(c)
           limit == IF MWide(c) THEN 10000 ELSE 100
<1>0. Acc(c) \in Word /\ Acc(c) \in Int /\ v \in Int /\ CarryIn(c) \in {0, 1}
  BY ValueTypes, Ranges, CarryInType
<1>1. /\ r \in Word /\ (MWide(c) \/ r \in Byte)
      /\ Packs(r, total, limit) /\ (sum >= 2 ^ n <=> total >= 0)
  <2>1. CASE MWide(c)
    <3>1. n = 16 /\ 2 ^ n = 65536
      BY <2>1, Widths
    <3>2. sum = Acc(c) + (65535 - v) + CarryIn(c)
      <4> HIDE DEF n
      <4> QED BY <1>0, <3>1 DEF Complement
    <3>3. Packs(r, total, limit)
      BY <2>1, <1>0, WideDiff
    <3>4. sum >= 65536 <=> total >= 0
      <4> HIDE DEF sum
      <4> QED BY <1>0, <3>2, WideBorrow
    <3> HIDE DEF n, sum, r, total
    <3> QED BY <2>1, <3>1, <3>3, <3>4 DEF Packs
  <2>2. CASE ~MWide(c)
    <3>1. n = 8 /\ 2 ^ n = 256
      BY <2>2, Widths
    <3>2. sum = Acc(c) + (255 - v) + CarryIn(c)
      <4> HIDE DEF n
      <4> QED BY <1>0, <3>1 DEF Complement
    <3>4. Acc(c) \in Byte /\ v \in Byte
      BY <2>2, ValueTypes, Fields
    <3>5. r \in Byte /\ Packs(r, total, limit)
      BY <2>2, <1>0, <3>4, NarrowDiff
    <3>6. sum >= 256 <=> total >= 0
      <4> HIDE DEF sum
      <4> QED BY <1>0, <3>2, <3>4, NarrowDiff
    <3> HIDE DEF n, sum, r, total
    <3> QED BY <2>2, <3>1, <3>5, <3>6, BytesAreWords
  <2> QED BY <2>1, <2>2
<1>2. Sbc816(c, v) = LoadAcc(f, r)
  BY Zenon DEF Sbc816
<1> HIDE DEF sum, n, r, total, limit, w
<1>3. f \in Processor /\ (FlagC \in f.p <=> total >= 0) /\ MWide(f) = MWide(c)
  BY <1>1, CarryOfFlags, SettingCV, CalmIsTyped, CalmWidth
<1> HIDE DEF f
<1>5. Result(LoadAcc(f, r), c) = r /\ (FlagC \in LoadAcc(f, r).p <=> total >= 0)
  BY <1>1, <1>3, LoadedResult DEF Result
<1> QED BY <1>1, <1>2, <1>5 DEF DecimalSbc, total, limit

(* The operand at the width of the accumulator is decimal too.             *)
LEMMA NarrowDecimal ==
  ASSUME NEW w \in Word, IsDecimal(w)
  PROVE  w % 256 \in Byte /\ IsDecimal(w % 256)
<1> DEFINE d0 == Digit(w, 0)
           d1 == Digit(w, 1)
           d2 == Digit(w, 2)
           d3 == Digit(w, 3)
<1>1. /\ d0 \in Int /\ 0 <= d0 /\ d0 <= 9 /\ d1 \in Int /\ 0 <= d1 /\ d1 <= 9
      /\ d2 \in Int /\ d3 \in Int
  BY DecimalDigits
<1>2. w = FourDigits(d0, d1, d2, d3)
  BY DigitsOfWord
<1> HIDE DEF d0, d1, d2, d3
<1>3. w = 256 * (d2 + 16 * d3) + (16 * d1 + d0)
  BY <1>1, <1>2 DEF FourDigits
<1>4. w % 256 = 16 * d1 + d0
  BY <1>1, <1>3
<1>5. 16 * d1 + d0 \in Byte /\ IsDecimal(16 * d1 + d0)
  BY <1>1, TwoDigitsDecimal
<1> QED BY <1>4, <1>5, Zenon

LEMMA DecimalArithmetic ==
  ASSUME NEW c \in Processor, FlagD \in c.p, c.variant # "NES", IsDecimal(Accumulator(c)),
         NEW w \in Decimals
  PROVE  AddsDigits(c, w % (2 ^ Width(c))) /\ SubtractsDigits(c, w % (2 ^ Width(c)))
<1> DEFINE n == Width(c)
           v == w % (2 ^ n)
           acc == Accumulator(c)
           r == Added(c, v)
           s == Subtracted(c, v)
           limit == Limit(c)
<1>1. w \in Word /\ IsDecimal(w)
  BY CoresAssumption
<1>7. IsDecimal(acc)
  OBVIOUS
<1>2. ASSUME NEW r1, NEW s1, r1 = Pair(r.a, IF n = 16 THEN r.b ELSE 0),
             s1 = Pair(s.a, IF n = 16 THEN s.b ELSE 0),
             DecimalAdc(r1, r, acc, v, CarryIn(c), limit),
             DecimalSbc(s1, s, acc, v, CarryIn(c), limit)
      PROVE  AddsDigits(c, v) /\ SubtractsDigits(c, v)
  <2> HIDE DEF n, v
  <2>1. Holds(c, r, Decode(acc) + Decode(v) + CarryIn(c))
    BY <1>2, Zenon DEF DecimalAdc, Packs, Holds, n
  <2>2. Holds(c, s, Decode(acc) - Decode(v) - 1 + CarryIn(c))
    BY <1>2, Zenon DEF DecimalSbc, Packs, Holds, n
  <2> QED BY <1>2, <2>1, <2>2 DEF AddsDigits, SubtractsDigits, DecimalAdc, DecimalSbc
<1>3. ASSUME NEW d \in Processor PROVE Pair(d.a, 0) = d.a
  BY Fields, Ranges, SMT DEF Pair
<1>4. CASE c.variant = "65816" /\ MWide(c)
  <2>1. n = 16 /\ 2 ^ n = 65536 /\ limit = 10000
    BY <1>4, Widths DEF Width, Limit
  <2>2. v = w
    <3> HIDE DEF n
    <3> QED BY <1>1, <2>1, Wrapped
  <2>3. acc = Acc(c) /\ r = Adc816(c, v) /\ s = Sbc816(c, v)
    BY <1>4 DEF Accumulator, Added, Subtracted
  <2> HIDE DEF n, v, acc, r, s, limit
  <2>4. DecimalAdc(Result(r, c), r, acc, v, CarryIn(c), limit)
    BY <1>1, <1>4, <1>7, <2>1, <2>2, <2>3, AddsDecimally816
  <2>5. DecimalSbc(Result(s, c), s, acc, v, CarryIn(c), limit)
    BY <1>1, <1>4, <1>7, <2>1, <2>2, <2>3, SubtractsDecimally816
  <2>6. /\ Result(r, c) = Pair(r.a, IF n = 16 THEN r.b ELSE 0)
        /\ Result(s, c) = Pair(s.a, IF n = 16 THEN s.b ELSE 0)
    BY <1>4, <2>1 DEF Result
  <2>7. AddsDigits(c, v) /\ SubtractsDigits(c, v)
    BY <1>2, <2>4, <2>5, <2>6
  <2> QED BY <2>7 DEF v, n
<1>5. CASE c.variant = "65816" /\ ~MWide(c)
  <2>1. n = 8 /\ 2 ^ n = 256 /\ limit = 100
    BY <1>5, Widths DEF Width, Limit
  <2>2. v \in Byte /\ IsDecimal(v) /\ v \in Word
    <3>1. v = w % 256
      BY <2>1
    <3> QED BY <1>1, <3>1, NarrowDecimal, BytesAreWords
  <2>3. acc = Acc(c) /\ r = Adc816(c, v) /\ s = Sbc816(c, v)
    BY <1>5 DEF Accumulator, Added, Subtracted
  <2> HIDE DEF n, v, acc, r, s, limit
  <2>4. DecimalAdc(Result(r, c), r, acc, v, CarryIn(c), limit)
    BY <1>5, <1>7, <2>1, <2>2, <2>3, AddsDecimally816
  <2>5. DecimalSbc(Result(s, c), s, acc, v, CarryIn(c), limit)
    BY <1>5, <1>7, <2>1, <2>2, <2>3, SubtractsDecimally816
  <2>6. Pair(r.a, 0) = r.a /\ Pair(s.a, 0) = s.a
    BY <1>3, <2>2, <2>3, CalmAdc816, CalmSbc816, CalmIsTyped
  <2>7. /\ Result(r, c) = Pair(r.a, IF n = 16 THEN r.b ELSE 0)
        /\ Result(s, c) = Pair(s.a, IF n = 16 THEN s.b ELSE 0)
    BY <1>5, <2>1, <2>6 DEF Result
  <2>8. AddsDigits(c, v) /\ SubtractsDigits(c, v)
    BY <1>2, <2>4, <2>5, <2>7
  <2> QED BY <2>8 DEF v, n
<1>6. CASE c.variant # "65816"
  <2>1. n = 8 /\ 2 ^ n = 256 /\ limit = 100
    BY <1>6, Powers DEF Width, Limit
  <2>2. v \in Byte /\ IsDecimal(v)
    <3>1. v = w % 256
      BY <2>1
    <3> QED BY <1>1, <3>1, NarrowDecimal
  <2>3. acc = c.a /\ r = Adc(c, v) /\ s = Sbc(c, v)
    BY <1>6 DEF Accumulator, Added, Subtracted
  <2>4. Decimal(c) /\ IsDecimal(c.a)
    BY <2>3 DEF Decimal
  <2> HIDE DEF n, v, acc, r, s, limit
  <2>5. /\ DecimalAdc(r.a, r, acc, v, CarryIn(c), limit)
        /\ DecimalSbc(s.a, s, acc, v, CarryIn(c), limit)
    BY <2>1, <2>2, <2>3, <2>4, Calculating6502
  <2>6. Pair(r.a, 0) = r.a /\ Pair(s.a, 0) = s.a
    BY <1>3, <2>2, <2>3, TypedAdc DEF Typed
  <2>7. /\ r.a = Pair(r.a, IF n = 16 THEN r.b ELSE 0)
        /\ s.a = Pair(s.a, IF n = 16 THEN s.b ELSE 0)
    BY <2>1, <2>6
  <2>8. AddsDigits(c, v) /\ SubtractsDigits(c, v)
    BY <1>2, <2>5, <2>7
  <2> QED BY <2>8 DEF v, n
<1> QED BY <1>4, <1>5, <1>6

(* Decimal addition and subtraction are those of decimal numbers, digits,  *)
(* carry and borrow, on every variant with a decimal mode (exec.go,        *)
(* adcDecimal; opcodes_cmos.go; arith816.go).                              *)
THEOREM DecimalNumbers == Spec => []DecimalIsDecimal
<1>1. CoresInv => DecimalIsDecimal
  BY DecimalArithmetic DEF CoresInv, CoresTypeOK, DecimalIsDecimal
<1> QED BY <1>1, CoresInvariant, PTL

-------------------------------------------------------------------------------
(* The stack. Slot is where a byte lies relative to the stack pointer,     *)
(* StackAt a stack pointer moved by so many; what is pushed to a slot      *)
(* stays there until something else is written to it.                      *)

(* The registers beside the stack pointer. *)
Beside(c, d) ==
  /\ d.variant = c.variant /\ d.a = c.a /\ d.b = c.b /\ d.x = c.x /\ d.xh = c.xh
  /\ d.y = c.y /\ d.yh = c.yh /\ d.p = c.p /\ d.e = c.e /\ d.d = c.d /\ d.dbr = c.dbr
  /\ d.pbr = c.pbr /\ d.pc = c.pc

LEMMA BesideIsTransitive ==
  ASSUME NEW b, NEW c, NEW d, Beside(b, c), Beside(c, d)
  PROVE  Beside(b, d)
  BY DEF Beside

(* Where the byte is that lies n above the stack pointer. *)
Slot(c, n) ==
  IF c.e THEN 256 * c.sph + ((c.sp + n) % 256) ELSE (c.sp + 256 * c.sph + n) % 65536

(* d has c's stack pointer, moved by n. *)
StackAt(c, d, n) ==
  /\ d \in Processor /\ d.e = c.e /\ n \in Int
  /\ IF c.e THEN d.sp = (c.sp + n) % 256 /\ d.sph = c.sph
     ELSE d.sp + 256 * d.sph = (c.sp + 256 * c.sph + n) % 65536

(* The stack pointer moved twice is moved by the sum.                      *)
LEMMA AddingUp ==
  ASSUME NEW a \in Int, NEW m \in Int, NEW n \in Int
  PROVE  /\ (((a + m) % 256) + n) % 256 = (a + (m + n)) % 256
         /\ (((a + m) % 65536) + n) % 65536 = (a + (m + n)) % 65536
<1>1. (((a + m) % 256) + n) % 256 = (a + (m + n)) % 256
  <2> DEFINE q == (a + m) \div 256
             r == (a + m) % 256
  <2>1. q \in Int /\ r \in Int /\ a + m = 256 * q + r
    OBVIOUS
  <2> HIDE DEF q, r
  <2>2. a + (m + n) = 256 * q + (r + n)
    BY <2>1
  <2>3. (256 * q + (r + n)) % 256 = (r + n) % 256
    BY <2>1
  <2> QED BY <2>2, <2>3 DEF r
<1>2. (((a + m) % 65536) + n) % 65536 = (a + (m + n)) % 65536
  <2> DEFINE q == (a + m) \div 65536
             r == (a + m) % 65536
  <2>1. q \in Int /\ r \in Int /\ a + m = 65536 * q + r
    OBVIOUS
  <2> HIDE DEF q, r
  <2>2. a + (m + n) = 65536 * q + (r + n)
    BY <2>1
  <2>3. (65536 * q + (r + n)) % 65536 = (r + n) % 65536
    BY <2>1
  <2> QED BY <2>2, <2>3 DEF r
<1> QED BY <1>1, <1>2

(* The stack pointer at the start, and what the mode makes of it.          *)
LEMMA StackPointers ==
  ASSUME NEW c \in Processor
  PROVE  /\ c.sp \in Int /\ 0 <= c.sp /\ c.sp < 256
         /\ c.sph \in Int /\ 0 <= c.sph /\ c.sph < 256
         /\ SP16(c) = c.sp + 256 * c.sph /\ SP16(c) \in Word
  BY Fields, Ranges, RegisterTypes DEF SP16, Pair

LEMMA StackStarts ==
  ASSUME NEW c \in Processor
  PROVE  StackAt(c, c, 0) /\ Slot(c, 0) = SP16(c)
<1>1. (c.sp + 0) % 256 = c.sp
  BY StackPointers
<1>2. (c.sp + 256 * c.sph + 0) % 65536 = c.sp + 256 * c.sph
  BY StackPointers
<1>3. SP16(c) = 256 * c.sph + c.sp
  BY StackPointers
<1> QED BY <1>1, <1>2, <1>3, StackPointers DEF StackAt, Slot

LEMMA StackEnds ==
  ASSUME NEW c \in Processor, NEW d, StackAt(c, d, 0)
  PROVE  d.sp = c.sp /\ d.sph = c.sph
<1>1. (c.sp + 0) % 256 = c.sp
  BY StackPointers
<1>2. (c.sp + 256 * c.sph + 0) % 65536 = c.sp + 256 * c.sph
  BY StackPointers
<1>3. d \in Processor
  BY DEF StackAt
<1>4. CASE c.e
  BY <1>1, <1>4 DEF StackAt
<1>5. CASE ~c.e
  <2>1. d.sp + 256 * d.sph = c.sp + 256 * c.sph
    BY <1>2, <1>5 DEF StackAt
  <2> QED BY <1>3, <2>1, StackPointers
<1> QED BY <1>4, <1>5

(* What changes neither the stack pointer nor the emulation mode. *)
LEMMA StackStays ==
  ASSUME NEW c, NEW d, NEW f, NEW n, StackAt(c, d, n),
         f \in Processor, f.sp = d.sp, f.sph = d.sph, f.e = d.e
  PROVE  StackAt(c, f, n)
  BY DEF StackAt

(* Slots relative to a pointer that moved, and slots apart.                *)
LEMMA SlotsMove ==
  ASSUME NEW c \in Processor, NEW d, NEW m \in Int, NEW n \in Int, StackAt(c, d, m)
  PROVE  Slot(d, n) = Slot(c, m + n)
<1>1. d \in Processor /\ d.e = c.e
  BY DEF StackAt
<1>2. CASE c.e
  <2>1. (((c.sp + m) % 256) + n) % 256 = (c.sp + (m + n)) % 256
    BY AddingUp, StackPointers
  <2>2. d.sp = (c.sp + m) % 256 /\ d.sph = c.sph
    BY <1>2 DEF StackAt
  <2> QED BY <1>1, <1>2, <2>1, <2>2 DEF Slot
<1>3. CASE ~c.e
  <2> DEFINE a == c.sp + 256 * c.sph
             b == d.sp + 256 * d.sph
  <2>0. a \in Int
    BY StackPointers
  <2>2. b = (a + m) % 65536
    BY <1>3 DEF StackAt
  <2>3. Slot(d, n) = (b + n) % 65536 /\ Slot(c, m + n) = (a + (m + n)) % 65536
    BY <1>1, <1>3 DEF Slot
  <2> HIDE DEF a, b
  <2>1. (((a + m) % 65536) + n) % 65536 = (a + (m + n)) % 65536
    BY <2>0, AddingUp
  <2> QED BY <2>1, <2>2, <2>3
<1> QED BY <1>2, <1>3

LEMMA SlotsDiffer ==
  ASSUME NEW c \in Processor, NEW m \in Int, NEW n \in Int, m < n, n < m + 256
  PROVE  Slot(c, m) # Slot(c, n)
<1>1. CASE c.e
  <2> DEFINE u == c.sp + m
             k == n - m
  <2>1. u \in Int /\ k \in Int /\ 0 < k /\ k < 256 /\ c.sp + n = u + k
    BY StackPointers
  <2>2. Slot(c, m) = 256 * c.sph + (u % 256) /\ Slot(c, n) = 256 * c.sph + ((c.sp + n) % 256)
    BY <1>1 DEF Slot
  <2> HIDE DEF u, k
  <2>3. u % 256 # (u + k) % 256
    BY <2>1
  <2>4. (u % 256) \in Int /\ ((u + k) % 256) \in Int
    BY <2>1
  <2> QED BY <2>1, <2>2, <2>3, <2>4, StackPointers
<1>2. CASE ~c.e
  <2> DEFINE u == c.sp + 256 * c.sph + m
             k == n - m
  <2>1. u \in Int /\ k \in Int /\ 0 < k /\ k < 256 /\ c.sp + 256 * c.sph + n = u + k
    BY StackPointers
  <2>2. Slot(c, m) = u % 65536 /\ Slot(c, n) = (c.sp + 256 * c.sph + n) % 65536
    BY <1>2 DEF Slot
  <2> HIDE DEF u, k
  <2>3. u % 65536 # (u + k) % 65536
    BY <2>1
  <2> QED BY <2>1, <2>2, <2>3
<1> QED BY <1>1, <1>2

(* Moving the stack pointer.                                               *)
LEMMA StackMoved ==
  ASSUME NEW c \in Processor, NEW d, NEW m \in Int, NEW n \in Int, StackAt(c, d, m)
  PROVE  /\ StackAt(c, SpMoved(d, n), m + n) /\ Beside(d, SpMoved(d, n))
         /\ SpMoved(d, n).mem = d.mem
         /\ SP16(SpMoved(d, n)) = Slot(c, m + n)
<1> DEFINE s == SpMoved(d, n)
           v == (SP16(d) + n) % 65536
<1>1. d \in Processor /\ d.e = c.e
  BY DEF StackAt
<1>2. s \in Processor
  BY <1>1, MovingSP, CalmIsTyped
<1>3. v \in Word /\ v \in Int /\ Lo(v) + 256 * Hi(v) = v
  BY <1>1, MovingSP, Ranges, PairOfHalves DEF Pair
<1>4. s = IF d.e THEN [d EXCEPT !.sp = (d.sp + n) % 256] ELSE [d EXCEPT !.sp = Lo(v), !.sph = Hi(v)]
  BY DEF SpMoved, SetSPRaw
<1>5. Slot(d, n) = Slot(c, m + n)
  BY SlotsMove
<1> HIDE DEF v
<1>6. Beside(d, s) /\ s.mem = d.mem /\ s.e = d.e
  BY <1>1, <1>4 DEF Beside, Processor, Processors
<1>7. CASE d.e
  <2>1. s.sp = (d.sp + n) % 256 /\ s.sph = d.sph
    BY <1>1, <1>4, <1>7 DEF Processor, Processors
  <2>2. SP16(s) = Slot(d, n)
    <3>1. (d.sp + n) % 256 \in Int
      BY <1>1, StackPointers
    <3> QED BY <1>1, <1>2, <1>7, <2>1, <3>1, StackPointers DEF Slot
  <2>3. d.sp = (c.sp + m) % 256 /\ d.sph = c.sph
    BY <1>1, <1>7 DEF StackAt
  <2>4. s.sp = (c.sp + (m + n)) % 256
    BY <2>1, <2>3, AddingUp, StackPointers
  <2> HIDE DEF s
  <2>5. StackAt(c, s, m + n)
    BY <1>1, <1>2, <1>6, <1>7, <2>1, <2>3, <2>4 DEF StackAt
  <2> QED BY <1>5, <1>6, <2>2, <2>5 DEF s
<1>8. CASE ~d.e
  <2>1. s.sp = Lo(v) /\ s.sph = Hi(v)
    BY <1>1, <1>4, <1>8 DEF Processor, Processors
  <2> HIDE DEF s
  <2>2. SP16(s) = v /\ s.sp + 256 * s.sph = v
    BY <1>2, <1>3, <2>1, StackPointers
  <2>3. v = Slot(d, n)
    BY <1>1, <1>8, StackPointers DEF v, Slot
  <2>4. v = (c.sp + 256 * c.sph + (m + n)) % 65536
    BY <1>1, <1>5, <1>8, <2>3 DEF Slot
  <2>5. StackAt(c, s, m + n)
    BY <1>1, <1>2, <1>6, <1>8, <2>2, <2>4 DEF StackAt
  <2> QED BY <1>5, <1>6, <2>2, <2>3, <2>5 DEF s
<1> HIDE DEF s
<1> QED BY <1>1, <1>7, <1>8, Fields DEF s

(* What is written is read back, and what lies beside it stays.            *)
LEMMA WrittenRead ==
  ASSUME NEW c \in Processor, NEW a, NEW v, NEW b
  PROVE  Read(Write(c, a, v), b) = IF b = a THEN v ELSE Read(c, b)
<1>1. Write(c, a, v).mem = [x \in {a} \cup DOMAIN c.mem |-> IF x = a THEN v ELSE c.mem[x]]
  BY DEF Write, Processor, Processors
<1> QED BY <1>1 DEF Read

(* A push fills the slot and leaves every other slot alone.                *)
LEMMA StackPushed ==
  ASSUME NEW c \in Processor, NEW d, NEW m \in Int, NEW v \in Byte, StackAt(c, d, m)
  PROVE  /\ StackAt(c, SpPush8(d, v), m - 1) /\ Beside(d, SpPush8(d, v))
         /\ Read(SpPush8(d, v), Slot(c, m)) = v
         /\ \A n \in Int : m < n /\ n < m + 256 =>
              Read(SpPush8(d, v), Slot(c, n)) = Read(d, Slot(c, n))
<1> DEFINE w == Write(d, SP16(d), v)
           s == SpMoved(w, -1)
<1>1. d \in Processor
  BY DEF StackAt
<1>2. SP16(d) = Slot(c, m)
  <2>1. Slot(d, 0) = Slot(c, m + 0)
    BY SlotsMove
  <2> QED BY <1>1, <2>1, StackStarts
<1>3. w \in Processor /\ Beside(d, w) /\ w.sp = d.sp /\ w.sph = d.sph /\ w.e = d.e
  <2>1. w \in Processor
    BY <1>1, Writing, RegisterTypes, Wider, CalmIsTyped
  <2> QED BY <1>1, <2>1, WriteFrame DEF Beside
<1>4. \A b : Read(w, b) = IF b = Slot(c, m) THEN v ELSE Read(d, b)
  <2>1. \A b : Read(Write(d, SP16(d), v), b) = IF b = SP16(d) THEN v ELSE Read(d, b)
    BY <1>1, WrittenRead
  <2> QED BY <1>2, <2>1
<1> HIDE DEF w
<1>5. StackAt(c, w, m)
  BY <1>3, StackStays
<1>6. StackAt(c, s, m + -1) /\ Beside(w, s) /\ s.mem = w.mem
  BY <1>5, StackMoved
<1> HIDE DEF s
<1>7. \A b : Read(s, b) = Read(w, b)
  BY <1>6 DEF Read
<1>8. \A n \in Int : m < n /\ n < m + 256 => Read(s, Slot(c, n)) = Read(d, Slot(c, n))
  BY <1>4, <1>7, SlotsDiffer
<1>9. Beside(d, s)
  BY <1>3, <1>6, BesideIsTransitive
<1>10. StackAt(c, s, m - 1)
  <2>1. m + -1 = m - 1
    OBVIOUS
  <2> QED BY <1>6, <2>1
<1>11. SpPush8(d, v) = s
  BY DEF SpPush8, s, w
<1> QED BY <1>4, <1>7, <1>8, <1>9, <1>10, <1>11

(* A push of a word fills two slots, the high byte first.                  *)
LEMMA StackPushed16 ==
  ASSUME NEW c \in Processor, NEW d, NEW m \in Int, NEW v \in Int, StackAt(c, d, m)
  PROVE  /\ StackAt(c, SpPush16(d, v), m - 2) /\ Beside(d, SpPush16(d, v))
         /\ Read(SpPush16(d, v), Slot(c, m)) = Hi(v)
         /\ Read(SpPush16(d, v), Slot(c, m - 1)) = Lo(v)
         /\ \A n \in Int : m < n /\ n < m + 255 =>
              Read(SpPush16(d, v), Slot(c, n)) = Read(d, Slot(c, n))
<1> DEFINE f == SpPush8(d, Hi(v))
           g == SpPush8(f, Lo(v))
<1>1. Lo(v) \in Byte /\ Hi(v) \in Byte
  BY LoHiType
<1>2. /\ StackAt(c, f, m - 1) /\ Beside(d, f) /\ Read(f, Slot(c, m)) = Hi(v)
      /\ \A n \in Int : m < n /\ n < m + 256 => Read(f, Slot(c, n)) = Read(d, Slot(c, n))
  BY <1>1, StackPushed
<1> HIDE DEF f
<1> DEFINE k == m - 1
<1>3. k \in Int /\ StackAt(c, f, k)
  BY <1>2
<1> HIDE DEF k
<1>4. /\ StackAt(c, g, k - 1) /\ Beside(f, g) /\ Read(g, Slot(c, k)) = Lo(v)
      /\ \A n \in Int : k < n /\ n < k + 256 =>
           Read(g, Slot(c, n)) = Read(f, Slot(c, n))
  BY <1>1, <1>3, StackPushed, SMTT(30)
<1> HIDE DEF g
<1>5. StackAt(c, g, m - 2)
  <2>1. k - 1 = m - 2
    BY DEF k
  <2> QED BY <1>4, <2>1
<1>6. Beside(d, g)
  BY <1>2, <1>4, BesideIsTransitive
<1>7. Read(g, Slot(c, m)) = Hi(v)
  BY <1>2, <1>4 DEF k
<1>8. \A n \in Int : m < n /\ n < m + 255 => Read(g, Slot(c, n)) = Read(d, Slot(c, n))
  BY <1>2, <1>4 DEF k
<1>9. SpPush16(d, v) = g
  BY DEF SpPush16, g, f
<1> QED BY <1>4, <1>5, <1>6, <1>7, <1>8, <1>9 DEF k

(* What is pulled is what the slot holds.                                  *)
LEMMA StackTop ==
  ASSUME NEW c \in Processor, NEW d, NEW m \in Int, NEW n \in Int, StackAt(c, d, m)
  PROVE  /\ SpTop(d, n) = Read(d, Slot(c, m + n))
         /\ SpTop16(d, n) = Pair(Read(d, Slot(c, m + n)), Read(d, Slot(c, m + n + 1)))
<1>1. \A k \in Int : SpTop(d, k) = Read(d, Slot(c, m + k))
  BY StackMoved DEF SpTop
<1>2. n + 1 \in Int /\ m + (n + 1) = m + n + 1
  OBVIOUS
<1> QED BY <1>1, <1>2, Zenon DEF SpTop16

(* What only sets registers: memory and the stack pointer stay. *)
LEMMA ReadsStay == \A c, d : d.mem = c.mem => \A a : Read(d, a) = Read(c, a)
  BY DEF Read

-------------------------------------------------------------------------------
(* Interrupts and RTI: the frame, what it holds, and that RTI takes back   *)
(* what was pushed.                                                        *)

(* The registers no handler of an interrupt and no stack instruction changes. *)
Like(c, d) ==
  /\ d.variant = c.variant /\ d.a = c.a /\ d.b = c.b /\ d.x = c.x /\ d.xh = c.xh
  /\ d.y = c.y /\ d.yh = c.yh /\ d.e = c.e /\ d.d = c.d /\ d.dbr = c.dbr

LEMMA LikeIsTransitive ==
  /\ \A b, c, d : Like(b, c) /\ Like(c, d) => Like(b, d)
  /\ \A c, d : Beside(c, d) => Like(c, d)
  BY DEF Like, Beside

(* Setting registers apart from memory and the stack pointer. *)
SameStack(c, d) == d \in Processor /\ d.sp = c.sp /\ d.sph = c.sph /\ d.e = c.e /\ d.mem = c.mem

(* Setting one register is apart from the stack.                           *)
LEMMA SettingPc ==
  ASSUME NEW c \in Processor, NEW v \in Word
  PROVE  /\ SameStack(c, [c EXCEPT !.pc = v]) /\ Like(c, [c EXCEPT !.pc = v])
         /\ [c EXCEPT !.pc = v].pc = v /\ [c EXCEPT !.pc = v].p = c.p
         /\ [c EXCEPT !.pc = v].pbr = c.pbr /\ [c EXCEPT !.pc = v].halted = c.halted
  BY DEF SameStack, Like, Processor, Processors

LEMMA SettingPbr ==
  ASSUME NEW c \in Processor, NEW v \in Byte
  PROVE  /\ SameStack(c, [c EXCEPT !.pbr = v]) /\ Like(c, [c EXCEPT !.pbr = v])
         /\ [c EXCEPT !.pbr = v].pbr = v /\ [c EXCEPT !.pbr = v].p = c.p
         /\ [c EXCEPT !.pbr = v].pc = c.pc
  BY DEF SameStack, Like, Processor, Processors

LEMMA SettingP ==
  ASSUME NEW c \in Processor, NEW v \in SUBSET Flags
  PROVE  /\ SameStack(c, [c EXCEPT !.p = v]) /\ Like(c, [c EXCEPT !.p = v])
         /\ [c EXCEPT !.p = v].p = v /\ [c EXCEPT !.p = v].pc = c.pc
         /\ [c EXCEPT !.p = v].pbr = c.pbr
  BY DEF SameStack, Like, Processor, Processors

LEMMA SettingHalted ==
  ASSUME NEW c \in Processor, NEW v \in BOOLEAN
  PROVE  /\ SameStack(c, [c EXCEPT !.halted = v]) /\ Like(c, [c EXCEPT !.halted = v])
         /\ [c EXCEPT !.halted = v].p = c.p /\ [c EXCEPT !.halted = v].pc = c.pc
         /\ [c EXCEPT !.halted = v].pbr = c.pbr
  BY DEF SameStack, Like, Processor, Processors

LEMMA SameStackAt ==
  ASSUME NEW c, NEW d, NEW f, NEW n, StackAt(c, d, n), SameStack(d, f)
  PROVE  StackAt(c, f, n) /\ \A a : Read(f, a) = Read(d, a)
  BY StackStays, ReadsStay DEF SameStack

(* Pulling the status back brings back the status, and the widths of the   *)
(* index registers with it.                                                *)
LEMMA TruncatedReturns ==
  ASSUME NEW c, NEW q \in Processor, Like(c, q), IndexClear(c),
         c.p = q.p \cup (IF c.e THEN {FlagM, FlagX} ELSE {})
  PROVE  /\ SameStack(q, Truncated(q)) /\ Like(c, Truncated(q))
         /\ Truncated(q).p = c.p /\ Truncated(q).pbr = q.pbr
<1> DEFINE p == q.p \cup (IF q.e THEN {FlagM, FlagX} ELSE {})
           narrow == q.e \/ FlagX \in p
           d == [q EXCEPT !.p = p]
           e == [d EXCEPT !.xh = IF narrow THEN 0 ELSE @]
           f == [e EXCEPT !.yh = IF narrow THEN 0 ELSE @]
<1>1. q.e = c.e /\ q.xh = c.xh /\ q.yh = c.yh
  BY DEF Like
<1>2. p = c.p
  BY <1>1
<1>3. narrow => c.xh = 0 /\ c.yh = 0
  BY <1>1, <1>2 DEF IndexClear, XWide
<1>4. Truncated(q) = f
  BY DEF Truncated
<1>5. Truncated(q) \in Processor
  BY Truncating DEF Typed
<1> HIDE DEF p, narrow
<1>6. f.p = p /\ f.pbr = q.pbr /\ f.sp = q.sp /\ f.sph = q.sph /\ f.e = q.e /\ f.mem = q.mem
  BY DEF Processor, Processors
<1>7. /\ f.variant = q.variant /\ f.a = q.a /\ f.b = q.b /\ f.x = q.x /\ f.y = q.y
      /\ f.d = q.d /\ f.dbr = q.dbr
  BY DEF Processor, Processors
<1>8. f.xh = (IF narrow THEN 0 ELSE q.xh) /\ f.yh = (IF narrow THEN 0 ELSE q.yh)
  BY DEF Processor, Processors
<1> HIDE DEF f
<1>9. Like(c, f)
  BY <1>1, <1>3, <1>6, <1>7, <1>8 DEF Like
<1> QED BY <1>2, <1>4, <1>5, <1>6, <1>9 DEF SameStack

LEMMA PlpReturns ==
  ASSUME NEW c \in Processor, NEW s, NEW m \in Int, StackAt(c, s, m), Like(c, s), IndexClear(c),
         NEW P \in SUBSET Flags, Read(s, Slot(c, m + 1)) = Num(P),
         c.p = P \cup (IF c.e THEN {FlagM, FlagX} ELSE {})
  PROVE  /\ StackAt(c, Plp816(s), m + 1) /\ Like(c, Plp816(s)) /\ Plp816(s).p = c.p
         /\ Plp816(s).pbr = s.pbr /\ \A a : Read(Plp816(s), a) = Read(s, a)
<1> DEFINE r == SpMoved(s, 1)
           q == [r EXCEPT !.p = P]
<1>1. Plp816(s) = Truncated(q)
  <2>1. SpTop(s, 1) = Num(P)
    BY StackTop
  <2>2. Bits(SpTop(s, 1)) = P
    BY <2>1, BitsOfNum
  <2> QED BY <2>2 DEF Plp816
<1>2. StackAt(c, r, m + 1) /\ Beside(s, r) /\ r.mem = s.mem
  BY StackMoved
<1>3. r \in Processor /\ Like(c, r) /\ r.pbr = s.pbr
  BY <1>2, LikeIsTransitive DEF StackAt, Beside
<1> HIDE DEF r
<1>4. SameStack(r, q) /\ Like(r, q) /\ q.p = P /\ q.pbr = r.pbr
  BY <1>3, SettingP
<1> HIDE DEF q
<1>5. Like(c, q) /\ q \in Processor
  BY <1>3, <1>4, LikeIsTransitive DEF SameStack
<1>6. /\ SameStack(q, Truncated(q)) /\ Like(c, Truncated(q))
      /\ Truncated(q).p = c.p /\ Truncated(q).pbr = q.pbr
  BY <1>4, <1>5, TruncatedReturns
<1>7. StackAt(c, Truncated(q), m + 1)
  BY <1>2, <1>4, <1>6, SameStackAt
<1>8. Truncated(q).mem = s.mem
  BY <1>2, <1>4, <1>6 DEF SameStack
<1>9. \A a : Read(Truncated(q), a) = Read(s, a)
  BY <1>8, ReadsStay
<1> QED BY <1>1, <1>3, <1>4, <1>6, <1>7, <1>9

(* The frame of an interrupt: native mode has the program bank under it. *)
Under(c) == IF c.e THEN 0 ELSE -1

FrameOf(c, pc, p) ==
    IF c.e THEN SpPush8(SpPush16(c, pc), Num(p))
    ELSE SpPush8(SpPush16(SpPush8(c, c.pbr), pc), Num(p))

Framed(c, d, pc, p) ==
  /\ StackAt(c, d, Under(c) - 3) /\ Like(c, d)
  /\ Read(d, Slot(c, Under(c) - 2)) = Num(p)
  /\ Read(d, Slot(c, Under(c) - 1)) = Lo(pc)
  /\ Read(d, Slot(c, Under(c))) = Hi(pc)
  /\ ~c.e => Read(d, Slot(c, 0)) = c.pbr

(* The pushes of an interrupt make its frame.                              *)
LEMMA FramePushed ==
  ASSUME NEW c \in Processor, NEW h, StackAt(c, h, 0), Like(c, h), h.pbr = c.pbr,
         NEW pc \in Word, NEW p \in SUBSET Flags
  PROVE  Framed(c, FrameOf(h, pc, p), pc, p)
<1>1. Num(p) \in Byte /\ c.pbr \in Byte /\ h.e = c.e /\ h \in Processor /\ pc \in Int
  BY NumType, Fields, Ranges DEF StackAt
<1> DEFINE long == SpPush8(h, h.pbr)
           base == IF c.e THEN h ELSE long
           k == Under(c)
           two == SpPush16(base, pc)
           f == SpPush8(two, Num(p))
<1>2. /\ StackAt(c, long, -1) /\ Beside(h, long) /\ Read(long, Slot(c, 0)) = c.pbr
  <2>1. /\ StackAt(c, long, 0 - 1) /\ Beside(h, long) /\ Read(long, Slot(c, 0)) = c.pbr
    BY <1>1, StackPushed
  <2> QED BY <2>1
<1> HIDE DEF long
<1>3. /\ k \in Int /\ StackAt(c, base, k) /\ Like(c, base)
      /\ ~c.e => k = -1 /\ Read(base, Slot(c, 0)) = c.pbr
  BY <1>2, LikeIsTransitive DEF Under
<1>4. FrameOf(h, pc, p) = f
  BY <1>1 DEF FrameOf, long
<1> HIDE DEF base, k
<1>5. /\ StackAt(c, two, k - 2) /\ Beside(base, two)
      /\ Read(two, Slot(c, k)) = Hi(pc) /\ Read(two, Slot(c, k - 1)) = Lo(pc)
      /\ \A n \in Int : k < n /\ n < k + 255 => Read(two, Slot(c, n)) = Read(base, Slot(c, n))
  BY <1>1, <1>3, StackPushed16
<1> HIDE DEF two
<1> DEFINE j == k - 2
<1>6. j \in Int /\ StackAt(c, two, j)
  BY <1>3, <1>5
<1> HIDE DEF j
<1>7. /\ StackAt(c, f, j - 1) /\ Beside(two, f) /\ Read(f, Slot(c, j)) = Num(p)
      /\ \A n \in Int : j < n /\ n < j + 256 => Read(f, Slot(c, n)) = Read(two, Slot(c, n))
  BY <1>1, <1>6, StackPushed
<1> HIDE DEF f
<1>8. j - 1 = k - 3
  BY <1>3 DEF j
<1>9. /\ Read(f, Slot(c, k)) = Hi(pc) /\ Read(f, Slot(c, k - 1)) = Lo(pc)
      /\ Read(f, Slot(c, k - 2)) = Num(p)
  BY <1>3, <1>5, <1>7 DEF j
<1>10. ~c.e => Read(f, Slot(c, 0)) = c.pbr
  BY <1>3, <1>5, <1>7 DEF j
<1>11. Like(c, f)
  BY <1>3, <1>5, <1>7, LikeIsTransitive
<1>12. Framed(c, f, pc, p)
  BY <1>7, <1>8, <1>9, <1>10, <1>11 DEF Framed, k
<1> QED BY <1>4, <1>12

(* What follows the frame changes neither memory nor the stack pointer. *)
LEMMA StillFramed ==
  ASSUME NEW c, NEW d, NEW f, NEW pc, NEW p, Framed(c, d, pc, p), SameStack(d, f), Like(d, f)
  PROVE  Framed(c, f, pc, p)
<1>1. Like(c, f)
  BY LikeIsTransitive DEF Framed
<1>2. StackAt(c, f, Under(c) - 3)
  BY SameStackAt DEF Framed
<1>3. \A a : Read(f, a) = Read(d, a)
  BY ReadsStay DEF SameStack
<1> QED BY <1>1, <1>2, <1>3 DEF Framed

(* RTI takes the frame back.                                               *)
LEMMA RtiReturns ==
  ASSUME NEW c \in Processor, NEW s, IndexClear(c), NEW pc \in Word, NEW p \in SUBSET Flags,
         Framed(c, s, pc, p), c.p = p \cup (IF c.e THEN {FlagM, FlagX} ELSE {})
  PROVE  /\ Like(c, Rti816(s)) /\ Rti816(s).p = c.p /\ Rti816(s).pc = pc
         /\ Rti816(s) \in Processor /\ Rti816(s).sp = c.sp /\ Rti816(s).sph = c.sph
         /\ ~c.e => Rti816(s).pbr = c.pbr
<1> DEFINE k == Under(c)
           f == Plp816(s)
           t == SpMoved(f, 2)
           r == [t EXCEPT !.pc = SpTop16(f, 1)]
           u == SpMoved(r, 1)
           v == [u EXCEPT !.pbr = SpTop(r, 1)]
<1>1. k \in Int /\ k = IF c.e THEN 0 ELSE -1
  BY DEF Under
<1>2. /\ StackAt(c, s, k - 3) /\ Like(c, s) /\ Read(s, Slot(c, k - 2)) = Num(p)
      /\ Read(s, Slot(c, k - 1)) = Lo(pc) /\ Read(s, Slot(c, k)) = Hi(pc)
      /\ ~c.e => Read(s, Slot(c, 0)) = c.pbr
  BY DEF Framed
<1>3. Rti816(s) = IF r.e THEN r ELSE v
  BY DEF Rti816
<1> HIDE DEF k
<1>4. /\ StackAt(c, f, k - 2) /\ Like(c, f) /\ f.p = c.p
      /\ \A a : Read(f, a) = Read(s, a)
  <2> DEFINE m == k - 3
  <2>1. m \in Int /\ m + 1 = k - 2
    BY <1>1
  <2>2. StackAt(c, s, m) /\ Read(s, Slot(c, m + 1)) = Num(p)
    BY <1>2, <2>1
  <2> HIDE DEF m, f
  <2>3. /\ StackAt(c, f, m + 1) /\ Like(c, f) /\ f.p = c.p
        /\ \A a : Read(f, a) = Read(s, a)
    BY <1>2, <2>1, <2>2, PlpReturns DEF f
  <2> QED BY <2>1, <2>3
<1> HIDE DEF f
<1>5. StackAt(c, t, k) /\ Beside(f, t) /\ SpTop16(f, 1) = pc
  <2> DEFINE m == k - 2
  <2>1. m \in Int /\ m + 2 = k /\ m + 1 = k - 1 /\ m + 1 + 1 = k /\ StackAt(c, f, m)
    BY <1>1, <1>4
  <2> HIDE DEF m
  <2>2. StackAt(c, t, m + 2) /\ Beside(f, t)
    BY <2>1, StackMoved
  <2>3. SpTop16(f, 1) = Pair(Read(f, Slot(c, m + 1)), Read(f, Slot(c, m + 1 + 1)))
    <3> HIDE DEF t, r, u, v
    <3>1. ASSUME NEW n \in Int
          PROVE  SpTop16(f, n) = Pair(Read(f, Slot(c, m + n)), Read(f, Slot(c, m + n + 1)))
      BY ONLY <2>1, StackTop, c \in Processor, n \in Int, Zenon
    <3> QED BY <3>1
  <2> QED BY <1>2, <1>4, <2>1, <2>2, <2>3, PairOfHalves
<1>6. t \in Processor /\ Like(c, t) /\ t.p = c.p
  <2>1. t \in Processor
    BY <1>5 DEF StackAt
  <2>2. t.p = f.p /\ Like(f, t)
    BY <1>5, LikeIsTransitive DEF Beside
  <2> HIDE DEF t
  <2> QED BY <1>4, <2>1, <2>2, LikeIsTransitive
<1>7. \A a : Read(t, a) = Read(s, a)
  <2>1. t.mem = f.mem
    BY <1>1, <1>4, StackMoved
  <2> QED BY <1>4, <2>1, ReadsStay
<1> HIDE DEF t
<1>8. SameStack(t, r) /\ Like(t, r) /\ r.pc = pc /\ r.p = t.p
  BY <1>5, <1>6, SettingPc
<1> HIDE DEF r
<1>9. /\ r \in Processor /\ Like(c, r) /\ r.p = c.p /\ StackAt(c, r, k)
      /\ \A a : Read(r, a) = Read(s, a)
  BY <1>5, <1>6, <1>7, <1>8, LikeIsTransitive, SameStackAt DEF SameStack
<1>10. r.e = c.e
  BY <1>9 DEF Like
<1>11. CASE c.e
  BY <1>1, <1>3, <1>8, <1>9, <1>10, <1>11, StackEnds
<1>12. CASE ~c.e
  <2>1. k = -1 /\ -1 + 1 = 0
    BY <1>1, <1>12
  <2>2. StackAt(c, u, 0) /\ Beside(r, u)
    BY <1>9, <2>1, StackMoved
  <2>3. SpTop(r, 1) = c.pbr
    BY <1>2, <1>9, <1>12, <2>1, StackTop
  <2>4. u \in Processor /\ Like(c, u) /\ u.p = c.p /\ u.pc = pc
    <3>1. u \in Processor
      BY <2>2 DEF StackAt
    <3>2. u.p = r.p /\ u.pc = r.pc /\ Like(r, u)
      BY <2>2, LikeIsTransitive DEF Beside
    <3> HIDE DEF u
    <3> QED BY <1>8, <1>9, <3>1, <3>2, LikeIsTransitive
  <2> HIDE DEF u
  <2>5. SameStack(u, v) /\ Like(u, v) /\ v.pbr = c.pbr /\ v.p = u.p /\ v.pc = u.pc
    BY <2>3, <2>4, Fields, SettingPbr
  <2> HIDE DEF v
  <2>6. /\ v \in Processor /\ Like(c, v) /\ v.p = c.p /\ v.pc = pc /\ v.pbr = c.pbr
        /\ StackAt(c, v, 0)
    BY <2>2, <2>4, <2>5, LikeIsTransitive, SameStackAt DEF SameStack
  <2> QED BY <1>3, <1>10, <1>12, <2>6, StackEnds
<1> QED BY <1>11, <1>12

-------------------------------------------------------------------------------
(* Interrupts and RTI: one step of each, on every variant.                 *)

Fetched816(c, i) == [c EXCEPT !.pc = (c.pc + 1 + OperandBytes816(c, i)) % 65536]

(* A step fetches its operand and executes.                                *)
LEMMA Fetching816 ==
  ASSUME NEW c \in Processor, NEW i
  PROVE  /\ SameStack(c, Fetched816(c, i)) /\ Like(c, Fetched816(c, i))
         /\ Fetched816(c, i).p = c.p /\ Fetched816(c, i).pbr = c.pbr
         /\ Fetched816(c, i).pc = (c.pc + 1 + OperandBytes816(c, i)) % 65536
         /\ Fetched816(c, i) \in Processor
<1>1. (c.pc + 1 + OperandBytes816(c, i)) % 65536 \in Word
  <2>1. c.pc + 1 + OperandBytes816(c, i) \in Int
    BY OperandBytes816Type, Fields, Ranges, SMT
  <2> QED BY <2>1, Wraps, SMT
<1> QED BY <1>1, SettingPc DEF Fetched816, SameStack

LEMMA Stepping816 ==
  ASSUME NEW c \in Processor, NEW i, Exec816(Fetched816(c, i), i) \in Processor
  PROVE  LET done == Exec816(Fetched816(c, i), i)
         IN  /\ SameStack(done, Step816(c, i)) /\ Like(done, Step816(c, i))
             /\ Step816(c, i).p = done.p /\ Step816(c, i).pbr = done.pbr
             /\ Step816(c, i).pc = done.pc
<1> DEFINE done == Exec816(Fetched816(c, i), i)
           halted == done.halted \/ done.pc = c.pc
<1>1. halted \in BOOLEAN
  BY Fields
<1>2. Step816(c, i) = [done EXCEPT !.halted = halted]
  BY DEF Step816, Fetched816
<1> HIDE DEF done, halted
<1>3. done \in Processor
  BY DEF done
<1> QED BY <1>1, <1>2, <1>3, SettingHalted DEF done

(* An interrupt leaves its frame, RTI in the next step takes it.           *)
LEMMA ServiceFrames ==
  ASSUME NEW c \in Processor, NEW source \in DOMAIN Vectors816
  PROVE  Framed(c, Service816(c, source), c.pc,
                IF c.e THEN (c.p \cup {FlagU}) \ {FlagB} ELSE c.p)
<1> DEFINE h == [c EXCEPT !.halted = FALSE]
           p == IF c.e THEN (c.p \cup {FlagU}) \ {FlagB} ELSE c.p
           f == FrameOf(h, c.pc, p)
           v == Vector(f, IF c.e THEN Vectors816[source][1] ELSE Vectors816[source][2])
           s == Service816(c, source)
<1>1. SameStack(c, h) /\ Like(c, h) /\ h.pbr = c.pbr /\ h.e = c.e
  BY SettingHalted DEF SameStack
<1>2. s = [f EXCEPT !.pbr = 0, !.p = (@ \cup {FlagI}) \ {FlagD}, !.pc = v]
  BY <1>1 DEF Service816, Entered, FrameOf
<1>3. p \in SUBSET Flags /\ c.pc \in Word
  BY Fields, FlagValues
<1> HIDE DEF p, h
<1>4. StackAt(c, h, 0)
  BY <1>1, StackStarts, SameStackAt
<1>5. Framed(c, f, c.pc, p)
  BY <1>1, <1>3, <1>4, FramePushed
<1> HIDE DEF f, v
<1>6. f \in Processor
  BY <1>5 DEF Framed, StackAt
<1>7. s \in Processor
  BY CalmService816, CalmIsTyped
<1>8. /\ s.sp = f.sp /\ s.sph = f.sph /\ s.e = f.e /\ s.mem = f.mem
      /\ s.variant = f.variant /\ s.a = f.a /\ s.b = f.b /\ s.x = f.x /\ s.xh = f.xh
      /\ s.y = f.y /\ s.yh = f.yh /\ s.d = f.d /\ s.dbr = f.dbr
  BY <1>2, <1>6 DEF Processor, Processors
<1> HIDE DEF s
<1>9. SameStack(f, s) /\ Like(f, s)
  BY <1>7, <1>8 DEF SameStack, Like
<1>10. Framed(c, s, c.pc, p)
  BY <1>5, <1>9, StillFramed
<1> QED BY <1>10 DEF s, p

LEMMA RtiIsRti ==
  /\ \A c : Exec816(c, Rti) = Rti816(c)
  /\ \A c : Exec(c, Rti) = Jump(c, Rti)
<1>1. Rti.op = "RTI"
  BY DEF Rti, NoInstruction
<1>2. \A c : Exec816(c, Rti) = Jump816(c, Rti)
  BY <1>1 DEF Exec816, AccReads, IdxReads, Stores, ReadModifyWrites, Registers816, FlagOps,
     ModeControls, Stack816, NewStack, Jumps816, Branches, BlockMoves, Idles816
<1>3. \A c : Jump816(c, Rti) = Rti816(c)
  BY <1>1 DEF Jump816
<1>4. \A c : Exec(c, Rti) = Jump(c, Rti)
  BY <1>1 DEF Exec, Loads, Stores, Transfers, StackOps, Logics, Compares, ReadModifyWrites,
     Steps, BitWrites, Branches, BitBranches, Jumps, FlagOps, Idles, Combined, Immediates,
     Unstable
<1> QED BY <1>2, <1>3, <1>4

(* What HandlersReturn says of one processor and one source. *)
Returned(c, back) == back.p = c.p /\ \A f \in Kept(c) : back[f] = c[f]

LEMMA KeptIsKept ==
  ASSUME NEW c, NEW back, Like(c, back), back.sp = c.sp, back.sph = c.sph, back.pc = c.pc,
         c.variant = "65816" /\ ~c.e => back.pbr = c.pbr
  PROVE  \A f \in Kept(c) : back[f] = c[f]
<1>1. CASE c.variant = "65816" /\ ~c.e
  BY <1>1 DEF Kept, Like
<1>2. CASE ~(c.variant = "65816" /\ ~c.e)
  BY <1>2 DEF Kept, Like
<1> QED BY <1>1, <1>2

(* A handler that returns at once, on a 65816.                             *)
LEMMA HandlerReturns816 ==
  ASSUME NEW c \in Processor, c.variant = "65816", Locked(c), IndexClear(c),
         NEW source \in DOMAIN Vectors816
  PROVE  Returned(c, Step816(Service816(c, source), Rti))
<1> DEFINE s == Service816(c, source)
           p == IF c.e THEN (c.p \cup {FlagU}) \ {FlagB} ELSE c.p
           f == Fetched816(s, Rti)
           done == Rti816(f)
           back == Step816(s, Rti)
<1>1. Framed(c, s, c.pc, p) /\ s \in Processor
  BY ServiceFrames, CalmService816, CalmIsTyped
<1>2. p \in SUBSET Flags /\ c.pc \in Word
  BY Fields, FlagValues
<1>3. c.p = p \cup (IF c.e THEN {FlagM, FlagX} ELSE {})
  BY Fields, FlagValues DEF Locked, FlagM, FlagX
<1> HIDE DEF s, p
<1>4. SameStack(s, f) /\ Like(s, f)
  BY <1>1, Fetching816
<1>5. Exec816(f, Rti) = done
  BY RtiIsRti
<1> HIDE DEF f
<1>6. Framed(c, f, c.pc, p)
  BY <1>1, <1>4, StillFramed
<1>7. /\ Like(c, done) /\ done.p = c.p /\ done.pc = c.pc
      /\ done \in Processor /\ done.sp = c.sp /\ done.sph = c.sph
      /\ ~c.e => done.pbr = c.pbr
  BY <1>2, <1>3, <1>6, RtiReturns
<1>8. /\ SameStack(done, back) /\ Like(done, back)
      /\ back.p = done.p /\ back.pbr = done.pbr /\ back.pc = done.pc
  BY <1>1, <1>5, <1>7, Stepping816 DEF f
<1> HIDE DEF done, back
<1>9. /\ Like(c, back) /\ back.sp = c.sp /\ back.sph = c.sph /\ back.pc = c.pc /\ back.p = c.p
      /\ ~c.e => back.pbr = c.pbr
  BY <1>7, <1>8, LikeIsTransitive DEF SameStack
<1>10. Returned(c, back)
  BY <1>9, KeptIsKept DEF Returned
<1> QED BY <1>10 DEF back, s

(* The stack of the 6502s is page one. *)
Slot8(c, n) == 256 + ((c.sp + n) % 256)

StackAt8(c, d, n) == d \in Processor /\ n \in Int /\ d.sp = (c.sp + n) % 256

SameButStack(c, d) == Like(c, d) /\ d.sph = c.sph /\ d.p = c.p /\ d.pc = c.pc /\ d.pbr = c.pbr

(* A push and a pull of a 6502.                                            *)
LEMMA StackPushed8 ==
  ASSUME NEW c \in Processor, NEW d, NEW m \in Int, NEW v \in Byte, StackAt8(c, d, m)
  PROVE  /\ StackAt8(c, Push(d, v), m - 1) /\ SameButStack(d, Push(d, v))
         /\ Read(Push(d, v), Slot8(c, m)) = v
         /\ \A n \in Int : m < n /\ n < m + 256 =>
              Read(Push(d, v), Slot8(c, n)) = Read(d, Slot8(c, n))
<1> DEFINE w == Write(d, 256 + d.sp, v)
           s == Push(d, v)
<1>1. d \in Processor /\ 256 + d.sp = Slot8(c, m)
  BY DEF StackAt8, Slot8
<1>2. s \in Processor
  BY <1>1, Pushing DEF Typed
<1>3. w \in Processor /\ w.sp = d.sp /\ w.sph = d.sph /\ SameButStack(d, w)
  <2>1. 256 + d.sp \in Address
    BY <1>1, Fields, Ranges
  <2>2. w \in Processor
    BY <1>1, <2>1, Writing, CalmIsTyped
  <2> QED BY <1>1, <2>2, WriteFrame DEF SameButStack, Like
<1>4. \A b : Read(w, b) = IF b = Slot8(c, m) THEN v ELSE Read(d, b)
  <2>1. \A b : Read(Write(d, 256 + d.sp, v), b) = IF b = 256 + d.sp THEN v ELSE Read(d, b)
    BY <1>1, WrittenRead
  <2> QED BY <1>1, <2>1
<1>5. s = Inc(w, "sp", -1)
  BY DEF Push
<1> HIDE DEF w, s
<1>6. s = [w EXCEPT !.sp = (w.sp + -1) % 256]
  BY <1>3, <1>5, StackMoves
<1>7. s.sp = (w.sp + -1) % 256 /\ s.mem = w.mem /\ SameButStack(w, s)
  BY <1>3, <1>6 DEF SameButStack, Like, Processor, Processors
<1>8. s.sp = (c.sp + (m - 1)) % 256
  <2>1. d.sp = (c.sp + m) % 256 /\ m + -1 = m - 1
    BY DEF StackAt8
  <2>2. (((c.sp + m) % 256) + -1) % 256 = (c.sp + (m + -1)) % 256
    BY AddingUp, StackPointers
  <2> QED BY <1>3, <1>7, <2>1, <2>2
<1>9. \A b : Read(s, b) = Read(w, b)
  BY <1>7, ReadsStay
<1>10. ASSUME NEW n \in Int, m < n, n < m + 256 PROVE Slot8(c, n) # Slot8(c, m)
  <2> DEFINE u == c.sp + m
             k == n - m
  <2>1. u \in Int /\ k \in Int /\ 0 < k /\ k < 256 /\ c.sp + n = u + k
    BY <1>10, StackPointers
  <2> HIDE DEF u, k
  <2>2. u % 256 # (u + k) % 256
    BY <2>1
  <2>3. (u % 256) \in Int /\ ((u + k) % 256) \in Int
    BY <2>1
  <2>4. 256 + (u % 256) # 256 + ((u + k) % 256)
    BY <2>2, <2>3
  <2> QED BY <2>1, <2>4 DEF Slot8, u
<1>11. SameButStack(d, s)
  BY <1>3, <1>7 DEF SameButStack, Like
<1>12. StackAt8(c, s, m - 1)
  BY <1>2, <1>8 DEF StackAt8
<1>13. \A n \in Int : m < n /\ n < m + 256 => Read(s, Slot8(c, n)) = Read(d, Slot8(c, n))
  BY <1>4, <1>9, <1>10
<1> QED BY <1>4, <1>9, <1>11, <1>12, <1>13 DEF s

LEMMA StackReturns8 ==
  ASSUME NEW c \in Processor
  PROVE  /\ (c.sp + 0) % 256 = c.sp /\ StackAt8(c, c, 0)
         /\ \A m, n \in Int : (((c.sp + m) % 256) + n) % 256 = (c.sp + (m + n)) % 256
<1>1. (c.sp + 0) % 256 = c.sp
  BY StackPointers
<1>2. c.sp \in Int
  BY StackPointers
<1>3. \A m, n \in Int : (((c.sp + m) % 256) + n) % 256 = (c.sp + (m + n)) % 256
  BY <1>2, AddingUp
<1>4. StackAt8(c, c, 0)
  BY <1>1 DEF StackAt8
<1> QED BY <1>1, <1>3, <1>4

(* Three pushes, and three pulls that undo them.                           *)
LEMMA StackThree ==
  ASSUME NEW c \in Processor
  PROVE  /\ \A n \in Int : (((c.sp + -3) % 256) + n) % 256 = (c.sp + (-3 + n)) % 256
         /\ (((c.sp + -3) % 256) + 3) % 256 = c.sp
<1> DEFINE a == c.sp
           k == -3
           j == 3
<1>1. a \in Int /\ (a + 0) % 256 = a
  BY StackPointers, StackReturns8
<1>2. k \in Int /\ j \in Int
  OBVIOUS
<1>3. k + j = 0
  OBVIOUS
<1> HIDE DEF a, k, j
<1>4. \A n \in Int : (((a + k) % 256) + n) % 256 = (a + (k + n)) % 256
  BY <1>1, <1>2, AddingUp
<1>5. (((a + k) % 256) + j) % 256 = (a + (k + j)) % 256
  BY <1>2, <1>4
<1>6. (((a + k) % 256) + j) % 256 = a
  BY <1>1, <1>3, <1>5
<1> QED BY <1>4, <1>6 DEF a, k, j

(* A handler that returns at once, on a 6502.                              *)
LEMMA HandlerReturns6502 ==
  ASSUME NEW c \in Processor, c.variant # "65816", Locked(c), NEW source \in DOMAIN Vectors6502
  PROVE  Returned(c, Step6502(Service6502(c, source), Rti))
<1> DEFINE p == (c.p \cup {FlagU}) \ {FlagB}
           one == Push(c, Hi(c.pc))
           two == Push(one, Lo(c.pc))
           f == Push(two, Num(p))
           v == Vector(f, Vectors6502[source])
           q == (c.p \cup {FlagI}) \ On(FlagD, CMOS(c))
           s == [f EXCEPT !.halted = FALSE, !.p = q, !.pc = v]
<1>1. /\ c.pc \in Word /\ c.pc \in Int /\ Lo(c.pc) \in Byte /\ Hi(c.pc) \in Byte
      /\ p \in SUBSET Flags /\ Num(p) \in Byte
  BY Fields, FlagValues, Ranges, LoHiType, NumType
<1>2. Service6502(c, source) = s
  BY DEF Service6502, Push16
<1> HIDE DEF p
<1>3. StackAt8(c, c, 0)
  BY StackReturns8
<1>4. /\ StackAt8(c, one, -1) /\ SameButStack(c, one) /\ Read(one, Slot8(c, 0)) = Hi(c.pc)
  <2>1. /\ StackAt8(c, one, 0 - 1) /\ SameButStack(c, one) /\ Read(one, Slot8(c, 0)) = Hi(c.pc)
    BY <1>1, <1>3, StackPushed8
  <2> QED BY <2>1
<1> HIDE DEF one
<1>5. /\ StackAt8(c, two, -2) /\ SameButStack(one, two) /\ Read(two, Slot8(c, -1)) = Lo(c.pc)
      /\ Read(two, Slot8(c, 0)) = Read(one, Slot8(c, 0))
  <2> DEFINE k == -1
  <2>1. k \in Int /\ StackAt8(c, one, k) /\ k < 0 /\ 0 < k + 256 /\ k - 1 = -2
    BY <1>4
  <2> HIDE DEF k
  <2>2. /\ StackAt8(c, two, k - 1) /\ SameButStack(one, two) /\ Read(two, Slot8(c, k)) = Lo(c.pc)
        /\ \A n \in Int : k < n /\ n < k + 256 => Read(two, Slot8(c, n)) = Read(one, Slot8(c, n))
    BY <1>1, <2>1, StackPushed8, SMTT(30)
  <2>3. Read(two, Slot8(c, 0)) = Read(one, Slot8(c, 0))
    BY <2>1, <2>2
  <2> HIDE DEF two
  <2> QED BY <2>1, <2>2, <2>3 DEF k
<1> HIDE DEF two
<1>6. /\ StackAt8(c, f, -3) /\ SameButStack(two, f) /\ Read(f, Slot8(c, -2)) = Num(p)
      /\ Read(f, Slot8(c, 0)) = Read(two, Slot8(c, 0))
      /\ Read(f, Slot8(c, -1)) = Read(two, Slot8(c, -1))
  <2> DEFINE k == -2
  <2>1. k \in Int /\ StackAt8(c, two, k) /\ k < -1 /\ 0 < k + 256 /\ k - 1 = -3
    BY <1>5
  <2> HIDE DEF k
  <2>2. /\ StackAt8(c, f, k - 1) /\ SameButStack(two, f) /\ Read(f, Slot8(c, k)) = Num(p)
        /\ \A n \in Int : k < n /\ n < k + 256 => Read(f, Slot8(c, n)) = Read(two, Slot8(c, n))
    BY <1>1, <2>1, StackPushed8, SMTT(30)
  <2>3. /\ Read(f, Slot8(c, 0)) = Read(two, Slot8(c, 0))
        /\ Read(f, Slot8(c, -1)) = Read(two, Slot8(c, -1))
    BY <2>1, <2>2
  <2> HIDE DEF f
  <2> QED BY <2>1, <2>2, <2>3 DEF k
<1> HIDE DEF f, v, q
<1>7. f \in Processor /\ f.sp = (c.sp + -3) % 256 /\ f.sph = c.sph /\ Like(c, f)
  BY <1>4, <1>5, <1>6 DEF StackAt8, SameButStack, Like
<1>8. s \in Processor
  BY <1>2, TypedService6502 DEF Vectors6502, Typed
<1>9. s.sp = f.sp /\ s.sph = f.sph /\ s.mem = f.mem /\ Like(f, s)
  BY <1>7 DEF Like, Processor, Processors
<1> HIDE DEF s
<1> DEFINE t == [s EXCEPT !.pc = (s.pc + 1 + OperandBytes(Rti.mode)) % 65536]
           u == Popped(t, 3)
           pulled == PulledP(Top(t, 1))
           pc == Top16(t, 2)
           r == [u EXCEPT !.p = pulled, !.pc = pc]
           halted == r.halted \/ (r.pc = s.pc /\ s.variant # "NES")
           back == [r EXCEPT !.halted = halted]
<1>10. Step6502(s, Rti) = back
  <2>1. Rti.op = "RTI"
    BY DEF Rti, NoInstruction
  <2>2. Jump(t, Rti) = r
    BY <2>1 DEF Jump
  <2>3. Exec(t, Rti) = r
    BY <2>2, RtiIsRti
  <2> HIDE DEF r
  <2> QED BY <2>3 DEF Step6502
<1>11. (s.pc + 1 + OperandBytes(Rti.mode)) % 65536 \in Word
  <2>1. OperandBytes(Rti.mode) \in Int
    BY DEF OperandBytes
  <2>2. s.pc + 1 + OperandBytes(Rti.mode) \in Int
    BY <1>8, <2>1, Fields, Ranges
  <2> QED BY <2>2, Wraps
<1>12. t \in Processor /\ t.sp = s.sp /\ t.sph = s.sph /\ t.mem = s.mem /\ Like(s, t)
  BY <1>8, <1>11, SettingPc DEF SameStack
<1> HIDE DEF t
<1>13. \A b : Read(t, b) = Read(f, b)
  BY <1>9, <1>12, ReadsStay
<1>14. \A n \in Int : Top(t, n) = Read(f, Slot8(c, n - 3))
  <2> TAKE n \in Int
  <2>1. t.sp = (c.sp + -3) % 256 /\ -3 + n = n - 3
    BY <1>7, <1>9, <1>12
  <2>2. (((c.sp + -3) % 256) + n) % 256 = (c.sp + (-3 + n)) % 256
    BY StackThree
  <2> QED BY <1>13, <2>1, <2>2 DEF Top, Slot8
<1>15. /\ Top(t, 1) = Num(p) /\ Top(t, 2) = Lo(c.pc) /\ Top(t, 3) = Hi(c.pc)
  <2>1. 1 - 3 = -2 /\ 2 - 3 = -1 /\ 3 - 3 = 0
    OBVIOUS
  <2> QED BY <1>4, <1>5, <1>6, <1>14, <2>1
<1>16. pulled = c.p
  <2>1. pulled = (p \ {FlagB}) \cup {FlagU}
    BY <1>1, <1>15, BitsOfNum DEF PulledP
  <2>2. c.p \cap {FlagB, FlagU} = {FlagU}
    BY DEF Locked
  <2> QED BY <2>1, <2>2, FlagValues DEF p
<1>17. pc = c.pc
  <2>1. Top16(t, 2) = Pair(Top(t, 2), Top(t, 2 + 1)) /\ 2 + 1 = 3
    BY DEF Top16
  <2> QED BY <1>1, <1>15, <2>1, PairOfHalves
<1> HIDE DEF pulled, pc
<1>18. u \in Processor /\ u = [t EXCEPT !.sp = (t.sp + 3) % 256]
  BY <1>12, StackMoves DEF Popped, Typed
<1>19. (t.sp + 3) % 256 = c.sp
  <2>1. t.sp = (c.sp + -3) % 256
    BY <1>7, <1>9, <1>12
  <2> QED BY <2>1, StackThree
<1>20. u.sp = c.sp /\ u.sph = t.sph /\ Like(t, u)
  BY <1>12, <1>18, <1>19 DEF Like, Processor, Processors
<1> HIDE DEF u, halted
<1>21. /\ back.sp = u.sp /\ back.sph = u.sph /\ back.p = pulled /\ back.pc = pc /\ Like(u, back)
  BY <1>18 DEF Like, Processor, Processors
<1> HIDE DEF back
<1>22. Like(c, back) /\ back.sp = c.sp /\ back.sph = c.sph /\ back.pc = c.pc /\ back.p = c.p
  BY <1>7, <1>9, <1>12, <1>16, <1>17, <1>20, <1>21, LikeIsTransitive
<1>23. Returned(c, back)
  BY <1>22, KeptIsKept DEF Returned
<1> QED BY <1>2, <1>10, <1>23 DEF s

(* Every handler that returns at once leaves the processor as it was.      *)
LEMMA HandlersReturnHere ==
  ASSUME CoresInv
  PROVE  HandlersReturn
<1>1. cpu \in Processor
  BY DEF CoresInv, CoresTypeOK
<1>2. ASSUME NEW source \in Sources(cpu), Locked(cpu) /\ IndexClear(cpu)
      PROVE  Returned(cpu, Stepped(Served(cpu, source), Rti))
  <2>1. Served(cpu, source).variant = cpu.variant
    BY <1>1, <1>2, SteadyService DEF Steady, Typed
  <2>2. CASE cpu.variant = "65816"
    <3>1. source \in DOMAIN Vectors816
      BY <1>2 DEF Sources, Vectors816
    <3> QED BY <1>1, <1>2, <2>1, <2>2, <3>1, HandlerReturns816 DEF Stepped, Served
  <2>3. CASE cpu.variant # "65816"
    <3>1. source \in DOMAIN Vectors6502
      BY <1>2, <2>3 DEF Sources, Vectors6502
    <3> QED BY <1>1, <1>2, <2>1, <2>3, <3>1, HandlerReturns6502 DEF Stepped, Served
  <2> QED BY <2>2, <2>3
<1> QED BY <1>2 DEF HandlersReturn, Returned

-------------------------------------------------------------------------------
(* Pushes and pulls of a register at its width, each a step of its own.    *)

(* A push of eight or sixteen bits, and the pull that undoes it. *)
Kin(c, d) == Like(c, d) /\ d.p = c.p /\ d.pbr = c.pbr

Restored(c, d) == Like(c, d) /\ d.sp = c.sp /\ d.sph = c.sph /\ d.pbr = c.pbr

Half(v, bits) == IF bits = 16 THEN v ELSE Lo(v)

(* One after another.                                                      *)
LEMMA KinIsTransitive ==
  /\ \A b, c, d : Kin(b, c) /\ Kin(c, d) => Kin(b, d)
  /\ \A c, d : Beside(c, d) => Kin(c, d)
  /\ \A c, d : Kin(c, d) => AccBits(d) = AccBits(c) /\ IdxBits(d) = IdxBits(c)
  BY DEF Kin, Like, Beside, AccBits, IdxBits, MWide, XWide

(* A push at either width fills its slots.                                 *)
LEMMA PushedWide16 ==
  ASSUME NEW c \in Processor, NEW f, StackAt(c, f, 0), NEW v \in Word
  PROVE  /\ Beside(f, SpPush16(f, v)) /\ SpPush16(f, v) \in Processor
         /\ \A h : SameStack(SpPush16(f, v), h) =>
              /\ StackAt(c, SpMoved(h, 2), 0) /\ Beside(h, SpMoved(h, 2))
              /\ SpTop16(h, 1) = v
<1> DEFINE g == SpPush16(f, v)
           m == -2
<1>1. /\ StackAt(c, g, 0 - 2) /\ Beside(f, g)
      /\ Read(g, Slot(c, 0)) = Hi(v) /\ Read(g, Slot(c, 0 - 1)) = Lo(v)
  <2> DEFINE z == 0
  <2>1. z \in Int /\ StackAt(c, f, z) /\ v \in Int
    BY Ranges
  <2> HIDE DEF z, g
  <2>2. /\ StackAt(c, g, z - 2) /\ Beside(f, g)
        /\ Read(g, Slot(c, z)) = Hi(v) /\ Read(g, Slot(c, z - 1)) = Lo(v)
    BY <2>1, StackPushed16 DEF g
  <2> QED BY <2>2 DEF z
<1>2. m \in Int /\ m = 0 - 2 /\ m + 1 = 0 - 1 /\ m + 1 + 1 = 0 /\ m + 2 = 0
  OBVIOUS
<1> HIDE DEF g, m
<1>3. StackAt(c, g, m)
  BY <1>1, <1>2
<1>4. g \in Processor
  BY <1>1 DEF StackAt
<1>5. ASSUME NEW h, SameStack(g, h)
      PROVE  /\ StackAt(c, SpMoved(h, 2), 0) /\ Beside(h, SpMoved(h, 2)) /\ SpTop16(h, 1) = v
  <2>1. StackAt(c, h, m) /\ \A a : Read(h, a) = Read(g, a)
    BY <1>3, <1>5, StackStays, ReadsStay DEF SameStack
  <2>2. StackAt(c, SpMoved(h, 2), m + 2) /\ Beside(h, SpMoved(h, 2))
    BY <1>2, <2>1, StackMoved
  <2>3. SpTop16(h, 1) = Pair(Read(h, Slot(c, m + 1)), Read(h, Slot(c, m + 1 + 1)))
    <3>0. m \in Int
      BY <1>2
    <3>1. \A n \in Int : SpTop16(h, n) = Pair(Read(h, Slot(c, m + n)), Read(h, Slot(c, m + n + 1)))
      BY <2>1, <3>0, StackTop, SMTT(30)
    <3> QED BY <3>1
  <2>4. SpTop16(h, 1) = Pair(Lo(v), Hi(v))
    BY <1>1, <1>2, <2>1, <2>3
  <2> QED BY <1>2, <2>2, <2>4, PairOfHalves
<1> QED BY <1>1, <1>4, <1>5 DEF g

LEMMA PushedWide8 ==
  ASSUME NEW c \in Processor, NEW f, StackAt(c, f, 0), NEW v \in Byte
  PROVE  /\ Beside(f, SpPush8(f, v)) /\ SpPush8(f, v) \in Processor
         /\ \A h : SameStack(SpPush8(f, v), h) =>
              /\ StackAt(c, SpMoved(h, 1), 0) /\ Beside(h, SpMoved(h, 1))
              /\ SpTop(h, 1) = v
<1> DEFINE g == SpPush8(f, v)
           m == -1
<1>1. /\ StackAt(c, g, 0 - 1) /\ Beside(f, g) /\ Read(g, Slot(c, 0)) = v
  BY StackPushed
<1>2. m \in Int /\ m = 0 - 1 /\ m + 1 = 0
  OBVIOUS
<1> HIDE DEF g, m
<1>3. StackAt(c, g, m)
  BY <1>1, <1>2
<1>4. g \in Processor
  BY <1>1 DEF StackAt
<1>5. ASSUME NEW h, SameStack(g, h)
      PROVE  /\ StackAt(c, SpMoved(h, 1), 0) /\ Beside(h, SpMoved(h, 1)) /\ SpTop(h, 1) = v
  <2>1. StackAt(c, h, m) /\ \A a : Read(h, a) = Read(g, a)
    BY <1>3, <1>5, StackStays, ReadsStay DEF SameStack
  <2>2. StackAt(c, SpMoved(h, 1), m + 1) /\ Beside(h, SpMoved(h, 1))
    BY <1>2, <2>1, StackMoved
  <2>3. SpTop(h, 1) = Read(h, Slot(c, m + 1))
    BY <1>2, <2>1, StackTop
  <2> QED BY <1>1, <1>2, <2>1, <2>2, <2>3
<1> QED BY <1>1, <1>4, <1>5 DEF g

LEMMA PushedWide ==
  ASSUME NEW c \in Processor, NEW f, StackAt(c, f, 0), NEW v \in Word, NEW bits \in {8, 16}
  PROVE  /\ Beside(f, PushWide(f, v, bits)) /\ PushWide(f, v, bits) \in Processor
         /\ \A h : SameStack(PushWide(f, v, bits), h) =>
              /\ StackAt(c, SpPulled(h, bits), 0) /\ Beside(h, SpPulled(h, bits))
              /\ PulledWide(h, bits) = Half(v, bits)
<1>1. 8 \div 8 = 1 /\ 16 \div 8 = 2
  OBVIOUS
<1>2. CASE bits = 16
  BY <1>1, <1>2, PushedWide16 DEF PushWide, SpPulled, PulledWide, Half
<1>3. CASE bits = 8
  <2>1. Lo(v) \in Byte
    BY LoHiType, Ranges
  <2> QED BY <1>1, <1>3, <2>1, PushedWide8 DEF PushWide, SpPulled, PulledWide, Half
<1> QED BY <1>2, <1>3

(* A push, the step it is part of, and the fetch of the instruction after it. *)
LEMMA PushThenFetch ==
  ASSUME NEW c \in Processor, NEW i, NEW j, NEW v \in Word, NEW bits \in {8, 16},
         SameStack(PushWide(Fetched816(c, i), v, bits), Exec816(Fetched816(c, i), i)),
         Kin(PushWide(Fetched816(c, i), v, bits), Exec816(Fetched816(c, i), i)),
         NEW h, h = Fetched816(Step816(c, i), j)
  PROVE  /\ h \in Processor /\ Kin(c, h)
         /\ StackAt(c, SpPulled(h, bits), 0) /\ Kin(c, SpPulled(h, bits))
         /\ PulledWide(h, bits) = Half(v, bits)
<1> DEFINE f == Fetched816(c, i)
           g == PushWide(f, v, bits)
           done == Exec816(f, i)
           s == Step816(c, i)
<1>1. SameStack(c, f) /\ Kin(c, f)
  BY Fetching816 DEF Kin
<1>2. StackAt(c, f, 0)
  BY <1>1, StackStarts, SameStackAt
<1>3. /\ Beside(f, g) /\ g \in Processor
      /\ \A k : SameStack(g, k) =>
              /\ StackAt(c, SpPulled(k, bits), 0) /\ Beside(k, SpPulled(k, bits))
              /\ PulledWide(k, bits) = Half(v, bits)
  BY <1>2, PushedWide
<1>4. SameStack(done, s) /\ Kin(done, s)
  <2>1. done \in Processor
    BY DEF SameStack
  <2> QED BY <2>1, Stepping816 DEF Kin
<1>5. s \in Processor
  BY <1>4 DEF SameStack
<1>6. SameStack(s, h) /\ Kin(s, h)
  BY <1>5, Fetching816 DEF Kin
<1> HIDE DEF f, g, s, done
<1>7. SameStack(g, h)
  BY <1>4, <1>6 DEF SameStack, f, g, done
<1>8. Kin(c, h)
  <2>1. Kin(g, done)
    BY DEF f, g, done
  <2> QED BY <1>1, <1>3, <1>4, <1>6, <2>1, KinIsTransitive
<1>9. Kin(h, SpPulled(h, bits))
  BY <1>3, <1>7, KinIsTransitive
<1>10. Kin(c, SpPulled(h, bits))
  BY <1>8, <1>9, KinIsTransitive
<1> QED BY <1>3, <1>6, <1>7, <1>8, <1>10 DEF SameStack

(* Loading a register with what was pushed of it. *)
LEMMA RestoredZN ==
  ASSUME NEW c, NEW d \in Processor, Restored(c, d), NEW v, NEW bits
  PROVE  Restored(c, SetZN(d, v, bits))
<1> DEFINE p == (d.p \ {FlagN, FlagZ}) \cup On(FlagZ, v = 0) \cup On(FlagN, Bit(v, bits - 1) = 1)
<1>1. SetZN(d, v, bits) = [d EXCEPT !.p = p]
  BY DEF SetZN
<1> HIDE DEF p
<1> QED BY <1>1 DEF Restored, Like, Processor, Processors

LEMMA HalvesReload ==
  ASSUME NEW lo \in Byte, NEW hi \in Byte
  PROVE  /\ Lo(Pair(lo, hi)) = lo /\ Hi(Pair(lo, hi)) = hi /\ Lo(Lo(Pair(lo, hi))) = lo
  BY HalvesOfPair, LoHiOfByte

LEMMA ReloadingAcc ==
  ASSUME NEW c \in Processor, NEW r \in Processor, Restored(c, r), AccBits(r) = AccBits(c)
  PROVE  Restored(c, LoadAcc(r, Half(A16(c), AccBits(c))))
<1> DEFINE v == Half(A16(c), AccBits(c))
           w == Lo(v)
           x == Hi(v)
           n == [r EXCEPT !.a = w]
           m == [r EXCEPT !.a = w, !.b = x]
<1>1. w = c.a
  BY Fields, HalvesReload DEF Half, A16
<1>2. MWide(r) => x = c.b
  BY Fields, Widths, HalvesReload DEF Half, A16
<1>3. LoadAcc(r, v) = IF MWide(r) THEN SetZN(m, v, 16) ELSE SetZN(n, w, 8)
  BY DEF LoadAcc, SetA16
<1> HIDE DEF v, w, x
<1>4. n.a = w /\ n.b = r.b /\ Restored([r EXCEPT !.a = c.a], n) /\ n \in Processor
  BY <1>1, Fields DEF Restored, Like, Processor, Processors
<1>5. Restored(c, n)
  BY <1>1, <1>4 DEF Restored, Like, Processor, Processors
<1>6. CASE MWide(r)
  <2>1. m \in Processor /\ Restored(c, m)
    BY <1>1, <1>2, <1>6, Fields DEF Restored, Like, Processor, Processors
  <2> HIDE DEF m
  <2> QED BY <1>3, <1>6, <2>1, RestoredZN DEF v
<1>7. CASE ~MWide(r)
  <2> HIDE DEF n
  <2> QED BY <1>3, <1>4, <1>5, <1>7, RestoredZN DEF v
<1> QED BY <1>6, <1>7

LEMMA ReloadingIdx ==
  ASSUME NEW c \in Processor, NEW r \in Processor, Restored(c, r), IdxBits(r) = IdxBits(c)
  PROVE  /\ Restored(c, LoadIdxX(r, Half(X16(c), IdxBits(c))))
         /\ Restored(c, LoadIdxY(r, Half(Y16(c), IdxBits(c))))
<1>1. Restored(c, LoadIdxX(r, Half(X16(c), IdxBits(c))))
  <2> DEFINE v == Half(X16(c), IdxBits(c))
             w == Lo(v)
             x == Hi(v)
             n == [r EXCEPT !.x = w]
             m == [r EXCEPT !.x = w, !.xh = x]
  <2>1. w = c.x
    BY Fields, HalvesReload DEF Half, X16
  <2>2. XWide(r) => x = c.xh
    BY Fields, Widths, HalvesReload DEF Half, X16
  <2>3. LoadIdxX(r, v) = IF XWide(r) THEN SetZN(m, v, 16) ELSE SetZN(n, w, 8)
    BY DEF LoadIdxX
  <2> HIDE DEF v, w, x
  <2>4. n \in Processor /\ Restored(c, n)
    BY <2>1, Fields DEF Restored, Like, Processor, Processors
  <2>5. CASE XWide(r)
    <3>1. m \in Processor /\ Restored(c, m)
      BY <2>1, <2>2, <2>5, Fields DEF Restored, Like, Processor, Processors
    <3> HIDE DEF m
    <3> QED BY <2>3, <2>5, <3>1, RestoredZN DEF v
  <2>6. CASE ~XWide(r)
    <3> HIDE DEF n
    <3> QED BY <2>3, <2>4, <2>6, RestoredZN DEF v
  <2> QED BY <2>5, <2>6
<1>2. Restored(c, LoadIdxY(r, Half(Y16(c), IdxBits(c))))
  <2> DEFINE v == Half(Y16(c), IdxBits(c))
             w == Lo(v)
             x == Hi(v)
             n == [r EXCEPT !.y = w]
             m == [r EXCEPT !.y = w, !.yh = x]
  <2>1. w = c.y
    BY Fields, HalvesReload DEF Half, Y16
  <2>2. XWide(r) => x = c.yh
    BY Fields, Widths, HalvesReload DEF Half, Y16
  <2>3. LoadIdxY(r, v) = IF XWide(r) THEN SetZN(m, v, 16) ELSE SetZN(n, w, 8)
    BY DEF LoadIdxY
  <2> HIDE DEF v, w, x
  <2>4. n \in Processor /\ Restored(c, n)
    BY <2>1, Fields DEF Restored, Like, Processor, Processors
  <2>5. CASE XWide(r)
    <3>1. m \in Processor /\ Restored(c, m)
      BY <2>1, <2>2, <2>5, Fields DEF Restored, Like, Processor, Processors
    <3> HIDE DEF m
    <3> QED BY <2>3, <2>5, <3>1, RestoredZN DEF v
  <2>6. CASE ~XWide(r)
    <3> HIDE DEF n
    <3> QED BY <2>3, <2>4, <2>6, RestoredZN DEF v
  <2> QED BY <2>5, <2>6
<1> QED BY <1>1, <1>2

(* The instructions of CallsReturn, and what executes them.                *)
LEMMA Ops ==
  \A op, mode : /\ Op(op, mode).op = op /\ Op(op, mode).mode = mode /\ Op(op, mode).arg = 4660
  BY DEF Op, NoInstruction

LEMMA Dispatch ==
  ASSUME NEW c, NEW i
  PROVE  /\ i.op \in Stack816 => Exec816(c, i) = StackOp816(c, i.op)
         /\ i.op \in NewStack => Exec816(c, i) = NewStackOp(c, i)
         /\ i.op \in Jumps816 => Exec816(c, i) = Jump816(c, i)
<1>1. CASE i.op \in Stack816
  <2>1. /\ i.op \notin AccReads /\ i.op \notin IdxReads /\ i.op \notin Stores
        /\ i.op \notin ReadModifyWrites \cup {"TSB", "TRB"} /\ i.op \notin Registers816
        /\ i.op \notin FlagOps /\ i.op \notin ModeControls /\ i.op \notin NewStack
        /\ i.op \notin Jumps816 /\ i.op \notin Branches \cup {"BRL"} /\ i.op # "BRK"
        /\ i.op # "COP" /\ i.op \notin BlockMoves /\ i.op \notin Idles816
    BY <1>1 DEF AccReads, IdxReads, Stores, ReadModifyWrites, Registers816, FlagOps,
       ModeControls, Stack816, NewStack, Jumps816, Branches, BlockMoves, Idles816
  <2> QED BY <1>1, <2>1, Zenon DEF Exec816
<1>2. CASE i.op \in NewStack
  <2>1. /\ i.op \notin AccReads /\ i.op \notin IdxReads /\ i.op \notin Stores
        /\ i.op \notin ReadModifyWrites \cup {"TSB", "TRB"} /\ i.op \notin Registers816
        /\ i.op \notin FlagOps /\ i.op \notin ModeControls /\ i.op \notin Stack816
        /\ i.op \notin Jumps816 /\ i.op \notin Branches \cup {"BRL"} /\ i.op # "BRK"
        /\ i.op # "COP" /\ i.op \notin BlockMoves /\ i.op \notin Idles816
    BY <1>2 DEF AccReads, IdxReads, Stores, ReadModifyWrites, Registers816, FlagOps,
       ModeControls, Stack816, NewStack, Jumps816, Branches, BlockMoves, Idles816
  <2> QED BY <1>2, <2>1, Zenon DEF Exec816
<1>3. CASE i.op \in Jumps816
  <2>1. /\ i.op \notin AccReads /\ i.op \notin IdxReads /\ i.op \notin Stores
        /\ i.op \notin ReadModifyWrites \cup {"TSB", "TRB"} /\ i.op \notin Registers816
        /\ i.op \notin FlagOps /\ i.op \notin ModeControls /\ i.op \notin NewStack
        /\ i.op \notin Stack816 /\ i.op \notin Branches \cup {"BRL"} /\ i.op # "BRK"
        /\ i.op # "COP" /\ i.op \notin BlockMoves /\ i.op \notin Idles816
    BY <1>3 DEF AccReads, IdxReads, Stores, ReadModifyWrites, Registers816, FlagOps,
       ModeControls, Stack816, NewStack, Jumps816, Branches, BlockMoves, Idles816
  <2> QED BY <1>3, <2>1, Zenon DEF Exec816
<1>4. Stack816 \cap NewStack = {} /\ Stack816 \cap Jumps816 = {} /\ NewStack \cap Jumps816 = {}
  BY DEF Stack816, NewStack, Jumps816
<1> QED BY <1>1, <1>2, <1>3

LEMMA StackExecs ==
  ASSUME NEW c
  PROVE  /\ Exec816(c, Op("PHA", "IMP")) = PushWide(c, A16(c), AccBits(c))
         /\ Exec816(c, Op("PHX", "IMP")) = PushWide(c, X16(c), IdxBits(c))
         /\ Exec816(c, Op("PHY", "IMP")) = PushWide(c, Y16(c), IdxBits(c))
         /\ Exec816(c, Op("PHB", "IMP")) = SpPush8(c, c.dbr)
         /\ Exec816(c, Op("PLA", "IMP"))
              = LoadAcc(SpPulled(c, AccBits(c)), PulledWide(c, AccBits(c)))
         /\ Exec816(c, Op("PLX", "IMP"))
              = LoadIdxX(SpPulled(c, IdxBits(c)), PulledWide(c, IdxBits(c)))
         /\ Exec816(c, Op("PLY", "IMP"))
              = LoadIdxY(SpPulled(c, IdxBits(c)), PulledWide(c, IdxBits(c)))
         /\ Exec816(c, Op("PLB", "IMP"))
              = SetZN([SpMoved(c, 1) EXCEPT !.dbr = SpTop(c, 1)], SpTop(c, 1), 8)
<1>1. \A op \in Stack816 : Exec816(c, Op(op, "IMP")) = StackOp816(c, op)
  BY Ops, Dispatch
<1>2. {"PHA", "PHX", "PHY", "PHB", "PLA", "PLX", "PLY", "PLB"} \subseteq Stack816
  BY DEF Stack816
<1> QED BY <1>1, <1>2 DEF StackOp816

LEMMA PhdExec ==
  \A c : Exec816(c, Op("PHD", "IMP"))
           = Reforced(NewPush16(c, c.d))
<1> TAKE c
<1>1. Exec816(c, Op("PHD", "IMP")) = NewStackOp(c, Op("PHD", "IMP"))
  BY Ops, Dispatch DEF NewStack
<1>2. NewStackOp(c, Op("PHD", "IMP"))
        = Reforced(NewPush16(c, c.d))
  BY Ops DEF NewStackOp
<1> QED BY <1>1, <1>2

LEMMA PldExec ==
  \A c : Exec816(c, Op("PLD", "IMP"))
           = Reforced(SetZN([NewMoved(c, 2) EXCEPT !.d = NewTop16(c, 1)], NewTop16(c, 1), 16))
<1> TAKE c
<1>1. Exec816(c, Op("PLD", "IMP")) = NewStackOp(c, Op("PLD", "IMP"))
  BY Ops, Dispatch DEF NewStack
<1>2. NewStackOp(c, Op("PLD", "IMP"))
        = Reforced(SetZN([NewMoved(c, 2) EXCEPT !.d = NewTop16(c, 1)], NewTop16(c, 1), 16))
  BY Ops DEF NewStackOp
<1> QED BY <1>1, <1>2

LEMMA JsrExec ==
  \A c : Exec816(c, Op("JSR", "JSRABS"))
           = [SpPush16(c, (c.pc - 1) % 65536) EXCEPT !.pc = 4660]
<1> TAKE c
<1>1. Exec816(c, Op("JSR", "JSRABS")) = Jump816(c, Op("JSR", "JSRABS"))
  BY Ops, Dispatch DEF Jumps816
<1>2. Jump816(c, Op("JSR", "JSRABS"))
        = [SpPush16(c, (c.pc - 1) % 65536) EXCEPT !.pc = 4660]
  BY Ops DEF Jump816
<1> QED BY <1>1, <1>2

LEMMA JsrIndirectExec ==
  \A c : Exec816(c, Op("JSR", "IAX"))
           = JsrIndirect(c, Op("JSR", "IAX"))
<1> TAKE c
<1>1. Exec816(c, Op("JSR", "IAX")) = Jump816(c, Op("JSR", "IAX"))
  BY Ops, Dispatch DEF Jumps816
<1>2. Jump816(c, Op("JSR", "IAX"))
        = JsrIndirect(c, Op("JSR", "IAX"))
  BY Ops DEF Jump816
<1> QED BY <1>1, <1>2

LEMMA JslExec ==
  \A c : Exec816(c, Op("JSL", "LONG"))
           = Jsl(c, Op("JSL", "LONG"))
<1> TAKE c
<1>1. Exec816(c, Op("JSL", "LONG")) = Jump816(c, Op("JSL", "LONG"))
  BY Ops, Dispatch DEF Jumps816
<1>2. Jump816(c, Op("JSL", "LONG"))
        = Jsl(c, Op("JSL", "LONG"))
  BY Ops DEF Jump816
<1> QED BY <1>1, <1>2

LEMMA RtsExec ==
  \A c : Exec816(c, Op("RTS", "IMP"))
           = [SpMoved(c, 2) EXCEPT !.pc = (SpTop16(c, 1) + 1) % 65536]
<1> TAKE c
<1>1. Exec816(c, Op("RTS", "IMP")) = Jump816(c, Op("RTS", "IMP"))
  BY Ops, Dispatch DEF Jumps816
<1>2. Jump816(c, Op("RTS", "IMP"))
        = [SpMoved(c, 2) EXCEPT !.pc = (SpTop16(c, 1) + 1) % 65536]
  BY Ops DEF Jump816
<1> QED BY <1>1, <1>2

LEMMA RtlExec == \A c : Exec816(c, Op("RTL", "IMP")) = Rtl816(c)
<1> TAKE c
<1>1. Exec816(c, Op("RTL", "IMP")) = Jump816(c, Op("RTL", "IMP"))
  BY Ops, Dispatch DEF Jumps816
<1>2. Jump816(c, Op("RTL", "IMP")) = Rtl816(c)
  BY Ops DEF Jump816, Rtl816
<1> QED BY <1>1, <1>2

(* A push, its step, and the pull that undoes it, at the width of a register. *)
LEMMA KinValues ==
  ASSUME NEW c, NEW d, Kin(c, d)
  PROVE  /\ A16(d) = A16(c) /\ X16(d) = X16(c) /\ Y16(d) = Y16(c)
         /\ AccBits(d) = AccBits(c) /\ IdxBits(d) = IdxBits(c) /\ d.dbr = c.dbr
         /\ d.d = c.d /\ d.pbr = c.pbr /\ d.e = c.e
  BY KinIsTransitive DEF Kin, Like, A16, X16, Y16

LEMMA KinIsRestored ==
  ASSUME NEW c \in Processor, NEW r, Kin(c, r), StackAt(c, r, 0)
  PROVE  Restored(c, r) /\ r \in Processor
<1>1. r.sp = c.sp /\ r.sph = c.sph
  BY StackEnds
<1> QED BY <1>1 DEF Restored, Kin, StackAt

LEMMA RestoredStep ==
  ASSUME NEW c, NEW s \in Processor, NEW j, Exec816(Fetched816(s, j), j) \in Processor,
         Restored(c, Exec816(Fetched816(s, j), j))
  PROVE  Restored(c, Step816(s, j))
<1> DEFINE done == Exec816(Fetched816(s, j), j)
           back == Step816(s, j)
<1>1. SameStack(done, back) /\ Like(done, back) /\ back.pbr = done.pbr
  BY Stepping816
<1> HIDE DEF done, back
<1>2. Restored(c, done)
  BY DEF done
<1>3. Like(c, back)
  BY <1>1, <1>2, LikeIsTransitive DEF Restored
<1>4. Restored(c, back)
  BY <1>1, <1>2, <1>3 DEF Restored, SameStack
<1> QED BY <1>4 DEF back

LEMMA RestoredIsKept ==
  ASSUME NEW c, NEW d, Restored(c, d)
  PROVE  \A f \in Kept(c) \ {"pc"} : d[f] = c[f]
<1>1. CASE c.variant = "65816" /\ ~c.e
  BY <1>1 DEF Kept, Restored, Like
<1>2. CASE ~(c.variant = "65816" /\ ~c.e)
  BY <1>2 DEF Kept, Restored, Like
<1> QED BY <1>1, <1>2

LEMMA FetchKin ==
  ASSUME NEW c \in Processor, NEW i
  PROVE  /\ SameStack(c, Fetched816(c, i)) /\ Kin(c, Fetched816(c, i))
         /\ Fetched816(c, i) \in Processor /\ StackAt(c, Fetched816(c, i), 0)
<1>1. SameStack(c, Fetched816(c, i)) /\ Kin(c, Fetched816(c, i)) /\ Fetched816(c, i) \in Processor
  BY Fetching816 DEF Kin
<1>2. StackAt(c, c, 0)
  BY StackStarts
<1> QED BY <1>1, <1>2, StackStays DEF SameStack

LEMMA Reflexive ==
  ASSUME NEW g \in Processor
  PROVE  SameStack(g, g) /\ Kin(g, g)
  BY DEF SameStack, Kin, Like

(* The push of a register is followed by a processor that pulls it. *)
LEMMA PushAlone ==
  ASSUME NEW c \in Processor, NEW i, NEW j, NEW v \in Word, NEW bits \in {8, 16},
         Exec816(Fetched816(c, i), i) = PushWide(Fetched816(c, i), v, bits),
         NEW h, h = Fetched816(Step816(c, i), j)
  PROVE  /\ h \in Processor /\ Kin(c, h) /\ Step816(c, i) \in Processor
         /\ Restored(c, SpPulled(h, bits)) /\ Kin(c, SpPulled(h, bits))
         /\ SpPulled(h, bits) \in Processor
         /\ PulledWide(h, bits) = Half(v, bits)
<1> DEFINE g == PushWide(Fetched816(c, i), v, bits)
           done == Exec816(Fetched816(c, i), i)
<1>1. g \in Processor
  BY FetchKin, PushedWide
<1>2. SameStack(g, done) /\ Kin(g, done) /\ done \in Processor
  BY <1>1, Reflexive
<1>3. Step816(c, i) \in Processor
  BY <1>2, Stepping816 DEF SameStack
<1>4. /\ h \in Processor /\ Kin(c, h)
      /\ StackAt(c, SpPulled(h, bits), 0) /\ Kin(c, SpPulled(h, bits))
      /\ PulledWide(h, bits) = Half(v, bits)
  BY <1>2, PushThenFetch
<1> HIDE DEF g, done
<1> QED BY <1>3, <1>4, KinIsRestored

LEMMA PullsA ==
  ASSUME NEW c \in Processor
  PROVE  Restored(c, Step816(Step816(c, Op("PHA", "IMP")), Op("PLA", "IMP")))
<1> DEFINE i == Op("PHA", "IMP")
           j == Op("PLA", "IMP")
           f == Fetched816(c, i)
           s == Step816(c, i)
           h == Fetched816(s, j)
           v == A16(c)
           n == AccBits(c)
<1>1. v \in Word /\ n \in {8, 16}
  BY RegisterTypes, Widths
<1>2. Exec816(f, i) = PushWide(f, v, n)
  <2>1. Exec816(f, i) = PushWide(f, A16(f), AccBits(f))
    BY StackExecs
  <2>2. Kin(c, f)
    BY FetchKin
  <2> HIDE DEF f, i
  <2> QED BY <2>1, <2>2, KinValues
<1>3. Exec816(h, j) = LoadAcc(SpPulled(h, AccBits(h)), PulledWide(h, AccBits(h)))
  BY StackExecs
<1> HIDE DEF i, j
<1>4. /\ Kin(c, h) /\ s \in Processor /\ Restored(c, SpPulled(h, n)) /\ Kin(c, SpPulled(h, n))
      /\ SpPulled(h, n) \in Processor /\ PulledWide(h, n) = Half(v, n)
  <2> HIDE DEF v, n
  <2> QED BY <1>1, <1>2, PushAlone
<1> HIDE DEF s, h
<1>5. AccBits(h) = n /\ AccBits(SpPulled(h, n)) = n
  BY <1>4, KinValues
<1>6. Exec816(h, j) = LoadAcc(SpPulled(h, n), Half(v, n))
  BY <1>3, <1>4, <1>5
<1> DEFINE r == SpPulled(h, n)
<1>7. r \in Processor /\ Restored(c, r) /\ AccBits(r) = n
  BY <1>4, <1>5
<1> HIDE DEF r
<1>8. Restored(c, LoadAcc(r, Half(v, n)))
  BY <1>7, ReloadingAcc
<1>9. LoadAcc(r, Half(v, n)) \in Processor
  <2>1. Half(v, n) \in Int
    BY <1>1, LoHiType, Ranges DEF Half
  <2> QED BY <1>7, <2>1, LoadingAcc, CalmIsTyped
<1>10. Restored(c, Exec816(h, j)) /\ Exec816(h, j) \in Processor
  BY <1>6, <1>8, <1>9 DEF r
<1>11. Restored(c, Step816(s, j))
  BY <1>4, <1>10, RestoredStep DEF h
<1> QED BY <1>11 DEF s, i, j

(* PHX and PLX, PHY and PLY, PHB and PLB.                                  *)
LEMMA PullsX ==
  ASSUME NEW c \in Processor
  PROVE  Restored(c, Step816(Step816(c, Op("PHX", "IMP")), Op("PLX", "IMP")))
<1> DEFINE i == Op("PHX", "IMP")
           j == Op("PLX", "IMP")
           f == Fetched816(c, i)
           s == Step816(c, i)
           h == Fetched816(s, j)
           v == X16(c)
           n == IdxBits(c)
<1>1. v \in Word /\ n \in {8, 16}
  BY RegisterTypes, Widths
<1>2. Exec816(f, i) = PushWide(f, v, n)
  <2>1. Exec816(f, i) = PushWide(f, X16(f), IdxBits(f))
    BY StackExecs
  <2>2. Kin(c, f)
    BY FetchKin
  <2> HIDE DEF f, i
  <2> QED BY <2>1, <2>2, KinValues
<1>3. Exec816(h, j) = LoadIdxX(SpPulled(h, IdxBits(h)), PulledWide(h, IdxBits(h)))
  BY StackExecs
<1> HIDE DEF i, j
<1>4. /\ Kin(c, h) /\ s \in Processor /\ Restored(c, SpPulled(h, n)) /\ Kin(c, SpPulled(h, n))
      /\ SpPulled(h, n) \in Processor /\ PulledWide(h, n) = Half(v, n)
  <2> HIDE DEF v, n
  <2> QED BY <1>1, <1>2, PushAlone
<1> HIDE DEF s, h
<1>5. IdxBits(h) = n /\ IdxBits(SpPulled(h, n)) = n
  BY <1>4, KinValues
<1>6. Exec816(h, j) = LoadIdxX(SpPulled(h, n), Half(v, n))
  BY <1>3, <1>4, <1>5
<1> DEFINE r == SpPulled(h, n)
<1>7. r \in Processor /\ Restored(c, r) /\ IdxBits(r) = n
  BY <1>4, <1>5
<1> HIDE DEF r
<1>8. Restored(c, LoadIdxX(r, Half(v, n)))
  BY <1>7, ReloadingIdx
<1>9. LoadIdxX(r, Half(v, n)) \in Processor
  <2>1. Half(v, n) \in Int
    BY <1>1, LoHiType, Ranges DEF Half
  <2> QED BY <1>7, <2>1, LoadingIdx, CalmIsTyped
<1>10. Restored(c, Exec816(h, j)) /\ Exec816(h, j) \in Processor
  BY <1>6, <1>8, <1>9 DEF r
<1>11. Restored(c, Step816(s, j))
  BY <1>4, <1>10, RestoredStep DEF h
<1> QED BY <1>11 DEF s, i, j

LEMMA PullsY ==
  ASSUME NEW c \in Processor
  PROVE  Restored(c, Step816(Step816(c, Op("PHY", "IMP")), Op("PLY", "IMP")))
<1> DEFINE i == Op("PHY", "IMP")
           j == Op("PLY", "IMP")
           f == Fetched816(c, i)
           s == Step816(c, i)
           h == Fetched816(s, j)
           v == Y16(c)
           n == IdxBits(c)
<1>1. v \in Word /\ n \in {8, 16}
  BY RegisterTypes, Widths
<1>2. Exec816(f, i) = PushWide(f, v, n)
  <2>1. Exec816(f, i) = PushWide(f, Y16(f), IdxBits(f))
    BY StackExecs
  <2>2. Kin(c, f)
    BY FetchKin
  <2> HIDE DEF f, i
  <2> QED BY <2>1, <2>2, KinValues
<1>3. Exec816(h, j) = LoadIdxY(SpPulled(h, IdxBits(h)), PulledWide(h, IdxBits(h)))
  BY StackExecs
<1> HIDE DEF i, j
<1>4. /\ Kin(c, h) /\ s \in Processor /\ Restored(c, SpPulled(h, n)) /\ Kin(c, SpPulled(h, n))
      /\ SpPulled(h, n) \in Processor /\ PulledWide(h, n) = Half(v, n)
  <2> HIDE DEF v, n
  <2> QED BY <1>1, <1>2, PushAlone
<1> HIDE DEF s, h
<1>5. IdxBits(h) = n /\ IdxBits(SpPulled(h, n)) = n
  BY <1>4, KinValues
<1>6. Exec816(h, j) = LoadIdxY(SpPulled(h, n), Half(v, n))
  BY <1>3, <1>4, <1>5
<1> DEFINE r == SpPulled(h, n)
<1>7. r \in Processor /\ Restored(c, r) /\ IdxBits(r) = n
  BY <1>4, <1>5
<1> HIDE DEF r
<1>8. Restored(c, LoadIdxY(r, Half(v, n)))
  BY <1>7, ReloadingIdx
<1>9. LoadIdxY(r, Half(v, n)) \in Processor
  <2>1. Half(v, n) \in Int
    BY <1>1, LoHiType, Ranges DEF Half
  <2> QED BY <1>7, <2>1, LoadingIdx, CalmIsTyped
<1>10. Restored(c, Exec816(h, j)) /\ Exec816(h, j) \in Processor
  BY <1>6, <1>8, <1>9 DEF r
<1>11. Restored(c, Step816(s, j))
  BY <1>4, <1>10, RestoredStep DEF h
<1> QED BY <1>11 DEF s, i, j

LEMMA PullsB ==
  ASSUME NEW c \in Processor
  PROVE  Restored(c, Step816(Step816(c, Op("PHB", "IMP")), Op("PLB", "IMP")))
<1> DEFINE i == Op("PHB", "IMP")
           j == Op("PLB", "IMP")
           f == Fetched816(c, i)
           s == Step816(c, i)
           h == Fetched816(s, j)
           r == SpMoved(h, 1)
           w == SpTop(h, 1)
           q == [r EXCEPT !.dbr = w]
<1>1. c.dbr \in Byte /\ c.dbr \in Word /\ Lo(c.dbr) = c.dbr /\ 8 \in {8, 16} /\ 8 # 16
  BY Fields, LoHiOfByte, Wider
<1>2. Exec816(f, i) = PushWide(f, c.dbr, 8)
  <2>1. Exec816(f, i) = SpPush8(f, f.dbr)
    BY StackExecs
  <2>2. f.dbr = c.dbr
    BY FetchKin, KinValues
  <2> HIDE DEF f, i
  <2> QED BY <1>1, <2>1, <2>2 DEF PushWide
<1>3. Exec816(h, j) = SetZN(q, w, 8)
  BY StackExecs
<1> HIDE DEF i, j
<1>4. /\ s \in Processor /\ Restored(c, SpPulled(h, 8))
      /\ SpPulled(h, 8) \in Processor /\ PulledWide(h, 8) = Half(c.dbr, 8)
  BY <1>1, <1>2, PushAlone
<1>5. SpPulled(h, 8) = r /\ PulledWide(h, 8) = w /\ Half(c.dbr, 8) = c.dbr
  <2>1. 8 \div 8 = 1
    OBVIOUS
  <2> HIDE DEF h
  <2> QED BY <1>1, <2>1 DEF SpPulled, PulledWide, Half
<1> HIDE DEF s, h, r, w
<1>6. r \in Processor /\ Restored(c, r) /\ w = c.dbr
  BY <1>4, <1>5
<1>7. q \in Processor /\ Restored(c, q)
  BY <1>1, <1>6 DEF Restored, Like, Processor, Processors
<1> HIDE DEF q
<1>8. Restored(c, SetZN(q, w, 8)) /\ SetZN(q, w, 8) \in Processor
  BY <1>7, RestoredZN, SettingZN, CalmIsTyped
<1>9. Restored(c, Exec816(h, j)) /\ Exec816(h, j) \in Processor
  BY <1>3, <1>8
<1>10. Restored(c, Step816(s, j))
  BY <1>4, <1>9, RestoredStep DEF h
<1> QED BY <1>10 DEF s, i, j

(* A subroutine returns to the instruction after the call. *)
LEMMA CallReturns ==
  ASSUME NEW c \in Processor, NEW i, NEW w \in Word, OperandBytes816(c, i) = 2,
         Exec816(Fetched816(c, i), i)
           = [SpPush16(Fetched816(c, i), (Fetched816(c, i).pc - 1) % 65536) EXCEPT !.pc = w]
  PROVE  LET back == Step816(Step816(c, i), Op("RTS", "IMP"))
         IN  Restored(c, back) /\ back.pc = (c.pc + 3) % 65536
<1> DEFINE j == Op("RTS", "IMP")
           f == Fetched816(c, i)
           v == (f.pc - 1) % 65536
           g == SpPush16(f, v)
           done == Exec816(f, i)
           s == Step816(c, i)
           h == Fetched816(s, j)
           r == SpMoved(h, 2)
           pc == (SpTop16(h, 1) + 1) % 65536
           q == [r EXCEPT !.pc = pc]
<1>1. f \in Processor /\ StackAt(c, f, 0) /\ f.pc = (c.pc + 3) % 65536
  <2>1. f.pc = (c.pc + 1 + 2) % 65536
    BY Fetching816
  <2>2. c.pc + 1 + 2 = c.pc + 3
    BY Fields, Ranges
  <2> QED BY <2>1, <2>2, FetchKin
<1> HIDE DEF f
<1>2. v \in Word /\ (v + 1) % 65536 = f.pc
  <2>1. v \in Word /\ f.pc \in Int /\ 0 <= f.pc /\ f.pc < 65536
    BY <1>1, PreviousPC, Fields, Ranges
  <2>2. (((f.pc - 1) % 65536) + 1) % 65536 = f.pc
    BY <2>1
  <2> QED BY <2>1, <2>2
<1> HIDE DEF v
<1>3. g \in Processor
  BY <1>1, <1>2, PushedWide16
<1>4. done = [g EXCEPT !.pc = w]
  BY DEF f, v
<1> HIDE DEF g
<1>5. SameStack(g, done) /\ Kin(g, done) /\ done \in Processor
  BY <1>3, <1>4, SettingPc DEF Kin, SameStack
<1>6. g = PushWide(f, v, 16)
  BY DEF g, PushWide
<1>7. s \in Processor
  BY <1>5, Stepping816 DEF SameStack, done, f
<1>8. /\ Kin(c, h) /\ h \in Processor /\ StackAt(c, SpPulled(h, 16), 0)
      /\ Kin(c, SpPulled(h, 16)) /\ PulledWide(h, 16) = Half(v, 16)
  <2>1. 16 \in {8, 16}
    OBVIOUS
  <2> QED BY <1>2, <1>5, <1>6, <2>1, PushThenFetch DEF f, done
<1>9. Exec816(h, j) = q
  <2> HIDE DEF h, s
  <2> QED BY RtsExec
<1>10. SpPulled(h, 16) = r /\ SpTop16(h, 1) = v
  <2>1. 16 \div 8 = 2
    OBVIOUS
  <2> HIDE DEF h, s
  <2> QED BY <1>8, <2>1 DEF SpPulled, PulledWide, Half
<1> HIDE DEF h, s, r, done
<1>11. pc = f.pc /\ pc \in Word
  BY <1>1, <1>2, <1>10, Fields
<1> HIDE DEF pc
<1>12. r \in Processor /\ Restored(c, r)
  BY <1>8, <1>10, KinIsRestored
<1>13. SameStack(r, q) /\ Like(r, q) /\ q.pbr = r.pbr /\ q.pc = pc
  BY <1>11, <1>12, SettingPc
<1> HIDE DEF q, j
<1>14. Restored(c, q) /\ q \in Processor
  BY <1>12, <1>13, LikeIsTransitive DEF Restored, SameStack
<1>15. Restored(c, Step816(s, j))
  BY <1>7, <1>9, <1>14, RestoredStep DEF h
<1>16. Step816(s, j).pc = q.pc
  BY <1>7, <1>9, <1>14, Stepping816 DEF h
<1> QED BY <1>1, <1>11, <1>13, <1>15, <1>16 DEF s, j

-------------------------------------------------------------------------------
(* The stack instructions of the 65816 that move SP as sixteen bits put    *)
(* the page back in emulation mode: while they stay on page one they do    *)
(* what the others do.                                                     *)

(* A sixteen-bit stack instruction that stays on page one does what an        *)
(* eight-bit one does, and so does every one in native mode.                  *)
Stays(c, n) == c.e => c.sph = 1 /\ 0 <= c.sp + n /\ c.sp + n < 256

(* On page one the two ways to move SP agree.                              *)
LEMMA OnPageOne ==
  ASSUME NEW a \in Int, 0 <= a, a < 256
  PROVE  (256 + a) % 65536 = 256 + a /\ Lo(256 + a) = a /\ Hi(256 + a) = 1
<1>1. (256 + a) % 65536 = 256 + a
  OBVIOUS
<1>2. (256 + a) % 256 = a
  OBVIOUS
<1>3. (256 + a) \div 256 = 1
  OBVIOUS
<1>4. 1 % 256 = 1
  OBVIOUS
<1> QED BY <1>1, <1>2, <1>3, <1>4 DEF Lo, Hi

LEMMA MovesAlike ==
  ASSUME NEW c \in Processor, NEW n \in Int, Stays(c, n)
  PROVE  NewMoved(c, n) = SpMoved(c, n) /\ NewTop(c, n) = SpTop(c, n)
<1> DEFINE v == (SP16(c) + n) % 65536
<1>1. v \in Word /\ Pair(Lo(v), Hi(v)) = v
  BY MovingSP, PairOfHalves
<1>2. NewMoved(c, n) = [c EXCEPT !.sp = Lo(v), !.sph = Hi(v)] /\ NewTop(c, n) = Read(c, v)
  BY DEF NewMoved, SetSPRaw, NewTop
<1>3. NewMoved(c, n) = SpMoved(c, n)
  <2>1. CASE ~c.e
    BY <2>1 DEF NewMoved, SpMoved
  <2>2. CASE c.e
    <3> DEFINE a == c.sp + n
    <3>1. a \in Int /\ 0 <= a /\ a < 256 /\ SP16(c) + n = 256 + a /\ c.sph = 1
      BY <2>2, StackPointers DEF Stays
    <3>2. SpMoved(c, n) = [c EXCEPT !.sp = a % 256]
      BY <2>2 DEF SpMoved
    <3> HIDE DEF a
    <3>3. v = 256 + a /\ Lo(v) = a /\ Hi(v) = 1 /\ a % 256 = a
      BY <3>1, OnPageOne
    <3> HIDE DEF v
    <3>4. [c EXCEPT !.sp = a, !.sph = 1] = [c EXCEPT !.sp = a]
      BY <3>1 DEF Processor, Processors
    <3> QED BY <1>2, <3>2, <3>3, <3>4, ZenonT(60)
  <2> QED BY <2>1, <2>2
<1> HIDE DEF v
<1>4. SP16([c EXCEPT !.sp = Lo(v), !.sph = Hi(v)]) = v
  BY <1>1 DEF SP16, Processor, Processors
<1> QED BY <1>2, <1>3, <1>4 DEF SpTop

LEMMA PushesAlike ==
  ASSUME NEW c \in Processor, NEW v \in Byte, Stays(c, -1)
  PROVE  NewPush8(c, v) = SpPush8(c, v)
<1> DEFINE w == Write(c, SP16(c), v)
           k == -1
<1>1. w \in Processor /\ w.sp = c.sp /\ w.sph = c.sph /\ w.e = c.e
  <2>1. w \in Processor
    BY Writing, RegisterTypes, Wider, CalmIsTyped
  <2> QED BY <2>1, WriteFrame
<1>2. k \in Int
  OBVIOUS
<1> HIDE DEF w, k
<1>3. Stays(w, k)
  BY <1>1 DEF Stays, k
<1>4. NewMoved(w, k) = SpMoved(w, k)
  BY <1>1, <1>2, <1>3, MovesAlike
<1> QED BY <1>4 DEF NewPush8, SpPush8, w, k

LEMMA PushesAlike16 ==
  ASSUME NEW c \in Processor, NEW v \in Word, Stays(c, -2)
  PROVE  NewPush16(c, v) = SpPush16(c, v)
<1> DEFINE one == SpPush8(c, Hi(v))
<1>1. Lo(v) \in Byte /\ Hi(v) \in Byte
  BY LoHiType, Ranges
<1>2. Stays(c, -1)
  BY StackPointers DEF Stays
<1>3. NewPush8(c, Hi(v)) = one
  BY <1>1, <1>2, PushesAlike
<1>4. StackAt(c, one, -1)
  <2> DEFINE z == 0
  <2>1. z \in Int /\ StackAt(c, c, z)
    BY StackStarts
  <2> HIDE DEF z, one
  <2>2. StackAt(c, one, z - 1)
    BY <1>1, <2>1, StackPushed DEF one
  <2>3. z - 1 = -1
    BY DEF z
  <2> QED BY <2>2, <2>3
<1> HIDE DEF one
<1>5. one \in Processor /\ Stays(one, -1)
  <2>1. one \in Processor /\ one.e = c.e
    BY <1>4 DEF StackAt
  <2>2. c.e => one.sph = 1 /\ one.sp = (c.sp + -1) % 256
    BY <1>4 DEF StackAt, Stays
  <2>3. c.e => (c.sp + -1) % 256 = c.sp - 1
    BY StackPointers DEF Stays
  <2> QED BY <2>1, <2>2, <2>3, StackPointers DEF Stays
<1>6. NewPush8(one, Lo(v)) = SpPush8(one, Lo(v))
  BY <1>1, <1>5, PushesAlike
<1> QED BY <1>3, <1>6 DEF NewPush16, SpPush16, one

LEMMA AlreadyForced ==
  ASSUME NEW c \in Processor, c.e => c.sph = 1
  PROVE  Reforced(c) = c
<1> DEFINE v == IF c.e THEN 1 ELSE c.sph
<1>1. v = c.sph
  OBVIOUS
<1>2. Reforced(c) = [c EXCEPT !.sph = v]
  BY DEF Reforced
<1> HIDE DEF v
<1> QED BY <1>1, <1>2 DEF Processor, Processors

-------------------------------------------------------------------------------
(* PHD and JSL: two and three bytes on page one.                           *)

(* PHD and PLD.                                                            *)
LEMMA PullsD ==
  ASSUME NEW c \in Processor, Stays(c, -2)
  PROVE  Restored(c, Step816(Step816(c, Op("PHD", "IMP")), Op("PLD", "IMP")))
<1> DEFINE i == Op("PHD", "IMP")
           j == Op("PLD", "IMP")
           f == Fetched816(c, i)
           g == SpPush16(f, c.d)
           s == Step816(c, i)
           h == Fetched816(s, j)
           r == SpMoved(h, 2)
           w == NewTop16(h, 1)
           q == [r EXCEPT !.d = w]
           z == SetZN(q, w, 16)
<1>1. c.d \in Word /\ 16 \in {8, 16} /\ 16 \div 8 = 2
  BY Fields
<1>2. f \in Processor /\ StackAt(c, f, 0) /\ f.d = c.d /\ f.e = c.e /\ f.sp = c.sp /\ f.sph = c.sph
  <2>1. SameStack(c, f) /\ Kin(c, f) /\ f \in Processor /\ StackAt(c, f, 0)
    BY FetchKin
  <2> HIDE DEF f
  <2> QED BY <2>1, KinValues DEF SameStack
<1>3. Exec816(f, i) = Reforced(NewPush16(f, f.d))
  BY PhdExec
<1>4. Exec816(h, j) = Reforced(SetZN([NewMoved(h, 2) EXCEPT !.d = w], w, 16))
  BY PldExec
<1> HIDE DEF i, j, f
<1>5. NewPush16(f, f.d) = g
  <2>1. Stays(f, -2)
    BY <1>2 DEF Stays
  <2> QED BY <1>1, <1>2, <2>1, PushesAlike16
<1>6. g \in Processor /\ Beside(f, g) /\ (c.e => g.sph = c.sph)
  <2>1. g \in Processor /\ Beside(f, g)
    BY <1>1, <1>2, PushedWide16
  <2>2. StackAt(f, f, 0)
    BY <1>2, StackStarts
  <2>3. StackAt(f, g, 0 - 2)
    <3> DEFINE k == 0
    <3>1. k \in Int /\ StackAt(f, f, k) /\ c.d \in Int
      BY <1>1, <2>2, Ranges
    <3> HIDE DEF k, g
    <3>2. StackAt(f, g, k - 2)
      BY <1>2, <3>1, StackPushed16 DEF g
    <3> QED BY <3>2 DEF k
  <2> HIDE DEF g
  <2> QED BY <1>2, <2>1, <2>3 DEF StackAt
<1> HIDE DEF g
<1>7. Reforced(g) = g
  <2>1. g.e = c.e
    BY <1>2, <1>6 DEF Beside
  <2> QED BY <1>6, <2>1, AlreadyForced DEF Stays
<1>8. Exec816(f, i) = PushWide(f, c.d, 16)
  BY <1>3, <1>5, <1>7 DEF PushWide, g
<1>9. /\ s \in Processor /\ h \in Processor /\ Kin(c, h) /\ Restored(c, SpPulled(h, 16))
      /\ SpPulled(h, 16) \in Processor /\ PulledWide(h, 16) = Half(c.d, 16)
  BY <1>1, <1>8, PushAlone DEF f
<1> HIDE DEF s, h
<1>10. r = SpPulled(h, 16) /\ SpTop16(h, 1) = c.d
  BY <1>1, <1>9 DEF SpPulled, PulledWide, Half
<1>11. r \in Processor /\ Restored(c, r) /\ h.e = c.e
  BY <1>9, <1>10, KinValues
<1>12. Stays(h, 2) /\ Stays(h, 1)
  <2>1. CASE ~c.e
    BY <1>11, <2>1 DEF Stays
  <2>2. CASE c.e
    <3>1. r.sp = (h.sp + 2) % 256 /\ r.sph = h.sph
      BY <1>9, <1>11, <2>2 DEF SpMoved, Processor, Processors
    <3>2. r.sp = c.sp /\ r.sph = c.sph
      BY <1>11 DEF Restored
    <3>3. c.sph = 1 /\ 0 <= c.sp + -2
      BY <2>2 DEF Stays
    <3> HIDE DEF r
    <3>4. h.sp \in Int /\ 0 <= h.sp /\ h.sp < 256 /\ c.sp \in Int
      BY <1>9, StackPointers
    <3>5. h.sp + 2 < 256
      BY <3>1, <3>2, <3>3, <3>4
    <3> QED BY <3>1, <3>2, <3>3, <3>4, <3>5 DEF Stays
  <2> QED BY <2>1, <2>2
<1>13. NewMoved(h, 2) = r /\ w = SpTop16(h, 1)
  <2>1. NewMoved(h, 2) = r /\ NewTop(h, 2) = SpTop(h, 2) /\ NewTop(h, 1) = SpTop(h, 1)
    BY <1>9, <1>12, MovesAlike
  <2>2. 1 + 1 = 2
    OBVIOUS
  <2> QED BY <2>1, <2>2 DEF NewTop16, SpTop16
<1>14. w = c.d /\ Exec816(h, j) = Reforced(z)
  BY <1>4, <1>10, <1>13
<1> HIDE DEF r, w
<1>15. q \in Processor /\ Restored(c, q)
  BY <1>1, <1>11, <1>14 DEF Restored, Like, Processor, Processors
<1> HIDE DEF q
<1>16. Restored(c, z) /\ z \in Processor
  BY <1>15, RestoredZN, SettingZN, CalmIsTyped
<1> HIDE DEF z
<1>17. Reforced(z) = z
  BY <1>16, AlreadyForced DEF Restored, Like, Stays
<1>18. Restored(c, Exec816(h, j)) /\ Exec816(h, j) \in Processor
  BY <1>14, <1>16, <1>17
<1>19. Restored(c, Step816(s, j))
  BY <1>9, <1>18, RestoredStep DEF h
<1> QED BY <1>19 DEF s, i, j

(* The frame of a JSL. *)
LEMMA LongFrame ==
  ASSUME NEW f \in Processor, NEW v \in Word
  PROVE  LET two == SpPush16(SpPush8(f, f.pbr), v)
         IN  /\ StackAt(f, two, -3) /\ Beside(f, two)
             /\ Read(two, Slot(f, 0)) = f.pbr /\ Read(two, Slot(f, -1)) = Hi(v)
             /\ Read(two, Slot(f, -2)) = Lo(v)
<1> DEFINE z == 0
           one == SpPush8(f, f.pbr)
           k == -1
           two == SpPush16(one, v)
<1>1. z \in Int /\ StackAt(f, f, z) /\ z - 1 = k /\ k \in Int /\ k - 2 = -3 /\ k - 1 = -2
  BY StackStarts
<1>2. k < z /\ z < k + 255
  OBVIOUS
<1>3. f.pbr \in Byte /\ v \in Int
  BY Fields, Ranges
<1> HIDE DEF z, k, one
<1>4. StackAt(f, one, k) /\ Beside(f, one) /\ Read(one, Slot(f, z)) = f.pbr
  <2>1. StackAt(f, one, z - 1) /\ Beside(f, one) /\ Read(one, Slot(f, z)) = f.pbr
    BY <1>1, <1>3, StackPushed DEF one
  <2> QED BY <1>1, <2>1
<1> HIDE DEF two
<1>5. /\ StackAt(f, two, k - 2) /\ Beside(one, two)
      /\ Read(two, Slot(f, k)) = Hi(v) /\ Read(two, Slot(f, k - 1)) = Lo(v)
      /\ \A n \in Int : k < n /\ n < k + 255 => Read(two, Slot(f, n)) = Read(one, Slot(f, n))
  BY <1>1, <1>3, <1>4, StackPushed16 DEF two
<1>6. Read(two, Slot(f, z)) = f.pbr
  BY <1>1, <1>2, <1>4, <1>5
<1>7. Beside(f, two)
  BY <1>4, <1>5, BesideIsTransitive
<1>8. StackAt(f, two, -3) /\ Read(two, Slot(f, -2)) = Lo(v)
  BY <1>1, <1>5
<1> QED BY <1>5, <1>6, <1>7, <1>8 DEF two, one, z, k

(* JSL pushes the bank and then the address, and leaves nothing else behind. *)
LEMMA OnePushed ==
  ASSUME NEW c \in Processor, NEW w \in Byte, Stays(c, -3)
  PROVE  SpPush8(c, w) \in Processor /\ Stays(SpPush8(c, w), -2)
<1> DEFINE one == SpPush8(c, w)
           z == 0
<1>1. z \in Int /\ StackAt(c, c, z)
  BY StackStarts
<1>2. z - 1 = -1
  OBVIOUS
<1> HIDE DEF one, z
<1>3. StackAt(c, one, z - 1)
  BY <1>1, StackPushed DEF one
<1>4. StackAt(c, one, -1)
  BY <1>2, <1>3
<1>5. one \in Processor /\ one.e = c.e
  BY <1>4 DEF StackAt
<1>6. c.e => one.sph = 1 /\ one.sp = (c.sp + -1) % 256
  BY <1>4 DEF StackAt, Stays
<1>7. c.e => (c.sp + -1) % 256 = c.sp - 1 /\ 0 <= c.sp + -3
  BY StackPointers DEF Stays
<1>8. Stays(one, -2)
  BY <1>5, <1>6, <1>7, StackPointers DEF Stays
<1> QED BY <1>5, <1>8 DEF one

LEMMA JslFrames ==
  ASSUME NEW c \in Processor, NEW i, Stays(c, -3), i.arg \in Address
  PROVE  LET f == Fetched816(c, i)
             v == (f.pc - 1) % 65536
         IN  /\ Jsl(f, i) \in Processor
             /\ Jsl(f, i).sp = SpPush16(SpPush8(f, f.pbr), v).sp
             /\ Jsl(f, i).sph = SpPush16(SpPush8(f, f.pbr), v).sph
             /\ Jsl(f, i).e = f.e /\ Jsl(f, i).mem = SpPush16(SpPush8(f, f.pbr), v).mem
             /\ Like(f, Jsl(f, i)) /\ Jsl(f, i).p = f.p
<1> DEFINE f == Fetched816(c, i)
           v == (f.pc - 1) % 65536
           one == SpPush8(f, f.pbr)
           bank == LastByte(f, one, {SP16(f)}, i.arg \div 65536)
           two == SpPush16(one, v)
           pc == i.arg % 65536
           done == [two EXCEPT !.pbr = bank, !.pc = pc]
<1>1. SameStack(c, f) /\ f \in Processor
  BY FetchKin
<1> HIDE DEF f
<1>2. v \in Word /\ f.pbr \in Byte
  BY <1>1, PreviousPC, Fields
<1>3. Stays(f, -1) /\ Stays(f, -3)
  BY <1>1, StackPointers DEF Stays, SameStack
<1>4. NewPush8(f, f.pbr) = one
  BY <1>1, <1>2, <1>3, PushesAlike
<1>5. /\ StackAt(f, two, -3) /\ Beside(f, two)
  BY <1>1, <1>2, LongFrame
<1> HIDE DEF two, bank, pc, done
<1>7. one \in Processor /\ Stays(one, -2)
  BY <1>1, <1>2, <1>3, OnePushed DEF one
<1> HIDE DEF v, one
<1>8. NewPush16(one, v) = two
  BY <1>2, <1>7, PushesAlike16 DEF two
<1>9. two \in Processor /\ Reforced(two) = two
  <2>1. two \in Processor /\ two.e = f.e /\ (f.e => two.sph = f.sph)
    BY <1>5 DEF StackAt
  <2> QED BY <1>3, <2>1, AlreadyForced DEF Stays
<1>10. Jsl(f, i) = done
  <2>1. Jsl(f, i) = [Reforced(NewPush16(one, v)) EXCEPT !.pbr = bank, !.pc = pc]
    BY <1>4 DEF Jsl, v, bank, pc
  <2> QED BY <1>8, <1>9, <2>1 DEF done
<1>11. bank \in Byte /\ pc \in Word
  BY <1>1, <1>7, SplitAddress, LastByteType DEF bank, pc
<1>12. /\ done \in Processor /\ done.sp = two.sp /\ done.sph = two.sph /\ done.mem = two.mem
       /\ done.p = two.p /\ Like(two, done)
  BY <1>9, <1>11 DEF done, Like, Processor, Processors
<1>13. Like(f, done) /\ done.p = f.p /\ done.e = f.e
  BY <1>5, <1>12, LikeIsTransitive DEF Beside, Like
<1> QED BY <1>10, <1>12, <1>13 DEF two, one, v, f

(* JSL jumps, its frame on the stack.                                      *)
LEMMA JslLands ==
  ASSUME NEW c \in Processor, NEW i, NEW j, Stays(c, -3), i.arg \in Address,
         Exec816(Fetched816(c, i), i) = Jsl(Fetched816(c, i), i)
  PROVE  /\ Step816(c, i) \in Processor
         /\ LET h == Fetched816(Step816(c, i), j)
                v == (Fetched816(c, i).pc - 1) % 65536
            IN  StackAt(c, h, -3) /\ Like(c, h) /\ h.p = c.p
                /\ Read(h, Slot(c, 0)) = c.pbr /\ Read(h, Slot(c, -1)) = Hi(v)
                /\ Read(h, Slot(c, -2)) = Lo(v)
<1> DEFINE f == Fetched816(c, i)
           v == (f.pc - 1) % 65536
           two == SpPush16(SpPush8(f, f.pbr), v)
           done == Jsl(f, i)
           s == Step816(c, i)
           h == Fetched816(s, j)
<1>1. SameStack(c, f) /\ Kin(c, f) /\ f \in Processor /\ StackAt(c, f, 0)
  BY FetchKin
<1>2. /\ done \in Processor /\ done.sp = two.sp /\ done.sph = two.sph /\ done.e = f.e
      /\ done.mem = two.mem /\ Like(f, done) /\ done.p = f.p
  BY JslFrames
<1>3. SameStack(done, s) /\ Like(done, s) /\ s.p = done.p
  BY <1>2, Stepping816
<1>4. s \in Processor
  BY <1>3 DEF SameStack
<1>5. SameStack(s, h) /\ Like(s, h) /\ h.p = s.p /\ h \in Processor
  BY <1>4, FetchKin DEF Kin
<1>6. v \in Word
  BY <1>1, PreviousPC
<1> HIDE DEF f, v, done, s, h
<1>7. /\ StackAt(f, two, -3) /\ Beside(f, two)
      /\ Read(two, Slot(f, 0)) = f.pbr /\ Read(two, Slot(f, -1)) = Hi(v)
      /\ Read(two, Slot(f, -2)) = Lo(v)
  BY <1>1, <1>6, LongFrame
<1> HIDE DEF two
<1>8. h.sp = two.sp /\ h.sph = two.sph /\ h.e = two.e /\ h.mem = two.mem
  BY <1>2, <1>3, <1>5, <1>7 DEF SameStack, Beside
<1>9. StackAt(f, h, -3)
  BY <1>5, <1>7, <1>8, StackStays
<1>10. \A n : Slot(f, n) = Slot(c, n) /\ (StackAt(f, h, n) => StackAt(c, h, n))
  BY <1>1 DEF SameStack, Slot, StackAt
<1>11. \A a : Read(h, a) = Read(two, a)
  BY <1>8, ReadsStay
<1>12. Like(c, h) /\ h.p = c.p
  <2>1. Like(c, f) /\ f.p = c.p
    BY <1>1 DEF Kin
  <2> QED BY <1>2, <1>3, <1>5, <2>1, LikeIsTransitive
<1>13. f.pbr = c.pbr
  BY <1>1 DEF Kin
<1> QED BY <1>4, <1>7, <1>9, <1>10, <1>11, <1>12, <1>13 DEF v, h, s, f

(* RTL takes the frame of JSL back.                                        *)
LEMMA ThreeDown ==
  ASSUME NEW c \in Processor, Stays(c, -3)
  PROVE  c.e => /\ (c.sp + -3) % 256 = c.sp - 3 /\ c.sph = 1 /\ 0 <= c.sp - 3 /\ c.sp < 256
                /\ c.sp \in Int
  BY StackPointers DEF Stays

LEMMA RtlReturns ==
  ASSUME NEW c \in Processor, NEW h, NEW v \in Word, Stays(c, -3),
         StackAt(c, h, -3), Like(c, h), h.p = c.p, Read(h, Slot(c, 0)) = c.pbr,
         Read(h, Slot(c, -1)) = Hi(v), Read(h, Slot(c, -2)) = Lo(v)
  PROVE  Restored(c, Rtl816(h)) /\ Rtl816(h).pc = (v + 1) % 65536 /\ Rtl816(h) \in Processor
<1> DEFINE k == -3
           r == SpMoved(h, 3)
           pc == (NewTop16(h, 1) + 1) % 65536
           pbr == NewTop(h, 3)
           d == [r EXCEPT !.pc = pc]
           q == [d EXCEPT !.pbr = pbr]
<1>1. k \in Int /\ k + 1 = -2 /\ k + 2 = -1 /\ k + 3 = 0
  OBVIOUS
<1>2. h \in Processor /\ h.e = c.e /\ (c.e => h.sph = c.sph /\ h.sp = (c.sp + -3) % 256)
  BY DEF StackAt
<1>3. c.e => h.sph = 1 /\ h.sp = c.sp - 3 /\ 0 <= c.sp - 3 /\ c.sp < 256 /\ c.sp \in Int
  BY <1>2, ThreeDown
<1>4. Stays(h, 1) /\ Stays(h, 2) /\ Stays(h, 3)
  <2> HIDE DEF k, r, pc, pbr, d, q
  <2> QED BY <1>2, <1>3 DEF Stays
<1>5. StackAt(c, h, k)
  OBVIOUS
<1>6. /\ NewMoved(h, 3) = r /\ NewTop(h, 1) = SpTop(h, 1) /\ NewTop(h, 2) = SpTop(h, 2)
      /\ NewTop(h, 3) = SpTop(h, 3)
  BY <1>2, <1>4, MovesAlike
<1> HIDE DEF k
<1>7. \A n \in Int : SpTop(h, n) = Read(h, Slot(c, k + n))
  BY <1>1, <1>5, StackTop
<1>8. SpTop(h, 1) = Lo(v) /\ SpTop(h, 2) = Hi(v) /\ SpTop(h, 3) = c.pbr
  BY <1>1, <1>7
<1>9. NewTop16(h, 1) = v /\ pbr = c.pbr
  <2>1. 1 + 1 = 2
    OBVIOUS
  <2> QED BY <1>6, <1>8, <2>1, PairOfHalves DEF NewTop16
<1>10. pc = (v + 1) % 65536 /\ pc \in Word
  <2>1. v + 1 \in Int
    BY Ranges
  <2>2. pc = (v + 1) % 65536
    BY <1>9
  <2> HIDE DEF pc
  <2> QED BY <2>1, <2>2, Wraps
<1> HIDE DEF pc, pbr
<1>11. StackAt(c, r, 0) /\ Beside(h, r)
  <2> DEFINE j == 3
  <2>1. j \in Int /\ k + j = 0
    BY <1>1
  <2> HIDE DEF j, r
  <2>2. StackAt(c, SpMoved(h, j), k + j) /\ Beside(h, SpMoved(h, j))
    BY <1>1, <1>5, <2>1, StackMoved
  <2> QED BY <2>1, <2>2 DEF j, r
<1> HIDE DEF r
<1>12. r \in Processor /\ r.sp = c.sp /\ r.sph = c.sph /\ Like(c, r)
  <2>1. r \in Processor
    BY <1>11 DEF StackAt
  <2>2. Like(c, r)
    BY <1>11, LikeIsTransitive
  <2> QED BY <1>11, <2>1, <2>2, StackEnds
<1>13. Reforced(r) = r
  BY <1>12, AlreadyForced DEF Like, Stays
<1>14. Rtl816(h) = q
  <2>1. Rtl816(h) = [Reforced(NewMoved(h, 3)) EXCEPT !.pc = pc, !.pbr = pbr]
    BY DEF Rtl816, pc, pbr
  <2> QED BY <1>6, <1>13, <2>1
<1>15. SameStack(r, d) /\ Like(r, d) /\ d.pc = pc
  BY <1>10, <1>12, SettingPc
<1> HIDE DEF d
<1>16. SameStack(d, q) /\ Like(d, q) /\ q.pc = d.pc /\ q.pbr = pbr
  <2>1. d \in Processor /\ pbr \in Byte
    BY <1>9, <1>15, Fields DEF SameStack
  <2> QED BY <2>1, SettingPbr
<1> HIDE DEF q
<1>17. Restored(c, q)
  <2>1. Like(c, q)
    BY <1>12, <1>15, <1>16, LikeIsTransitive
  <2> QED BY <1>9, <1>12, <1>15, <1>16, <2>1 DEF Restored, SameStack
<1> QED BY <1>10, <1>14, <1>15, <1>16, <1>17 DEF SameStack

LEMMA LongCallReturns ==
  ASSUME NEW c \in Processor, NEW i, i = Op("JSL", "LONG"), Stays(c, -3)
  PROVE  LET back == Step816(Step816(c, i), Op("RTL", "IMP"))
         IN  Restored(c, back) /\ back.pc = (c.pc + 1 + OperandBytes816(c, i)) % 65536
<1> DEFINE j == Op("RTL", "IMP")
           f == Fetched816(c, i)
           v == (f.pc - 1) % 65536
           s == Step816(c, i)
           h == Fetched816(s, j)
           done == Exec816(h, j)
<1>1. i.arg \in Address
  BY Ops, Ranges
<1>2. Exec816(f, i) = Jsl(f, i)
  BY JslExec
<1>3. f \in Processor /\ f.pc = (c.pc + 1 + OperandBytes816(c, i)) % 65536
  BY Fetching816
<1>4. /\ s \in Processor /\ StackAt(c, h, -3) /\ Like(c, h) /\ h.p = c.p
      /\ Read(h, Slot(c, 0)) = c.pbr /\ Read(h, Slot(c, -1)) = Hi(v)
      /\ Read(h, Slot(c, -2)) = Lo(v)
  BY <1>1, <1>2, JslLands
<1>5. done = Rtl816(h)
  BY RtlExec
<1> HIDE DEF f, j
<1>6. v \in Word /\ (v + 1) % 65536 = f.pc
  <2>1. v \in Word /\ f.pc \in Int /\ 0 <= f.pc /\ f.pc < 65536
    BY <1>3, PreviousPC, Fields, Ranges
  <2>2. (((f.pc - 1) % 65536) + 1) % 65536 = f.pc
    BY <2>1
  <2> QED BY <2>1, <2>2
<1> HIDE DEF v, s, h
<1>7. Restored(c, Rtl816(h)) /\ Rtl816(h).pc = f.pc /\ Rtl816(h) \in Processor
  BY <1>4, <1>6, RtlReturns
<1> HIDE DEF done
<1>8. Restored(c, done) /\ done.pc = f.pc /\ done \in Processor
  BY <1>5, <1>7
<1>9. Restored(c, Step816(s, j))
  BY <1>4, <1>8, RestoredStep DEF h, done
<1>10. Step816(s, j).pc = done.pc
  BY <1>4, <1>8, Stepping816 DEF h, done
<1> QED BY <1>3, <1>8, <1>9, <1>10 DEF s, j

-------------------------------------------------------------------------------
(* Calls: the return address is that of the instruction after the call.    *)

(* JSR and RTS, JSL and RTL.                                               *)
LEMMA JsrIndirectJumps ==
  ASSUME NEW c \in Processor
  PROVE  \E w \in Word :
           JsrIndirect(c, Op("JSR", "IAX")) = [SpPush16(c, (c.pc - 1) % 65536) EXCEPT !.pc = w]
<1> DEFINE i == Op("JSR", "IAX")
           pushed == SpPush16(c, (c.pc - 1) % 65536)
           slots == {SP16(c), SP16(SpMoved(c, -1))}
           last == LastByte(c, pushed, slots, Hi(i.arg))
           base == Pair(Lo(i.arg), last)
           target == ProgramPointer(pushed, base + Xidx(c))
<1>0. i.arg \in Int
  BY Ops
<1> HIDE DEF i
<1>1. Calm(c, pushed)
  BY PreviousPC, PushingSP16, Ranges, SMT
<1>2. pushed \in Processor
  BY <1>1, CalmIsTyped
<1>3. Lo(i.arg) \in Byte /\ Hi(i.arg) \in Byte
  BY <1>0, LoHiType, SMT
<1> HIDE DEF pushed, slots
<1>4. last \in Byte
  BY <1>2, <1>3, LastByteType
<1> HIDE DEF last
<1>5. base \in Word
  BY <1>3, <1>4, PairType
<1> HIDE DEF base
<1>6. base + Xidx(c) \in Int
  BY <1>5, ValueTypes, Ranges, SMT
<1>7. target \in Word
  BY <1>2, <1>6, ProgramPointerType
<1> HIDE DEF target
<1>8. JsrIndirect(c, i) = [pushed EXCEPT !.pc = target]
  BY DEF JsrIndirect, target, base, last, slots, pushed
<1> QED BY <1>7, <1>8 DEF pushed, i

(* The bytes of the operands of the calls. *)
LEMMA CallBytes ==
  /\ \A c : OperandBytes816(c, Op("JSR", "JSRABS")) = 2
  /\ \A c : OperandBytes816(c, Op("JSR", "IAX")) = 2
<1>1. \A c, i : i.mode \in {"JSRABS", "IAX"} => OperandBytes816(c, i) = 2
  BY DEF OperandBytes816
<1> QED BY <1>1, Ops

(* What CallsReturn says of one call and of one pair. *)
CallReturned(c, i, ret) ==
  LET back == Step816(Step816(c, i), Op(ret, "IMP"))
  IN  /\ back.pc = (c.pc + 1 + OperandBytes816(c, i)) % 65536
      /\ back.pbr = c.pbr /\ SP16(back) = SP16(c)

PairReturned(c, push, pull) ==
  LET back == Step816(Step816(c, Op(push, "IMP")), Op(pull, "IMP"))
  IN  \A f \in Kept(c) \ {"pc"} : back[f] = c[f]

LEMMA RestoredPointer == \A c, d : Restored(c, d) => d.pbr = c.pbr /\ SP16(d) = SP16(c)
  BY DEF Restored, SP16

(* Each call and its return, each push and its pull.                       *)
LEMMA JsrReturns ==
  ASSUME NEW c \in Processor, NEW mode \in {"JSRABS", "IAX"}
  PROVE  CallReturned(c, Op("JSR", mode), "RTS")
<1> DEFINE i == Op("JSR", mode)
           f == Fetched816(c, i)
           back == Step816(Step816(c, i), Op("RTS", "IMP"))
<1>1. f \in Processor
  BY FetchKin
<1>2. \E w \in Word : Exec816(f, i) = [SpPush16(f, (f.pc - 1) % 65536) EXCEPT !.pc = w]
  <2> HIDE DEF f
  <2>1. CASE mode = "IAX"
    BY <1>1, <2>1, JsrIndirectExec, JsrIndirectJumps
  <2>2. CASE mode = "JSRABS"
    <3> DEFINE w == 4660
    <3>1. w \in Word
      BY Ranges
    <3> HIDE DEF w
    <3>2. Exec816(f, i) = [SpPush16(f, (f.pc - 1) % 65536) EXCEPT !.pc = w]
      BY <2>2, JsrExec DEF w
    <3> QED BY <3>1, <3>2
  <2> QED BY <2>1, <2>2
<1>3. OperandBytes816(c, i) = 2
  BY CallBytes
<1> HIDE DEF i
<1>4. PICK w \in Word : Exec816(f, i) = [SpPush16(f, (f.pc - 1) % 65536) EXCEPT !.pc = w]
  BY <1>2
<1>5. Restored(c, back) /\ back.pc = (c.pc + 3) % 65536
  BY <1>3, <1>4, CallReturns
<1> HIDE DEF back
<1>6. c.pc + 1 + 2 = c.pc + 3
  BY Fields, Ranges
<1>7. back.pc = (c.pc + 1 + OperandBytes816(c, i)) % 65536
  BY <1>3, <1>5, <1>6
<1>8. CallReturned(c, i, "RTS")
  BY <1>5, <1>7, RestoredPointer DEF CallReturned, back
<1> QED BY <1>8 DEF i

LEMMA JslReturns ==
  ASSUME NEW c \in Processor, Stays(c, -3)
  PROVE  CallReturned(c, Op("JSL", "LONG"), "RTL")
  BY LongCallReturns, RestoredPointer DEF CallReturned

LEMMA PairsReturn ==
  ASSUME NEW c \in Processor
  PROVE  /\ PairReturned(c, "PHA", "PLA") /\ PairReturned(c, "PHX", "PLX")
         /\ PairReturned(c, "PHY", "PLY") /\ PairReturned(c, "PHB", "PLB")
         /\ Stays(c, -2) => PairReturned(c, "PHD", "PLD")
  BY PullsA, PullsX, PullsY, PullsB, PullsD, RestoredIsKept DEF PairReturned

(* A call that is not off the page stays on page one.                      *)
LEMMA OnThePage ==
  ASSUME NEW c \in Processor, c.variant = "65816", PageLocked(c)
  PROVE  /\ ~OffPage(c, "JSL") => Stays(c, -3)
         /\ ~OffPage(c, "PHD") => Stays(c, -2)
<1>1. CASE c.e
  BY <1>1, StackPointers DEF PageLocked, OffPage, Stays
<1>2. CASE ~c.e
  BY <1>2 DEF Stays
<1> QED BY <1>1, <1>2

(* Every call returns, every pull undoes its push.                         *)
LEMMA CallsReturnHere ==
  ASSUME CoresInv
  PROVE  CallsReturn
<1> SUFFICES ASSUME cpu.variant = "65816" PROVE CallsReturn
  BY DEF CallsReturn
<1>1. cpu \in Processor /\ PageLocked(cpu)
  BY DEF CoresInv, CoresTypeOK, StackPageLocked
<1>2. ASSUME NEW call \in Calls816
      PROVE  LET i == Op(call[1], call[2])
             IN  OffPage(cpu, i.op) \/ CallReturned(cpu, i, call[3])
  <2>1. CASE call = <<"JSR", "JSRABS", "RTS">> \/ call = <<"JSR", "IAX", "RTS">>
    BY <1>1, <2>1, JsrReturns
  <2>2. CASE call = <<"JSL", "LONG", "RTL">>
    BY <1>1, <2>2, JslReturns, OnThePage, Ops
  <2> QED BY <2>1, <2>2 DEF Calls816
<1>3. \A pair \in {<<"PHA", "PLA">>, <<"PHX", "PLX">>, <<"PHY", "PLY">>,
                   <<"PHB", "PLB">>, <<"PHD", "PLD">>} :
        OffPage(cpu, pair[1]) \/ PairReturned(cpu, pair[1], pair[2])
  BY <1>1, PairsReturn, OnThePage
<1> QED BY <1>2, <1>3 DEF CallsReturn, CallReturned, PairReturned

(* RTI undoes every interrupt, RTS and RTL every call, every pull its      *)
(* push, in every reachable state and on every variant (cpu.go,            *)
(* serviceInterrupt; exec816.go).                                          *)
THEOREM StackIsUndone == Spec => []StackRoundTrips
<1>1. CoresInv => StackRoundTrips
  BY HandlersReturnHere, CallsReturnHere DEF StackRoundTrips
<1> QED BY <1>1, CoresInvariant, PTL

-------------------------------------------------------------------------------
(* Emulation. An emulated 65816 and a 65C02 with the same registers and    *)
(* memory are twins; the lemmas that follow say of each group of           *)
(* instructions that it leaves twins twins.                                *)

(* c and d hold the same registers and memory: c is a 65816 in emulation mode, *)
(* its banks and its direct page at 0, and d is a 65C02.                       *)
Twin(c, d) ==
  /\ c \in Processor /\ d \in Processor /\ d.variant = "65C02"
  /\ c.e /\ c.d = 0 /\ c.dbr = 0 /\ c.pbr = 0 /\ c.sph = 1
  /\ c.p = d.p \cup {FlagM, FlagX}
  /\ c.a = d.a /\ c.x = d.x /\ c.y = d.y /\ c.sp = d.sp /\ c.pc = d.pc
  /\ c.halted = d.halted /\ c.stoppedBySTP = d.stoppedBySTP /\ c.mem = d.mem

(* What twins have in common.                                              *)
LEMMA TwinFields ==
  ASSUME NEW c, NEW d, Twin(c, d)
  PROVE  /\ c \in Processor /\ d \in Processor /\ CMOS(d)
         /\ \A a : Read(c, a) = Read(d, a)
         /\ ~MWide(c) /\ ~XWide(c) /\ AccBits(c) = 8 /\ IdxBits(c) = 8
         /\ Acc(c) = d.a /\ Xidx(c) = d.x /\ Yidx(c) = d.y
         /\ \A f \in {FlagC, FlagZ, FlagI, FlagD, FlagV, FlagN} : f \in c.p <=> f \in d.p
         /\ CarryIn(c) = CarryIn(d)
<1>1. c \in Processor /\ d \in Processor /\ CMOS(d) /\ \A a : Read(c, a) = Read(d, a)
  BY DEF Twin, CMOS, Read
<1>2. ~MWide(c) /\ ~XWide(c)
  BY DEF Twin, MWide, XWide
<1>3. \A f \in {FlagC, FlagZ, FlagI, FlagD, FlagV, FlagN} : f \in c.p <=> f \in d.p
  BY FlagValues DEF Twin
<1>4. CarryIn(c) = CarryIn(d)
  BY <1>3 DEF CarryIn
<1>5. Acc(c) = d.a /\ Xidx(c) = d.x /\ Yidx(c) = d.y
  BY <1>1, <1>2, ValueTypes DEF Twin
<1> QED BY <1>1, <1>2, <1>3, <1>4, <1>5, Widths

(* Setting a register of both. *)
LEMMA TwinAssigning ==
  ASSUME NEW c, NEW d, Twin(c, d)
  PROVE  /\ \A v \in Byte : Twin([c EXCEPT !.a = v], [d EXCEPT !.a = v])
         /\ \A v \in Byte : Twin([c EXCEPT !.x = v], [d EXCEPT !.x = v])
         /\ \A v \in Byte : Twin([c EXCEPT !.y = v], [d EXCEPT !.y = v])
         /\ \A v \in Byte : Twin([c EXCEPT !.sp = v], [d EXCEPT !.sp = v])
         /\ \A v \in Word : Twin([c EXCEPT !.pc = v], [d EXCEPT !.pc = v])
         /\ \A v \in BOOLEAN : Twin([c EXCEPT !.halted = v], [d EXCEPT !.halted = v])
         /\ \A v \in BOOLEAN :
               Twin([c EXCEPT !.stoppedBySTP = v], [d EXCEPT !.stoppedBySTP = v])
<1>1. \A v \in Byte : Twin([c EXCEPT !.a = v], [d EXCEPT !.a = v])
  BY DEF Twin, Processor, Processors
<1>2. \A v \in Byte : Twin([c EXCEPT !.x = v], [d EXCEPT !.x = v])
  BY DEF Twin, Processor, Processors
<1>3. \A v \in Byte : Twin([c EXCEPT !.y = v], [d EXCEPT !.y = v])
  BY DEF Twin, Processor, Processors
<1>4. \A v \in Byte : Twin([c EXCEPT !.sp = v], [d EXCEPT !.sp = v])
  BY DEF Twin, Processor, Processors
<1>5. \A v \in Word : Twin([c EXCEPT !.pc = v], [d EXCEPT !.pc = v])
  BY DEF Twin, Processor, Processors
<1>6. \A v \in BOOLEAN : Twin([c EXCEPT !.halted = v], [d EXCEPT !.halted = v])
  BY DEF Twin, Processor, Processors
<1>7. \A v \in BOOLEAN : Twin([c EXCEPT !.stoppedBySTP = v], [d EXCEPT !.stoppedBySTP = v])
  BY DEF Twin, Processor, Processors
<1> QED BY <1>1, <1>2, <1>3, <1>4, <1>5, <1>6, <1>7

(* Pulling or masking the status, the banks, and writing memory.           *)
LEMMA TwinStatus ==
  ASSUME NEW c, NEW d, Twin(c, d), NEW s \in SUBSET Flags, NEW t \in SUBSET Flags,
         s = t \cup {FlagM, FlagX}
  PROVE  Twin([c EXCEPT !.p = s], [d EXCEPT !.p = t])
  BY DEF Twin, Processor, Processors

LEMMA TwinBanks ==
  ASSUME NEW c, NEW d, Twin(c, d)
  PROVE  /\ \A v \in Byte : Twin([c EXCEPT !.xh = v], d)
         /\ \A v \in Byte : Twin([c EXCEPT !.yh = v], d)
         /\ Twin([c EXCEPT !.pbr = 0], d) /\ Twin([c EXCEPT !.sph = 1], d)
<1>1. 0 \in Byte /\ 1 \in Byte
  BY Ranges, SMT
<1> QED BY <1>1 DEF Twin, Processor, Processors

LEMMA TwinWrite ==
  ASSUME NEW c, NEW d, Twin(c, d), NEW a \in Address, NEW v \in Byte
  PROVE  Twin(Write(c, a, v), Write(d, a, v))
<1> DEFINE m == [b \in {a} \cup DOMAIN c.mem |-> IF b = a THEN v ELSE c.mem[b]]
<1>1. c \in Processor /\ d \in Processor /\ c.mem = d.mem
  BY DEF Twin
<1>2. Write(c, a, v) = [c EXCEPT !.mem = m] /\ Write(d, a, v) = [d EXCEPT !.mem = m]
  BY <1>1 DEF Write
<1>3. Write(c, a, v) \in Processor /\ Write(d, a, v) \in Processor
  BY <1>1, Writing, CalmIsTyped
<1> HIDE DEF m
<1>4. [c EXCEPT !.mem = m].mem = [d EXCEPT !.mem = m].mem
  BY <1>1 DEF Processor, Processors
<1> DEFINE e == [c EXCEPT !.mem = m]
           f == [d EXCEPT !.mem = m]
<1>5. /\ e.e = c.e /\ e.d = c.d /\ e.dbr = c.dbr /\ e.pbr = c.pbr /\ e.sph = c.sph /\ e.p = c.p
      /\ e.a = c.a /\ e.x = c.x /\ e.y = c.y /\ e.sp = c.sp /\ e.pc = c.pc
      /\ e.halted = c.halted /\ e.stoppedBySTP = c.stoppedBySTP
  BY <1>1 DEF Processor, Processors
<1>6. /\ f.variant = d.variant /\ f.p = d.p
      /\ f.a = d.a /\ f.x = d.x /\ f.y = d.y /\ f.sp = d.sp /\ f.pc = d.pc
      /\ f.halted = d.halted /\ f.stoppedBySTP = d.stoppedBySTP
  BY <1>1 DEF Processor, Processors
<1> HIDE DEF e, f
<1>7. Twin(e, f)
  <2>1. e \in Processor /\ f \in Processor /\ e.mem = f.mem
    BY <1>2, <1>3, <1>4 DEF e, f
  <2> QED BY <2>1, <1>5, <1>6 DEF Twin
<1> QED BY <1>2, <1>7 DEF e, f

(* Setting flags of both.                                                  *)
LEMMA TwinFlag ==
  ASSUME NEW c, NEW d, Twin(c, d), NEW f \in {FlagC, FlagZ, FlagI, FlagD, FlagV, FlagN},
         NEW yes
  PROVE  Twin(SetFlag(c, f, yes), SetFlag(d, f, yes))
<1> DEFINE s == (c.p \ {f}) \cup On(f, yes)
           t == (d.p \ {f}) \cup On(f, yes)
<1>1. s \in SUBSET Flags /\ t \in SUBSET Flags /\ s = t \cup {FlagM, FlagX}
  BY Fields, FlagSets, FlagValues DEF Twin
<1> HIDE DEF s, t
<1>2. Twin([c EXCEPT !.p = s], [d EXCEPT !.p = t])
  BY <1>1, TwinStatus
<1> QED BY <1>2 DEF SetFlag, s, t

LEMMA TwinZN ==
  ASSUME NEW c, NEW d, Twin(c, d), NEW v
  PROVE  Twin(SetZN(c, v, 8), SetZN(d, v, 8))
<1> DEFINE s == (c.p \ {FlagN, FlagZ}) \cup On(FlagZ, v = 0) \cup On(FlagN, Bit(v, 8 - 1) = 1)
           t == (d.p \ {FlagN, FlagZ}) \cup On(FlagZ, v = 0) \cup On(FlagN, Bit(v, 8 - 1) = 1)
<1>1. s \in SUBSET Flags /\ t \in SUBSET Flags /\ s = t \cup {FlagM, FlagX}
  BY Fields, FlagSets, FlagValues DEF Twin
<1> HIDE DEF s, t
<1>2. Twin([c EXCEPT !.p = s], [d EXCEPT !.p = t])
  BY <1>1, TwinStatus
<1> QED BY <1>2 DEF SetZN, s, t

LEMMA TwinCV ==
  ASSUME NEW c, NEW d, Twin(c, d), NEW yes, NEW over
  PROVE  LET s(k) == (k.p \ {FlagC, FlagV}) \cup On(FlagC, yes) \cup On(FlagV, over)
         IN  Twin([c EXCEPT !.p = s(c)], [d EXCEPT !.p = s(d)])
<1> DEFINE s == (c.p \ {FlagC, FlagV}) \cup On(FlagC, yes) \cup On(FlagV, over)
           t == (d.p \ {FlagC, FlagV}) \cup On(FlagC, yes) \cup On(FlagV, over)
<1>1. s \in SUBSET Flags /\ t \in SUBSET Flags /\ s = t \cup {FlagM, FlagX}
  BY Fields, FlagSets, FlagValues DEF Twin
<1> HIDE DEF s, t
<1>2. Twin([c EXCEPT !.p = s], [d EXCEPT !.p = t])
  BY <1>1, TwinStatus
<1> QED BY <1>2 DEF s, t

(* Loads.                                                                  *)
LEMMA TwinLoads ==
  ASSUME NEW c, NEW d, Twin(c, d), NEW v \in Int
  PROVE  /\ Twin(LoadAcc(c, v), LoadA(d, Lo(v))) /\ Twin(LoadIdxX(c, v), LoadX(d, Lo(v)))
         /\ Twin(LoadIdxY(c, v), LoadY(d, Lo(v)))
<1>1. ~MWide(c) /\ ~XWide(c) /\ Lo(v) \in Byte
  BY TwinFields, LoHiType
<1> DEFINE u == Lo(v)
<1> HIDE DEF u
<1>2. /\ Twin([c EXCEPT !.a = u], [d EXCEPT !.a = u])
      /\ Twin([c EXCEPT !.x = u], [d EXCEPT !.x = u])
      /\ Twin([c EXCEPT !.y = u], [d EXCEPT !.y = u])
  BY <1>1, TwinAssigning DEF u
<1>3. /\ Twin(SetZN([c EXCEPT !.a = u], u, 8), SetZN([d EXCEPT !.a = u], u, 8))
      /\ Twin(SetZN([c EXCEPT !.x = u], u, 8), SetZN([d EXCEPT !.x = u], u, 8))
      /\ Twin(SetZN([c EXCEPT !.y = u], u, 8), SetZN([d EXCEPT !.y = u], u, 8))
  BY <1>2, TwinZN
<1> QED BY <1>1, <1>3, Zenon DEF LoadAcc, LoadIdxX, LoadIdxY, LoadA, LoadX, LoadY, u

LEMMA TwinByteLoads ==
  ASSUME NEW c, NEW d, Twin(c, d), NEW v \in Byte
  PROVE  /\ Twin(LoadAcc(c, v), LoadA(d, v)) /\ Twin(LoadIdxX(c, v), LoadX(d, v))
         /\ Twin(LoadIdxY(c, v), LoadY(d, v))
<1>1. v \in Int /\ Lo(v) = v
  BY Ranges, LoHiOfByte
<1> QED BY <1>1, TwinLoads

(* The stack.                                                              *)
LEMMA TwinStack ==
  ASSUME NEW c, NEW d, Twin(c, d), NEW n \in Int
  PROVE  /\ Twin(SpMoved(c, n), Popped(d, n)) /\ SpTop(c, n) = Top(d, n)
         /\ SpTop16(c, n) = Top16(d, n) /\ SP16(c) = 256 + d.sp
<1>1. ASSUME NEW k \in Int
      PROVE  Twin(SpMoved(c, k), Popped(d, k)) /\ SpTop(c, k) = Top(d, k)
  <2> DEFINE s == (c.sp + k) % 256
  <2>1. s \in Byte /\ d.sp = c.sp /\ c.e
    <3>1. c.sp + k \in Int
      BY Fields, Ranges, SMT DEF Twin
    <3> QED BY <3>1, Wraps DEF Twin
  <2> HIDE DEF s
  <2>2. Twin([c EXCEPT !.sp = s], [d EXCEPT !.sp = s])
    BY <2>1, TwinAssigning
  <2>3. SpMoved(c, k) = [c EXCEPT !.sp = s]
    BY <2>1 DEF SpMoved, s
  <2>4. Popped(d, k) = [d EXCEPT !.sp = s]
    BY <2>1, TwinFields, StackMoves DEF Popped, s
  <2>5. SP16([c EXCEPT !.sp = s]) = 256 + s
    <3>1. [c EXCEPT !.sp = s].sp = s /\ [c EXCEPT !.sp = s].sph = 1 /\ s \in Int
      BY <2>1, <2>2, Ranges DEF Twin, Processor, Processors
    <3> QED BY <3>1, SMT DEF SP16, Pair
  <2>6. SpTop(c, k) = Read(c, 256 + s) /\ Top(d, k) = Read(d, 256 + s)
    BY <2>1, <2>3, <2>5 DEF SpTop, Top, s
  <2> QED BY <2>2, <2>3, <2>4, <2>6, TwinFields
<1>2. n + 1 \in Int
  OBVIOUS
<1>3. SP16(c) = 256 + d.sp
  <2>1. c.sph = 1 /\ c.sp = d.sp /\ c.sp \in Int
    BY Fields, Ranges DEF Twin
  <2> QED BY <2>1, SMT DEF SP16, Pair
<1> QED BY <1>1, <1>2, <1>3 DEF SpTop16, Top16

LEMMA TwinPush ==
  ASSUME NEW c, NEW d, Twin(c, d), NEW v \in Byte
  PROVE  Twin(SpPush8(c, v), Push(d, v))
<1> DEFINE a == 256 + d.sp
           e == Write(c, a, v)
           f == Write(d, a, v)
<1>1. a \in Address
  BY Fields, Ranges, SMT DEF Twin
<1>2. SP16(c) = a
  BY TwinStack
<1> HIDE DEF a
<1>3. Twin(e, f)
  BY <1>1, TwinWrite
<1> HIDE DEF e, f
<1>4. Twin(SpMoved(e, -1), Popped(f, -1))
  BY <1>3, TwinStack
<1> QED BY <1>2, <1>4 DEF SpPush8, Push, Popped, e, f, a

LEMMA TwinPush16 ==
  ASSUME NEW c, NEW d, Twin(c, d), NEW v \in Int
  PROVE  Twin(SpPush16(c, v), Push16(d, v))
  BY TwinPush, LoHiType DEF SpPush16, Push16

-------------------------------------------------------------------------------
(* Emulation: addresses, operands and stores.                              *)

(* Addresses: in emulation mode, with the banks at 0, the direct page is   *)
(* page 0 and a pointer that stays in it is read alike.                    *)
LEMMA TwinPage ==
  ASSUME NEW c, NEW d, Twin(c, d), NEW v \in Int, NEW w \in Int
  PROVE  DpBase(c, v, w) = (v + w) % 256
<1>1. c.e /\ c.d = 0 /\ Lo(0) = 0
  BY LoHiOfByte, Ranges, SMT DEF Twin
<1>2. (v + w) % 256 \in Int
  BY Wraps, Ranges, SMT
<1> QED BY <1>1, <1>2, SMT DEF DpBase

LEMMA TwinPointer ==
  ASSUME NEW c, NEW d, Twin(c, d), NEW z \in Int, z % 256 # 255
  PROVE  DpWord(c, z % 256) = ZpPointer(d, z) /\ ZpPointer(d, z) \in Word
<1> DEFINE b == z % 256
<1>1. b \in Byte
  BY Wraps
<1>2. (z + 1) % 256 = b + 1
  BY SMT
<1> HIDE DEF b
<1>3. b + 0 \in Word /\ b + 1 \in Word /\ b + 0 = b /\ b \in Address /\ b + 1 \in Address
  <2>1. b # 255
    BY DEF b
  <2> QED BY <1>1, <2>1, Ranges, SMT
<1>4. (b + 0) % 65536 = b /\ (b + 1) % 65536 = b + 1
  BY <1>3, Wrapped
<1>5. DpWord(c, b) = Pair(Read(c, b), Read(c, b + 1))
  BY <1>4 DEF DpWord, DpByte
<1>6. ZpPointer(d, z) = Pair(Read(d, b), Read(d, b + 1))
  BY <1>2 DEF ZpPointer, b
<1>7. Read(d, b) \in Byte /\ Read(d, b + 1) \in Byte
  BY <1>3, ReadType, TwinFields
<1> QED BY <1>5, <1>6, <1>7, TwinFields, PairType DEF b

LEMMA TwinData ==
  ASSUME NEW c, NEW d, Twin(c, d), NEW p \in Word, NEW k \in Byte, p + k <= 65535
  PROVE  InData(c, p, k).addr = p + k /\ (p + k) % 65536 = p + k /\ p + k \in Word
<1>1. p + k \in Word /\ p + k \in Address
  BY Ranges, SMT
<1>2. At(c.dbr, p) + k = p + k
  <2>1. c.dbr = 0 /\ p \in Int /\ k \in Int
    BY Ranges DEF Twin
  <2> QED BY <2>1, SMT DEF At
<1> QED BY <1>1, <1>2, Wrapped DEF InData, InBanks, Wrap24

Within(c, i) == ~LeavesPage(c, i) /\ ~LeavesBank(c, i)

LEMMA TwinAddress ==
  ASSUME NEW c, NEW d, Twin(c, d), NEW i \in Instructions, Within(c, i),
         i.mode \in Accessing
  PROVE  EA(c, i).addr = Resolve(d, i)
<1>1. /\ Xidx(c) = d.x /\ Yidx(c) = d.y /\ c.x = d.x /\ c.y = d.y
      /\ d.x \in Byte /\ d.y \in Byte /\ d.x \in Int /\ d.y \in Int /\ 0 \in Byte
  BY TwinFields, Fields, Ranges, SMT DEF Twin
<1>2. i.arg \in Int /\ i.arg + d.x \in Int /\ i.arg + d.y \in Int /\ i.arg + 0 = i.arg
  BY <1>1, Ranges, SMT DEF Instructions
<1>3. \A z : ZpPointer(c, z) = ZpPointer(d, z)
  BY TwinFields DEF ZpPointer
<1>4. ASSUME i.mode \in {"ZP", "ZPX", "ZPY", "IZP", "IZX", "IZY"} 
      PROVE  i.arg \in Byte /\ i.arg % 256 = i.arg
  BY <1>4, Wrapped DEF Instructions, Operands
<1>5. CASE i.mode \in {"ZP", "ZPX", "ZPY"}
  <2>1. EA(c, i).addr = IF i.mode = "ZP" THEN (i.arg + 0) % 256
                        ELSE IF i.mode = "ZPX" THEN (i.arg + d.x) % 256
                        ELSE (i.arg + d.y) % 256
    BY <1>1, <1>2, <1>5, TwinPage DEF EA, InBank0
  <2> QED BY <1>2, <1>4, <1>5, <2>1 DEF Resolve
<1>6. CASE i.mode \in {"ABS", "ABX", "ABY"}
  <2>1. i.arg \in Word
    BY <1>6 DEF Instructions, Operands
  <2>2. CASE i.mode = "ABS"
    <3>1. i.arg + 0 <= 65535
      BY <2>1, Ranges, SMT
    <3>2. InData(c, i.arg, 0).addr = i.arg
      BY <1>1, <1>2, <2>1, <3>1, TwinData
    <3> QED BY <2>2, <3>2 DEF EA, Resolve
  <2>3. CASE i.mode = "ABX"
    <3>1. i.arg + d.x <= 65535
      BY <1>1, <1>2, <2>3, SMT DEF Within, LeavesBank
    <3>2. InData(c, i.arg, d.x).addr = (i.arg + d.x) % 65536
      BY <1>1, <2>1, <3>1, TwinData
    <3> QED BY <1>1, <2>3, <3>2 DEF EA, Resolve
  <2>4. CASE i.mode = "ABY"
    <3>1. i.arg + d.y <= 65535
      BY <1>1, <1>2, <2>4, SMT DEF Within, LeavesBank
    <3>2. InData(c, i.arg, d.y).addr = (i.arg + d.y) % 65536
      BY <1>1, <2>1, <3>1, TwinData
    <3> QED BY <1>1, <2>4, <3>2 DEF EA, Resolve
  <2> QED BY <1>6, <2>2, <2>3, <2>4
<1>7. CASE i.mode \in {"IZP", "IZY"}
  <2>1. i.arg % 256 # 255
    BY <1>4, <1>7 DEF Within, LeavesPage
  <2>2. DpWord(c, i.arg % 256) = ZpPointer(d, i.arg) /\ ZpPointer(d, i.arg) \in Word
    BY <1>2, <2>1, TwinPointer
  <2>3. DpBase(c, i.arg, 0) = i.arg % 256
    BY <1>2, TwinPage
  <2> DEFINE p == ZpPointer(d, i.arg)
  <2>4. p \in Word /\ DpWord(c, DpBase(c, i.arg, 0)) = p
    BY <2>2, <2>3
  <2>5. i.mode = "IZY" => ~(p + d.y > 65535)
    BY <1>1, <1>3 DEF Within, LeavesBank
  <2> HIDE DEF p
  <2>6. p \in Int /\ p + 0 = p /\ p + d.y \in Int
    BY <1>1, <2>4, Ranges, SMT
  <2>7. CASE i.mode = "IZP"
    <3>1. p + 0 <= 65535
      BY <2>4, Ranges, SMT
    <3>2. InData(c, p, 0).addr = p
      BY <1>1, <2>4, <2>6, <3>1, TwinData
    <3> QED BY <2>4, <2>7, <3>2 DEF EA, Resolve, p
  <2>8. CASE i.mode = "IZY"
    <3>1. p + d.y <= 65535
      BY <2>5, <2>6, <2>8, SMT
    <3>2. InData(c, p, d.y).addr = (p + d.y) % 65536
      BY <1>1, <2>4, <3>1, TwinData
    <3> QED BY <1>1, <2>4, <2>8, <3>2 DEF EA, Resolve, p
  <2> QED BY <1>7, <2>7, <2>8
<1>8. CASE i.mode = "IZX"
  <2>1. (i.arg + d.x) % 256 # 255
    BY <1>1, <1>8 DEF Within, LeavesPage
  <2>2. /\ DpWord(c, (i.arg + d.x) % 256) = ZpPointer(d, i.arg + d.x)
        /\ ZpPointer(d, i.arg + d.x) \in Word
    BY <1>2, <2>1, TwinPointer
  <2>3. DpBase(c, i.arg, d.x) = (i.arg + d.x) % 256
    BY <1>1, <1>2, TwinPage
  <2> DEFINE p == ZpPointer(d, i.arg + d.x)
  <2>4. p \in Word /\ DpWord(c, DpBase(c, i.arg, d.x)) = p
    BY <2>2, <2>3
  <2> HIDE DEF p
  <2>5. p \in Int /\ p + 0 = p /\ p + 0 <= 65535
    BY <2>4, Ranges, SMT
  <2>6. InData(c, p, 0).addr = p
    BY <1>1, <2>4, <2>5, TwinData
  <2> QED BY <1>1, <1>8, <2>4, <2>6 DEF EA, Resolve, p
<1> QED BY <1>5, <1>6, <1>7, <1>8 DEF Accessing, Memory8

(* Operands and stores.                                                    *)
LEMMA TwinOperand ==
  ASSUME NEW c, NEW d, Twin(c, d), NEW i \in Instructions, Within(c, i),
         i.mode \in Accessing \cup {"IMM"}
  PROVE  Operand816(c, i, 8) = Operand(d, i) /\ Operand(d, i) \in Byte
<1>1. Operand(d, i) \in Byte
  BY OperandType, TwinFields
<1>2. CASE i.mode = "IMM"
  BY <1>1, <1>2, Powers DEF Operand816, Operand, Lo
<1>3. CASE i.mode \in Accessing
  <2>1. i.mode \notin {"IMM", "ACC"}
    BY <1>3 DEF Accessing, Memory8
  <2>2. Read(c, EA(c, i).addr) = Read(d, Resolve(d, i))
    BY <1>3, TwinAddress, TwinFields
  <2> QED BY <1>1, <2>1, <2>2 DEF Operand816, Operand, ReadEA
<1> QED BY <1>2, <1>3

LEMMA TwinStore ==
  ASSUME NEW c, NEW d, Twin(c, d), NEW e, NEW f, Twin(e, f), NEW i \in Instructions,
         Within(c, i), i.mode \in Accessing, Resolve(f, i) = Resolve(d, i),
         NEW v \in Int
  PROVE  Twin(WriteEA(e, EA(c, i), 8, v), Store(f, i, Lo(v)))
<1>1. i.mode # "ACC" /\ i.mode \in Resolving
  BY DEF Accessing, Memory8, Resolving
<1>2. EA(c, i).addr = Resolve(f, i) /\ Resolve(f, i) \in Address
  BY <1>1, TwinAddress, TwinFields, Resolved, Wider
<1>3. Twin(Write(e, Resolve(f, i), Lo(v)), Write(f, Resolve(f, i), Lo(v)))
  BY <1>2, TwinWrite, LoHiType
<1> QED BY <1>1, <1>2, <1>3 DEF WriteEA, Store

-------------------------------------------------------------------------------
(* Emulation: what the instructions that read do.                          *)

(* Reads, group by group.                                                  *)
LEMMA TwinLogic ==
  ASSUME NEW c, NEW d, Twin(c, d), NEW op \in Logics, NEW v \in Byte
  PROVE  Twin(LogicReads(c, op, v), Logic(d, op, v))
<1>1. Acc(c) = d.a /\ d.a \in Byte
  BY TwinFields, Fields
<1>2. And(d.a, v) \in Byte /\ Or(d.a, v) \in Byte /\ Xor(d.a, v) \in Byte
  BY <1>1, BooleansOfBytes
<1>3. /\ Twin(LoadAcc(c, And(d.a, v)), LoadA(d, And(d.a, v)))
      /\ Twin(LoadAcc(c, Or(d.a, v)), LoadA(d, Or(d.a, v)))
      /\ Twin(LoadAcc(c, Xor(d.a, v)), LoadA(d, Xor(d.a, v)))
  BY <1>2, TwinByteLoads
<1>4. CASE op = "AND"
  BY <1>1, <1>3, <1>4 DEF LogicReads, Logic
<1>5. CASE op = "ORA"
  BY <1>1, <1>3, <1>5 DEF LogicReads, Logic
<1>6. CASE op = "EOR"
  BY <1>1, <1>3, <1>6 DEF LogicReads, Logic
<1> QED BY <1>4, <1>5, <1>6 DEF Logics

LEMMA TwinSum ==
  ASSUME NEW c, NEW d, Twin(c, d), NEW v \in Byte
  PROVE  /\ d.a + v + CarryIn(d) \in Int /\ (d.a + v + CarryIn(d)) % 256 \in Byte
         /\ \A sum : Twin(SetCV(c, d.a, v, sum, 8), SetCV(d, d.a, v, sum, 8))
<1>1. d.a + v + CarryIn(d) \in Int
  <2>1. d.a \in Int /\ v \in Int /\ CarryIn(d) \in Int
    BY TwinFields, Fields, Ranges, CarryInType, SMT
  <2> QED BY <2>1
<1>2. \A sum : Twin(SetCV(c, d.a, v, sum, 8), SetCV(d, d.a, v, sum, 8))
  BY TwinCV DEF SetCV
<1> QED BY <1>1, <1>2, Wraps

LEMMA TwinAdc ==
  ASSUME NEW c, NEW d, Twin(c, d), NEW v \in Byte
  PROVE  Twin(Adc816(c, v), Adc(d, v))
<1> DEFINE sum == d.a + v + CarryIn(d)
<1>1. /\ Acc(c) = d.a /\ AccBits(c) = 8 /\ CarryIn(c) = CarryIn(d) /\ 2 ^ 8 = 256
      /\ FlagD \in c.p <=> FlagD \in d.p
  BY TwinFields, Powers
<1>2. CMOS(d) /\ (Decimal(d) <=> FlagD \in d.p)
  BY TwinFields DEF CMOS, Decimal
<1>3. CASE FlagD \notin d.p
  <2> DEFINE e == SetCV(c, d.a, v, sum, 8)
             f == SetCV(d, d.a, v, sum, 8)
  <2>1. Twin(e, f) /\ sum % 256 \in Byte
    BY TwinSum
  <2> HIDE DEF e, f
  <2>2. Twin(LoadAcc(e, sum % 256), LoadA(f, sum % 256))
    BY <2>1, TwinByteLoads
  <2> QED BY <1>1, <1>2, <1>3, <2>2 DEF Adc816, Adc, AddBinary, e, f
<1>4. CASE FlagD \in d.p
  <2> DEFINE part == PartialSum8(d.a, v, CarryIn(d))
             dec == DecimalSum8(d.a, v, CarryIn(d))
             over == Overflow(d.a, v, part, 8)
             big == dec >= 256
             s == (c.p \ {FlagC, FlagV}) \cup On(FlagC, big) \cup On(FlagV, over)
             t == (d.p \ {FlagC, FlagV}) \cup On(FlagC, big) \cup On(FlagV, over)
             e == [c EXCEPT !.p = s]
             f == [d EXCEPT !.p = t]
  <2>1. dec \in Int /\ dec % 256 \in Byte /\ part \in Int
    <3>1. d.a \in Word /\ v \in Word /\ CarryIn(d) \in {0, 1}
      BY TwinFields, Fields, Wider, CarryInType
    <3>2. dec \in Int /\ part \in Int
      BY <3>1, Decimal8Types
    <3> HIDE DEF dec, part
    <3> QED BY <3>2, Wraps
  <2>2. dec = IF part >= 10 * 2 ^ (8 - 4) THEN part + 6 * 2 ^ (8 - 4) ELSE part
    <3>1. 10 * 2 ^ (8 - 4) = 160 /\ 6 * 2 ^ (8 - 4) = 96
      BY Powers, SMT
    <3> QED BY <3>1 DEF DecimalSum8
  <2> HIDE DEF part, dec, over, big
  <2>3. Twin(e, f)
    BY TwinCV
  <2>4. t = (d.p \ {FlagV, FlagC}) \cup On(FlagV, over) \cup On(FlagC, big)
    OBVIOUS
  <2> HIDE DEF s, t
  <2>5. [d EXCEPT !.p = (d.p \ {FlagV, FlagC}) \cup On(FlagV, over) \cup On(FlagC, big)] = f
    BY <2>4
  <2> HIDE DEF e, f
  <2>6. Twin(LoadAcc(e, dec % 256), LoadA(f, dec % 256))
    BY <2>1, <2>3, TwinByteLoads
  <2>7. Adc(d, v) = LoadA(f, dec % 256)
    BY <1>2, <1>4, <2>5 DEF Adc, AdcDecimalCMOS, part, dec, over, big
  <2>8. AdcDecimal816(c, v) = LoadAcc(e, dec % 256)
    BY <1>1, <2>2 DEF AdcDecimal816, part, over, big, e, s
  <2>9. Adc816(c, v) = AdcDecimal816(c, v)
    BY <1>1, <1>4 DEF Adc816
  <2> QED BY <2>6, <2>7, <2>8, <2>9
<1> QED BY <1>3, <1>4

(* A second load of A leaves nothing of the first.                         *)
LEMMA LoadedAgain ==
  ASSUME NEW c \in Processor, NEW v, NEW w
  PROVE  LoadA(LoadA(c, v), w) = LoadA(c, w)
<1> DEFINE zn(s, u) == (s \ {FlagN, FlagZ}) \cup On(FlagZ, u = 0) \cup On(FlagN, Bit(u, 8 - 1) = 1)
           p == zn(c.p, v)
           q == zn(p, w)
           r == zn(c.p, w)
<1>1. q = r
  BY DEF On
<1> HIDE DEF p, q, r
<1>2. [c EXCEPT !.a = v].p = c.p
  BY DEF Processor, Processors
<1>3. LoadA(c, v) = [[c EXCEPT !.a = v] EXCEPT !.p = p]
  BY <1>2 DEF LoadA, SetZN, p
<1>4. [[[c EXCEPT !.a = v] EXCEPT !.p = p] EXCEPT !.a = w].p = p
  BY DEF Processor, Processors
<1>5. LoadA(LoadA(c, v), w)
        = [[[[c EXCEPT !.a = v] EXCEPT !.p = p] EXCEPT !.a = w] EXCEPT !.p = q]
  BY <1>3, <1>4 DEF LoadA, SetZN, q
<1>6. [c EXCEPT !.a = w].p = c.p
  BY DEF Processor, Processors
<1>7. LoadA(c, w) = [[c EXCEPT !.a = w] EXCEPT !.p = r]
  BY <1>6 DEF LoadA, SetZN, r
<1>8. [[[[c EXCEPT !.a = v] EXCEPT !.p = p] EXCEPT !.a = w] EXCEPT !.p = q]
        = [[c EXCEPT !.a = w] EXCEPT !.p = q]
  BY DEF Processor, Processors
<1> QED BY <1>1, <1>5, <1>7, <1>8

LEMMA TwinSbc ==
  ASSUME NEW c, NEW d, Twin(c, d), NEW v \in Byte
  PROVE  Twin(Sbc816(c, v), Sbc(d, v))
<1> DEFINE w == Complement(v, 8)
           sum == d.a + w + CarryIn(d)
           dec == DecimalDiff8(d.a, v, CarryIn(d))
           e == SetCV(c, d.a, w, sum, 8)
           f == SetCV(d, d.a, w, sum, 8)
<1>1. /\ Acc(c) = d.a /\ AccBits(c) = 8 /\ CarryIn(c) = CarryIn(d) /\ 2 ^ 8 = 256
      /\ FlagD \in c.p <=> FlagD \in d.p
      /\ ~MWide(c) /\ CMOS(d) /\ (Decimal(d) <=> FlagD \in d.p)
  BY TwinFields, Powers DEF CMOS, Decimal
<1>2. w \in Byte
  BY Powers, Ranges, SMT DEF Complement
<1>3. dec \in Byte
  BY Decimal8Types, TwinFields, Fields, Wider, CarryInType
<1> HIDE DEF w, dec
<1>4. Twin(e, f) /\ sum % 256 \in Byte
  BY <1>2, TwinSum
<1>5. Sbc816(c, v) = LoadAcc(e, IF FlagD \in d.p THEN dec ELSE sum % 256)
  BY <1>1 DEF Sbc816, w, dec
<1>6. SubBinary(d, v) = LoadA(f, sum % 256)
  BY DEF SubBinary, AddBinary, w
<1> HIDE DEF e, f, sum
<1>7. /\ Twin(LoadAcc(e, sum % 256), LoadA(f, sum % 256))
      /\ Twin(LoadAcc(e, dec), LoadA(f, dec))
  BY <1>3, <1>4, TwinByteLoads
<1>8. LoadA(SubBinary(d, v), dec) = LoadA(f, dec)
  BY <1>4, <1>6, LoadedAgain, TwinFields
<1>9. Sbc(d, v) = IF FlagD \in d.p THEN LoadA(f, dec) ELSE LoadA(f, sum % 256)
  BY <1>1, <1>6, <1>8 DEF Sbc, SbcDecimalCMOS, dec
<1> QED BY <1>5, <1>7, <1>9

(* Which operator executes an instruction, by its name. *)
LEMMA Dispatch6502 ==
  ASSUME NEW c, NEW i
  PROVE  /\ i.op \in Loads => Exec(c, i) = Load(c, i.op, Operand(c, i))
         /\ i.op \in Stores => Exec(c, i) = Store(c, i, Stored(c, i.op))
         /\ i.op \in Transfers => Exec(c, i) = Transfer(c, i.op)
         /\ i.op \in StackOps => Exec(c, i) = StackOp(c, i.op)
         /\ i.op \in Logics => Exec(c, i) = Logic(c, i.op, Operand(c, i))
         /\ i.op = "BIT" => Exec(c, i) = BitTest(c, i, Operand(c, i))
         /\ i.op = "ADC" => Exec(c, i) = Adc(c, Operand(c, i))
         /\ i.op = "SBC" => Exec(c, i) = Sbc(c, Operand(c, i))
         /\ i.op \in Compares => Exec(c, i) = Compare(c, i.op, Operand(c, i))
         /\ i.op \in ReadModifyWrites => Exec(c, i) = ReadModifyWrite(c, i)
         /\ i.op \in Steps => Exec(c, i) = StepIndex(c, i.op)
         /\ i.op \in BitWrites => Exec(c, i) = BitWrite(c, i)
         /\ i.op \in Branches => Exec(c, i) = Branch(c, i)
         /\ i.op \in Jumps => Exec(c, i) = Jump(c, i)
         /\ i.op \in FlagOps => Exec(c, i) = FlagOp(c, i.op)
         /\ i.op \in Idles => Exec(c, i) = Idle(c, i.op)
<1> USE DEF Loads, Stores, Transfers, StackOps, Logics, Compares, ReadModifyWrites, Steps,
    BitWrites, Branches, BitBranches, Jumps, FlagOps, Idles, Combined, Immediates, Unstable
<1>1. i.op \in Loads => Exec(c, i) = Load(c, i.op, Operand(c, i))
  BY DEF Exec
<1>2. i.op \in Stores => Exec(c, i) = Store(c, i, Stored(c, i.op))
  BY DEF Exec
<1>3. i.op \in Transfers => Exec(c, i) = Transfer(c, i.op)
  BY DEF Exec
<1>4. i.op \in StackOps => Exec(c, i) = StackOp(c, i.op)
  BY DEF Exec
<1>5. i.op \in Logics => Exec(c, i) = Logic(c, i.op, Operand(c, i))
  BY DEF Exec
<1>6. i.op = "BIT" => Exec(c, i) = BitTest(c, i, Operand(c, i))
  BY DEF Exec
<1>7. i.op = "ADC" => Exec(c, i) = Adc(c, Operand(c, i))
  BY DEF Exec
<1>8. i.op = "SBC" => Exec(c, i) = Sbc(c, Operand(c, i))
  BY DEF Exec
<1>9. i.op \in Compares => Exec(c, i) = Compare(c, i.op, Operand(c, i))
  BY DEF Exec
<1>10. i.op \in ReadModifyWrites => Exec(c, i) = ReadModifyWrite(c, i)
  BY DEF Exec
<1>11. i.op \in Steps => Exec(c, i) = StepIndex(c, i.op)
  BY DEF Exec
<1>12. i.op \in BitWrites => Exec(c, i) = BitWrite(c, i)
  BY DEF Exec
<1>13. i.op \in Branches => Exec(c, i) = Branch(c, i)
  BY DEF Exec
<1>14. i.op \in Jumps => Exec(c, i) = Jump(c, i)
  BY DEF Exec
<1>15. i.op \in FlagOps => Exec(c, i) = FlagOp(c, i.op)
  BY DEF Exec
<1>16. i.op \in Idles => Exec(c, i) = Idle(c, i.op)
  BY DEF Exec
<1> HIDE DEF Loads, Stores, Transfers, StackOps, Logics, Compares, ReadModifyWrites, Steps,
    BitWrites, Branches, BitBranches, Jumps, FlagOps, Idles, Combined, Immediates, Unstable
<1> QED BY <1>1, <1>2, <1>3, <1>4, <1>5, <1>6, <1>7, <1>8, <1>9, <1>10,
           <1>11, <1>12, <1>13, <1>14, <1>15, <1>16

(* And of the 65816. *)
LEMMA Dispatch816 ==
  ASSUME NEW c, NEW i
  PROVE  /\ i.op \in AccReads => Exec816(c, i) = AccRead(c, i)
         /\ i.op \in IdxReads => Exec816(c, i) = IdxRead(c, i)
         /\ i.op \in Stores => Exec816(c, i) = Writes816(c, i)
         /\ i.op \in Rmws => Exec816(c, i) = Rmw816(c, i)
         /\ i.op \in Registers816 => Exec816(c, i) = Register816(c, i.op)
         /\ i.op \in FlagOps => Exec816(c, i) = FlagOp(c, i.op)
         /\ i.op \in Stack816 => Exec816(c, i) = StackOp816(c, i.op)
         /\ i.op \in Jumps816 => Exec816(c, i) = Jump816(c, i)
         /\ i.op \in Branches => Exec816(c, i) = Branch816(c, i)
         /\ i.op = "BRK" => Exec816(c, i) = Brk816(c)
         /\ i.op \in Idles816 => Exec816(c, i) = Idle816(c, i.op)
<1> USE DEF AccReads, IdxReads, Stores, ReadModifyWrites, Registers816, FlagOps, ModeControls,
    Stack816, NewStack, Jumps816, Branches, BlockMoves, Idles816, Rmws
<1>1. i.op \in AccReads => Exec816(c, i) = AccRead(c, i)
  BY DEF Exec816
<1>2. i.op \in IdxReads => Exec816(c, i) = IdxRead(c, i)
  BY DEF Exec816
<1>3. i.op \in Stores => Exec816(c, i) = Writes816(c, i)
  BY DEF Exec816
<1>4. i.op \in Rmws => Exec816(c, i) = Rmw816(c, i)
  BY DEF Exec816
<1>5. i.op \in Registers816 => Exec816(c, i) = Register816(c, i.op)
  BY DEF Exec816
<1>6. i.op \in FlagOps => Exec816(c, i) = FlagOp(c, i.op)
  BY DEF Exec816
<1>7. i.op \in Stack816 => Exec816(c, i) = StackOp816(c, i.op)
  BY DEF Exec816
<1>8. i.op \in Jumps816 => Exec816(c, i) = Jump816(c, i)
  BY DEF Exec816
<1>9. i.op \in Branches => Exec816(c, i) = Branch816(c, i)
  BY DEF Exec816
<1>10. i.op = "BRK" => Exec816(c, i) = Brk816(c)
  BY DEF Exec816
<1>11. i.op \in Idles816 => Exec816(c, i) = Idle816(c, i.op)
  BY DEF Exec816
<1> HIDE DEF AccReads, IdxReads, Stores, ReadModifyWrites, Registers816, FlagOps, ModeControls,
    Stack816, NewStack, Jumps816, Branches, BlockMoves, Idles816, Rmws
<1> QED BY <1>1, <1>2, <1>3, <1>4, <1>5, <1>6, <1>7, <1>8, <1>9, <1>10,
           <1>11

(* Comparisons, BIT, and what loads A or an index register.                *)
LEMMA TwinHalves ==
  ASSUME NEW c, NEW d, Twin(c, d)
  PROVE  /\ Lo(A16(c)) = d.a /\ Lo(X16(c)) = d.x /\ Lo(Y16(c)) = d.y /\ Lo(SP16(c)) = d.sp
         /\ A16(c) % 256 = d.a /\ X16(c) % 256 = d.x /\ Y16(c) % 256 = d.y
         /\ A16(c) \in Int /\ X16(c) \in Int /\ Y16(c) \in Int /\ SP16(c) \in Int
<1>1. Lo(A16(c)) = d.a /\ Lo(X16(c)) = d.x /\ Lo(Y16(c)) = d.y /\ Lo(SP16(c)) = d.sp
  BY Fields, HalvesOfPair DEF Twin, A16, X16, Y16, SP16
<1>2. A16(c) \in Int /\ X16(c) \in Int /\ Y16(c) \in Int /\ SP16(c) \in Int
  BY RegisterTypes, TwinFields, Ranges
<1> QED BY <1>1, <1>2 DEF Lo

LEMMA TwinCompare ==
  ASSUME NEW c, NEW d, Twin(c, d), NEW v \in Byte, NEW reg \in Int, NEW r \in Byte,
         reg % 256 = r
  PROVE  Twin(CompareAt(c, reg, v, 8), Compare8(d, r, v))
<1>1. 2 ^ 8 = 256 /\ v % 256 = v
  BY Powers, Wrapped
<1>2. Twin(SetFlag(c, FlagC, r >= v), SetFlag(d, FlagC, r >= v))
  BY TwinFlag
<1>3. Twin(SetZN(SetFlag(c, FlagC, r >= v), (r - v) % 256, 8),
           SetZN(SetFlag(d, FlagC, r >= v), (r - v) % 256, 8))
  BY <1>2, TwinZN
<1> QED BY <1>1, <1>3 DEF CompareAt, Compare8

LEMMA TwinBit ==
  ASSUME NEW c, NEW d, Twin(c, d), NEW i, NEW v \in Byte
  PROVE  Twin(Bit816(c, i, v), BitTest(d, i, v))
<1> DEFINE z(k) == SetFlag(k, FlagZ, And(d.a, v) = 0)
           n(k) == SetFlag(z(k), FlagN, Bit(v, 7) = 1)
           w(k) == SetFlag(n(k), FlagV, Bit(v, 6) = 1)
<1>1. Acc(c) = d.a /\ AccBits(c) = 8 /\ 8 - 1 = 7 /\ 8 - 2 = 6
  BY TwinFields
<1>2. Twin(z(c), z(d))
  BY TwinFlag
<1>3. Twin(n(c), n(d))
  <2> HIDE DEF z
  <2> QED BY <1>2, TwinFlag
<1>4. Twin(w(c), w(d))
  <2> HIDE DEF n
  <2> QED BY <1>3, TwinFlag
<1> QED BY <1>1, <1>2, <1>4 DEF Bit816, BitTest

LEMMA TwinAccRead ==
  ASSUME NEW c, NEW d, Twin(c, d), NEW i \in Instructions, Within(c, i),
         i.op \in AccReads, i.mode \in Accessing \cup {"IMM"}
  PROVE  Twin(AccRead(c, i), Exec(d, i))
<1> DEFINE v == Operand(d, i)
<1>1. v \in Byte /\ Operand816(c, i, AccBits(c)) = v /\ AccBits(c) = 8
  BY TwinOperand, TwinFields
<1>2. CASE i.op \in Logics
  <2>1. AccRead(c, i) = LogicReads(c, i.op, v)
    BY <1>1, <1>2 DEF AccRead, Logics
  <2>2. Exec(d, i) = Logic(d, i.op, v)
    BY <1>2, Dispatch6502
  <2> QED BY <1>1, <1>2, <2>1, <2>2, TwinLogic
<1>3. CASE i.op = "ADC"
  <2>1. AccRead(c, i) = Adc816(c, v)
    BY <1>1, <1>3 DEF AccRead, Logics
  <2>2. Exec(d, i) = Adc(d, v)
    BY <1>3, Dispatch6502
  <2> QED BY <1>1, <2>1, <2>2, TwinAdc
<1>4. CASE i.op = "SBC"
  <2>1. AccRead(c, i) = Sbc816(c, v)
    BY <1>1, <1>4 DEF AccRead, Logics
  <2>2. Exec(d, i) = Sbc(d, v)
    BY <1>4, Dispatch6502
  <2> QED BY <1>1, <2>1, <2>2, TwinSbc
<1>5. CASE i.op = "LDA"
  <2>1. AccRead(c, i) = LoadAcc(c, v)
    BY <1>1, <1>5 DEF AccRead, Logics
  <2>2. Exec(d, i) = LoadA(d, v)
    BY <1>5, Dispatch6502 DEF Loads, Load
  <2> QED BY <1>1, <2>1, <2>2, TwinByteLoads
<1>6. CASE i.op = "CMP"
  <2>1. AccRead(c, i) = CompareAt(c, A16(c), v, 8)
    BY <1>1, <1>6 DEF AccRead, Logics
  <2>2. Exec(d, i) = Compare8(d, d.a, v)
    BY <1>6, Dispatch6502 DEF Compare, Compares
  <2> QED BY <1>1, <2>1, <2>2, TwinCompare, TwinHalves, TwinFields, Fields
<1>7. CASE i.op = "BIT"
  <2>1. AccRead(c, i) = Bit816(c, i, v)
    BY <1>1, <1>7 DEF AccRead, Logics
  <2>2. Exec(d, i) = BitTest(d, i, v)
    BY <1>7, Dispatch6502
  <2> QED BY <1>1, <2>1, <2>2, TwinBit
<1> QED BY <1>2, <1>3, <1>4, <1>5, <1>6, <1>7 DEF AccReads, Logics

LEMMA TwinIdxRead ==
  ASSUME NEW c, NEW d, Twin(c, d), NEW i \in Instructions, Within(c, i),
         i.op \in IdxReads, i.mode \in Accessing \cup {"IMM"}
  PROVE  Twin(IdxRead(c, i), Exec(d, i))
<1> DEFINE v == Operand(d, i)
<1>1. v \in Byte /\ Operand816(c, i, IdxBits(c)) = v /\ IdxBits(c) = 8
  BY TwinOperand, TwinFields
<1>2. CASE i.op \in {"LDX", "LDY"}
  <2>1. IdxRead(c, i) = IF i.op = "LDX" THEN LoadIdxX(c, v) ELSE LoadIdxY(c, v)
    BY <1>1, <1>2 DEF IdxRead
  <2>2. Exec(d, i) = IF i.op = "LDX" THEN LoadX(d, v) ELSE LoadY(d, v)
    BY <1>2, Dispatch6502 DEF Loads, Load
  <2> QED BY <1>1, <2>1, <2>2, TwinByteLoads
<1>3. CASE i.op \in {"CPX", "CPY"}
  <2>1. IdxRead(c, i) = IF i.op = "CPX" THEN CompareAt(c, X16(c), v, 8)
                        ELSE CompareAt(c, Y16(c), v, 8)
    BY <1>1, <1>3 DEF IdxRead
  <2>2. Exec(d, i) = IF i.op = "CPX" THEN Compare8(d, d.x, v) ELSE Compare8(d, d.y, v)
    BY <1>3, Dispatch6502 DEF Compare, Compares
  <2> QED BY <1>1, <2>1, <2>2, TwinCompare, TwinHalves, TwinFields, Fields
<1> QED BY <1>2, <1>3 DEF IdxReads

(* What stores.                                                            *)
LEMMA TwinWrites ==
  ASSUME NEW c, NEW d, Twin(c, d), NEW i \in Instructions, Within(c, i),
         i.op \in Stores, i.mode \in Accessing
  PROVE  Twin(Writes816(c, i), Exec(d, i))
<1>1. AccBits(c) = 8 /\ IdxBits(c) = 8 /\ 0 \in Int /\ Lo(0) = 0
  BY TwinFields, LoHiOfByte, Ranges, SMT
<1>2. \A v \in Int : Twin(WriteEA(c, EA(c, i), 8, v), Store(d, i, Lo(v)))
  BY TwinStore
<1>3. Exec(d, i) = Store(d, i, Stored(d, i.op))
  BY Dispatch6502
<1>4. /\ Twin(WriteEA(c, EA(c, i), 8, A16(c)), Store(d, i, d.a))
      /\ Twin(WriteEA(c, EA(c, i), 8, X16(c)), Store(d, i, d.x))
      /\ Twin(WriteEA(c, EA(c, i), 8, Y16(c)), Store(d, i, d.y))
      /\ Twin(WriteEA(c, EA(c, i), 8, 0), Store(d, i, 0))
  <2>1. /\ Lo(A16(c)) = d.a /\ Lo(X16(c)) = d.x /\ Lo(Y16(c)) = d.y
        /\ A16(c) \in Int /\ X16(c) \in Int /\ Y16(c) \in Int
    BY TwinHalves
  <2>2. Twin(WriteEA(c, EA(c, i), 8, A16(c)), Store(d, i, Lo(A16(c))))
    BY <1>2, <2>1
  <2>3. Twin(WriteEA(c, EA(c, i), 8, X16(c)), Store(d, i, Lo(X16(c))))
    BY <1>2, <2>1
  <2>4. Twin(WriteEA(c, EA(c, i), 8, Y16(c)), Store(d, i, Lo(Y16(c))))
    BY <1>2, <2>1
  <2>5. Twin(WriteEA(c, EA(c, i), 8, 0), Store(d, i, Lo(0)))
    BY <1>1, <1>2
  <2> QED BY <1>1, <2>1, <2>2, <2>3, <2>4, <2>5
<1>5. CASE i.op = "STA"
  BY <1>1, <1>3, <1>4, <1>5 DEF Writes816, Stored
<1>6. CASE i.op = "STX"
  BY <1>1, <1>3, <1>4, <1>6 DEF Writes816, Stored
<1>7. CASE i.op = "STY"
  BY <1>1, <1>3, <1>4, <1>7 DEF Writes816, Stored
<1>8. CASE i.op = "STZ"
  BY <1>1, <1>3, <1>4, <1>8 DEF Writes816, Stored
<1> QED BY <1>5, <1>6, <1>7, <1>8 DEF Stores

-------------------------------------------------------------------------------
(* Emulation: read-modify-write. The two cores set the flags and store the *)
(* result in different orders.                                             *)

(* The flags of a result may be set before it is stored or after.          *)
LEMMA FlagsThenStore ==
  ASSUME NEW c \in Processor, NEW i, NEW v, NEW w,
         Resolve(SetZN(c, w, 8), i) = Resolve(c, i)
  PROVE  SetZN(Store(c, i, v), w, 8) = Store(SetZN(c, w, 8), i, v)
<1> DEFINE p == (c.p \ {FlagN, FlagZ}) \cup On(FlagZ, w = 0) \cup On(FlagN, Bit(w, 8 - 1) = 1)
           a == Resolve(c, i)
           m == [b \in {a} \cup DOMAIN c.mem |-> IF b = a THEN v ELSE c.mem[b]]
           e == [c EXCEPT !.p = p]
<1>1. SetZN(c, w, 8) = e
  BY DEF SetZN
<1> HIDE DEF p
<1>2. e.mem = c.mem /\ [c EXCEPT !.a = v].p = c.p
  BY DEF Processor, Processors
<1>3. Write(c, a, v) = [c EXCEPT !.mem = m] /\ Write(e, a, v) = [e EXCEPT !.mem = m]
  BY <1>2 DEF Write
<1> HIDE DEF m
<1>4. [c EXCEPT !.mem = m].p = c.p
  BY DEF Processor, Processors
<1>5. /\ [[c EXCEPT !.mem = m] EXCEPT !.p = p] = [[c EXCEPT !.p = p] EXCEPT !.mem = m]
      /\ [[c EXCEPT !.a = v] EXCEPT !.p = p] = [[c EXCEPT !.p = p] EXCEPT !.a = v]
  BY DEF Processor, Processors
<1>6. SetZN([c EXCEPT !.mem = m], w, 8) = [[c EXCEPT !.mem = m] EXCEPT !.p = p]
  BY <1>4 DEF SetZN, p
<1>7. SetZN([c EXCEPT !.a = v], w, 8) = [[c EXCEPT !.a = v] EXCEPT !.p = p]
  BY <1>2 DEF SetZN, p
<1>8. Resolve(e, i) = a
  BY <1>1
<1> HIDE DEF a
<1>9. CASE i.mode = "ACC"
  BY <1>1, <1>5, <1>7, <1>9 DEF Store, e
<1>10. CASE i.mode # "ACC"
  <2>1. Store(c, i, v) = Write(c, a, v) /\ Store(e, i, v) = Write(e, a, v)
    BY <1>8, <1>10 DEF Store, a
  <2> QED BY <1>1, <1>3, <1>5, <1>6, <2>1 DEF e
<1> QED BY <1>9, <1>10

(* An address depends on the index registers, PC and memory alone.         *)
LEMMA SameResolve ==
  ASSUME NEW c, NEW d, NEW i, d.variant = c.variant, d.x = c.x, d.y = c.y, d.pc = c.pc,
         d.mem = c.mem
  PROVE  Resolve(d, i) = Resolve(c, i)
<1>1. \A a : Read(d, a) = Read(c, a)
  BY DEF Read
<1>2. \A z : ZpPointer(d, z) = ZpPointer(c, z) /\ JumpPointer(d, z) = JumpPointer(c, z)
  BY <1>1 DEF ZpPointer, JumpPointer, CMOS
<1> QED BY <1>1, <1>2 DEF Resolve

LEMMA FlagsResolve ==
  ASSUME NEW c \in Processor, NEW i
  PROVE  /\ \A f, yes : Resolve(SetFlag(c, f, yes), i) = Resolve(c, i)
         /\ \A v, bits : Resolve(SetZN(c, v, bits), i) = Resolve(c, i)
<1>1. ASSUME NEW s PROVE Resolve([c EXCEPT !.p = s], i) = Resolve(c, i)
  <2> DEFINE d == [c EXCEPT !.p = s]
  <2>1. d.variant = c.variant /\ d.x = c.x /\ d.y = c.y /\ d.pc = c.pc /\ d.mem = c.mem
    BY DEF Processor, Processors
  <2> HIDE DEF d
  <2>2. Resolve(d, i) = Resolve(c, i)
    BY <2>1, SameResolve
  <2> QED BY <2>2 DEF d
<1> QED BY <1>1 DEF SetFlag, SetZN

(* Shifts, rotates and steps, in A or in memory; TSB and TRB.              *)
LEMMA TwinShifted ==
  ASSUME NEW c, NEW d, Twin(c, d), NEW op, NEW v
  PROVE  LET g == CASE op \in {"ASL", "ROL"} -> SetFlag(c, FlagC, Bit(v, 8 - 1) = 1)
                    [] op \in {"LSR", "ROR"} -> SetFlag(c, FlagC, Bit(v, 0) = 1)
                    [] OTHER -> c
         IN  Twin(g, Shifted(d, op, v))
<1>1. /\ Twin(SetFlag(c, FlagC, Bit(v, 7) = 1), SetFlag(d, FlagC, Bit(v, 7) = 1))
      /\ Twin(SetFlag(c, FlagC, Bit(v, 0) = 1), SetFlag(d, FlagC, Bit(v, 0) = 1))
      /\ 8 - 1 = 7
  BY TwinFlag
<1> QED BY <1>1 DEF Shifted

LEMMA TwinRmw ==
  ASSUME NEW c, NEW d, Twin(c, d), NEW i \in Instructions, Within(c, i),
         i.op \in ReadModifyWrites, i.mode \in Accessing \cup {"ACC"}
  PROVE  Twin(Rmw816(c, i), Exec(d, i))
<1> DEFINE v == Operand(d, i)
           w == Modified(d, i.op, v)
           g == CASE i.op \in {"ASL", "ROL"} -> SetFlag(c, FlagC, Bit(v, 8 - 1) = 1)
                  [] i.op \in {"LSR", "ROR"} -> SetFlag(c, FlagC, Bit(v, 0) = 1)
                  [] OTHER -> c
           h == Shifted(d, i.op, v)
           f == SetZN(g, w, 8)
           e == SetZN(h, w, 8)
<1>1. v \in Byte
  BY OperandType, TwinFields
<1>2. AccBits(c) = 8 /\ ~MWide(c) /\ Acc(c) = d.a /\ CarryIn(c) = CarryIn(d)
  BY TwinFields
<1>3. (IF i.mode = "ACC" THEN Acc(c) ELSE ReadEA(c, EA(c, i), 8)) = v
  <2>1. CASE i.mode = "ACC"
    BY <1>2, <2>1 DEF Operand
  <2>2. CASE i.mode # "ACC"
    <3>1. i.mode \in Accessing /\ i.mode # "IMM"
      BY <2>2 DEF Accessing, Memory8
    <3> QED BY <2>2, <3>1, TwinOperand DEF Operand816
  <2> QED BY <2>1, <2>2
<1> HIDE DEF v
<1>4. w \in Byte
  BY <1>1, ModifiedType DEF ReadModifyWrites, ModifiedOps
<1>5. RmwValue(c, i.op, v, 8) = w
  <2>1. 2 ^ 8 = 256 /\ 2 ^ (8 - 1) = 128
    BY Powers, SMT
  <2> QED BY <1>2, <2>1 DEF RmwValue, Modified, ReadModifyWrites
<1>6. Twin(g, h)
  BY TwinShifted
<1>7. RmwFlags(c, i.op, v, 8) = f
  BY <1>5 DEF RmwFlags, ReadModifyWrites
<1>8. Resolve(h, i) = Resolve(d, i)
  BY TwinFields, FlagsResolve DEF Shifted
<1> HIDE DEF g, h, w
<1>9. Twin(f, e)
  BY <1>6, TwinZN
<1>10. Resolve(e, i) = Resolve(h, i)
  BY <1>6, TwinFields, FlagsResolve
<1>11. Exec(d, i) = Store(e, i, w)
  <2>1. Exec(d, i) = SetZN(Store(h, i, w), w, 8)
    BY Dispatch6502 DEF ReadModifyWrite, v, w, h
  <2> QED BY <1>6, <1>10, <2>1, TwinFields, FlagsThenStore
<1> HIDE DEF e, f
<1>12. Rmw816(c, i) = IF i.mode # "ACC" THEN WriteEA(f, EA(c, i), 8, w) ELSE [f EXCEPT !.a = w]
  BY <1>2, <1>3, <1>5, <1>7 DEF Rmw816
<1>13. CASE i.mode = "ACC"
  BY <1>4, <1>9, <1>11, <1>12, <1>13, TwinAssigning DEF Store
<1>14. CASE i.mode # "ACC"
  <2>1. w \in Int /\ Lo(w) = w /\ i.mode \in Accessing
    BY <1>4, <1>14, LoHiOfByte, Ranges
  <2>2. Twin(WriteEA(f, EA(c, i), 8, w), Store(e, i, Lo(w)))
    BY <1>8, <1>9, <1>10, <2>1, TwinStore
  <2> QED BY <1>11, <1>12, <1>14, <2>1, <2>2
<1> QED BY <1>13, <1>14

LEMMA TwinBitWrite ==
  ASSUME NEW c, NEW d, Twin(c, d), NEW i \in Instructions, Within(c, i),
         i.op \in {"TSB", "TRB"}, i.mode \in Accessing
  PROVE  Twin(Rmw816(c, i), Exec(d, i))
<1> DEFINE v == Operand(d, i)
           w == IF i.op = "TSB" THEN Or(v, d.a) ELSE AndNot(v, d.a)
           f == SetFlag(c, FlagZ, And(v, d.a) = 0)
           e == SetFlag(d, FlagZ, And(v, d.a) = 0)
<1>1. v \in Byte
  BY OperandType, TwinFields
<1>2. AccBits(c) = 8 /\ ~MWide(c) /\ Acc(c) = d.a /\ i.mode \notin {"ACC", "IMM"}
  BY TwinFields DEF Accessing, Memory8
<1>3. ReadEA(c, EA(c, i), 8) = v
  BY <1>2, TwinOperand DEF Operand816
<1> HIDE DEF v
<1>4. w \in Byte
  BY <1>1, TwinFields, Fields, BooleansOfBytes
<1>5. RmwValue(c, i.op, v, 8) = w /\ RmwFlags(c, i.op, v, 8) = f
  BY <1>2 DEF RmwValue, RmwFlags
<1>6. Twin(f, e)
  BY TwinFlag
<1>7. Resolve(e, i) = Resolve(d, i)
  BY TwinFields, FlagsResolve
<1>8. Exec(d, i) = Store(e, i, w)
  <2>1. Exec(d, i) = BitWrite(d, i)
    BY Dispatch6502 DEF BitWrites
  <2> QED BY <2>1 DEF BitWrite, v
<1> HIDE DEF w, e, f
<1>9. Rmw816(c, i) = WriteEA(f, EA(c, i), 8, w)
  BY <1>2, <1>3, <1>5 DEF Rmw816
<1>10. w \in Int /\ Lo(w) = w
  BY <1>4, LoHiOfByte, Ranges
<1>11. Twin(WriteEA(f, EA(c, i), 8, w), Store(e, i, Lo(w)))
  BY <1>6, <1>7, <1>10, TwinStore
<1> QED BY <1>8, <1>9, <1>10, <1>11

-------------------------------------------------------------------------------
(* Emulation: registers, the stack, flags, branches and jumps.             *)

(* Registers, the stack, flags and branches.                               *)
LEMMA LowStep ==
  ASSUME NEW lo \in Byte, NEW hi \in Byte, NEW k \in {1, -1}
  PROVE  Lo((Pair(lo, hi) + k) % 65536) = (lo + k) % 256 /\ (Pair(lo, hi) + k) % 65536 \in Int
<1>1. lo \in Int /\ hi \in Int /\ k \in Int /\ lo + k \in Int
  BY Ranges, SMT
<1> DEFINE u == lo + 256 * hi + k
<1>2. u \in Int /\ u = (lo + k) + 256 * hi
  BY <1>1
<1> HIDE DEF u
<1>3. (u % 65536) % 256 = u % 256 /\ u % 65536 \in Int
  BY <1>2
<1> DEFINE m == lo + k
<1>4. m \in Int
  BY <1>1
<1> HIDE DEF m
<1>5. (m + 256 * hi) % 256 = m % 256
  BY <1>1, <1>4
<1>6. u % 256 = m % 256
  BY <1>2, <1>5 DEF m
<1>7. Pair(lo, hi) + k = u
  BY DEF Pair, u
<1> QED BY <1>3, <1>6, <1>7 DEF Lo, m

LEMMA TwinRegister ==
  ASSUME NEW c, NEW d, Twin(c, d), NEW i, i.op \in Transfers \cup Steps
  PROVE  Twin(Register816(c, i.op), Exec(d, i))
<1>1. /\ Lo(A16(c)) = d.a /\ Lo(X16(c)) = d.x /\ Lo(Y16(c)) = d.y /\ Lo(SP16(c)) = d.sp
      /\ A16(c) \in Int /\ X16(c) \in Int /\ Y16(c) \in Int /\ SP16(c) \in Int
  BY TwinHalves
<1>2. \A v \in Int : /\ Twin(LoadAcc(c, v), LoadA(d, Lo(v)))
                     /\ Twin(LoadIdxX(c, v), LoadX(d, Lo(v)))
                     /\ Twin(LoadIdxY(c, v), LoadY(d, Lo(v)))
  BY TwinLoads
<1>3. CASE i.op \in Steps
  <2>1. \A k \in {1, -1} :
           /\ (X16(c) + k) % 65536 \in Int /\ Lo((X16(c) + k) % 65536) = (d.x + k) % 256
           /\ (Y16(c) + k) % 65536 \in Int /\ Lo((Y16(c) + k) % 65536) = (d.y + k) % 256
    <3>1. c.x \in Byte /\ c.xh \in Byte /\ c.y \in Byte /\ c.yh \in Byte
      BY TwinFields, Fields
    <3>2. c.x = d.x /\ c.y = d.y
      BY DEF Twin
    <3> QED BY <3>1, <3>2, LowStep DEF X16, Y16
  <2>2. X16(c) - 1 = X16(c) + (-1) /\ Y16(c) - 1 = Y16(c) + (-1)
    BY <1>1
  <2>3. d.x - 1 = d.x + (-1) /\ d.y - 1 = d.y + (-1)
    BY TwinFields, Fields, Ranges, SMT
  <2>4. /\ (X16(c) - 1) % 65536 \in Int /\ Lo((X16(c) - 1) % 65536) = (d.x - 1) % 256
        /\ (Y16(c) - 1) % 65536 \in Int /\ Lo((Y16(c) - 1) % 65536) = (d.y - 1) % 256
    BY <2>1, <2>2, <2>3
  <2>5. /\ (X16(c) + 1) % 65536 \in Int /\ Lo((X16(c) + 1) % 65536) = (d.x + 1) % 256
        /\ (Y16(c) + 1) % 65536 \in Int /\ Lo((Y16(c) + 1) % 65536) = (d.y + 1) % 256
    BY <2>1
  <2>6. Exec(d, i) = StepIndex(d, i.op)
    BY <1>3, Dispatch6502
  <2>7. CASE i.op \in {"INX", "DEX"}
    <3> DEFINE v == IF i.op = "INX" THEN (X16(c) + 1) % 65536 ELSE (X16(c) - 1) % 65536
               w == IF i.op = "INX" THEN (d.x + 1) % 256 ELSE (d.x - 1) % 256
    <3>1. v \in Int /\ Lo(v) = w
      BY <2>4, <2>5
    <3>2. Register816(c, i.op) = LoadIdxX(c, v) /\ StepIndex(d, i.op) = LoadX(d, w)
      BY <2>7 DEF Register816, StepIndex
    <3> HIDE DEF v, w
    <3> QED BY <1>2, <2>6, <3>1, <3>2
  <2>8. CASE i.op \in {"INY", "DEY"}
    <3> DEFINE v == IF i.op = "INY" THEN (Y16(c) + 1) % 65536 ELSE (Y16(c) - 1) % 65536
               w == IF i.op = "INY" THEN (d.y + 1) % 256 ELSE (d.y - 1) % 256
    <3>1. v \in Int /\ Lo(v) = w
      BY <2>4, <2>5
    <3>2. Register816(c, i.op) = LoadIdxY(c, v) /\ StepIndex(d, i.op) = LoadY(d, w)
      BY <2>8 DEF Register816, StepIndex
    <3> HIDE DEF v, w
    <3> QED BY <1>2, <2>6, <3>1, <3>2
  <2> QED BY <1>3, <2>7, <2>8 DEF Steps
<1>4. CASE i.op \in Transfers \ {"TXS"}
  <2>1. Exec(d, i) = Transfer(d, i.op)
    BY <1>4, Dispatch6502
  <2>2. CASE i.op \in {"TAX", "TAY"}
    <3>1. Twin(LoadIdxX(c, A16(c)), LoadX(d, d.a)) /\ Twin(LoadIdxY(c, A16(c)), LoadY(d, d.a))
      BY <1>1, <1>2
    <3> QED BY <2>1, <2>2, <3>1 DEF Register816, Transfer
  <2>3. CASE i.op = "TSX"
    <3>1. Twin(LoadIdxX(c, SP16(c)), LoadX(d, d.sp))
      BY <1>1, <1>2
    <3> QED BY <2>1, <2>3, <3>1 DEF Register816, Transfer
  <2>4. CASE i.op \in {"TXA", "TYA"}
    <3>1. Twin(LoadAcc(c, X16(c)), LoadA(d, d.x)) /\ Twin(LoadAcc(c, Y16(c)), LoadA(d, d.y))
      BY <1>1, <1>2
    <3> QED BY <2>1, <2>4, <3>1 DEF Register816, Transfer
  <2> QED BY <1>4, <2>2, <2>3, <2>4 DEF Transfers
<1>5. CASE i.op = "TXS"
  <2> DEFINE e == [c EXCEPT !.sp = c.x]
             g == [e EXCEPT !.sph = c.xh]
  <2>1. Twin(e, [d EXCEPT !.sp = d.x])
    <3>1. c.x = d.x /\ d.x \in Byte
      BY TwinFields, Fields DEF Twin
    <3> QED BY <3>1, TwinAssigning
  <2>2. e \in Processor /\ e.e
    BY <2>1 DEF Twin
  <2> HIDE DEF e
  <2>3. g.e
    BY <2>2 DEF Processor, Processors
  <2>4. Reforced(g) = [g EXCEPT !.sph = 1]
    BY <2>3 DEF Reforced
  <2>5. [g EXCEPT !.sph = 1] = [e EXCEPT !.sph = 1]
    BY <2>2 DEF Processor, Processors
  <2>6. Twin([e EXCEPT !.sph = 1], [d EXCEPT !.sp = d.x])
    BY <2>1, TwinBanks
  <2>7. Register816(c, "TXS") = Reforced(g)
    BY DEF Register816, e
  <2>8. Exec(d, i) = [d EXCEPT !.sp = d.x]
    <3>1. Exec(d, i) = Transfer(d, i.op)
      BY <1>5, Dispatch6502 DEF Transfers
    <3> QED BY <1>5, <3>1 DEF Transfer
  <2> QED BY <1>5, <2>4, <2>5, <2>6, <2>7, <2>8
<1> QED BY <1>3, <1>4, <1>5 DEF Transfers, Steps

LEMMA TwinFlagOp ==
  ASSUME NEW c, NEW d, Twin(c, d), NEW op \in FlagOps
  PROVE  Twin(FlagOp(c, op), FlagOp(d, op))
  BY TwinFlag DEF FlagOp, FlagOps

LEMMA TwinIdle ==
  ASSUME NEW c, NEW d, Twin(c, d), NEW op \in Idles
  PROVE  Twin(Idle(c, op), Idle(d, op))
<1>1. Twin([c EXCEPT !.halted = TRUE], [d EXCEPT !.halted = TRUE])
  BY TwinAssigning
<1>2. Twin([[c EXCEPT !.halted = TRUE] EXCEPT !.stoppedBySTP = TRUE],
           [[d EXCEPT !.halted = TRUE] EXCEPT !.stoppedBySTP = TRUE])
  BY <1>1, TwinAssigning
<1>3. CASE op = "NOP"
  BY <1>3 DEF Idle
<1>4. CASE op = "WAI"
  BY <1>1, <1>4 DEF Idle
<1>5. CASE op = "STP"
  BY <1>2, <1>5 DEF Idle
<1> QED BY <1>3, <1>4, <1>5 DEF Idles

LEMMA TwinBranch ==
  ASSUME NEW c, NEW d, Twin(c, d), NEW i \in Instructions, i.op \in Branches, i.mode = "REL"
  PROVE  Twin(Branch816(c, i), Exec(d, i))
<1>1. Taken(c, i.op) <=> Taken(d, i.op)
  BY TwinFields DEF Taken, Branches
<1> DEFINE t == (d.pc + Signed(i.arg, 8)) % 65536
<1>2. t \in Word /\ c.pc = d.pc
  <2>1. Resolve(d, i) \in Word /\ Resolve(d, i) = t
    BY TwinFields, Resolved DEF Resolving, Resolve
  <2> QED BY <2>1 DEF Twin
<1> HIDE DEF t
<1>3. Twin([c EXCEPT !.pc = t], [d EXCEPT !.pc = t])
  BY <1>2, TwinAssigning
<1>4. Exec(d, i) = IF Taken(d, i.op) THEN [d EXCEPT !.pc = t] ELSE d
  <2>1. Exec(d, i) = Branch(d, i)
    BY Dispatch6502
  <2> QED BY <2>1 DEF Branch, Resolve, t
<1>5. Branch816(c, i) = IF Taken(c, i.op) THEN [c EXCEPT !.pc = t] ELSE c
  BY <1>2 DEF Branch816, Branches, t
<1> QED BY <1>1, <1>3, <1>4, <1>5

(* The status as it is pushed and pulled.                                  *)
LEMMA TwinPulledP ==
  ASSUME NEW c, NEW d, Twin(c, d)
  PROVE  Twin(Plp816(c), [Popped(d, 1) EXCEPT !.p = PulledP(Top(d, 1))])
<1> DEFINE e == SpMoved(c, 1)
           f == Popped(d, 1)
           v == Top(d, 1)
           q == Bits(v) \cup {FlagM, FlagX}
           g == [e EXCEPT !.p = Bits(v)]
           h == [f EXCEPT !.p = PulledP(v)]
           k == [e EXCEPT !.p = q]
<1>1. Twin(e, f) /\ SpTop(c, 1) = v
  BY TwinStack
<1>2. v \in Byte
  BY <1>1, TwinFields, StackMoves
<1> HIDE DEF e, f, v
<1>3. Bits(v) \in SUBSET Flags /\ q \in SUBSET Flags /\ PulledP(v) \in SUBSET Flags
      /\ q = PulledP(v) \cup {FlagM, FlagX}
  BY <1>2, BitsOfByte, FlagValues DEF PulledP
<1>4. Twin(k, h)
  BY <1>1, <1>3, TwinStatus
<1>5. e \in Processor /\ e.e
  BY <1>1 DEF Twin
<1>6. g.p = Bits(v) /\ g.e
  BY <1>5 DEF Processor, Processors
<1>7. Truncated(g) = [[[g EXCEPT !.p = q] EXCEPT !.xh = 0] EXCEPT !.yh = 0]
  BY <1>6 DEF Truncated
<1>8. [g EXCEPT !.p = q] = k
  BY <1>5 DEF Processor, Processors
<1> HIDE DEF q, g, h, k
<1>9. 0 \in Byte
  BY Ranges, SMT
<1>10. Twin([k EXCEPT !.xh = 0], h)
  BY <1>4, <1>9, TwinBanks
<1>11. Twin([[k EXCEPT !.xh = 0] EXCEPT !.yh = 0], h)
  BY <1>9, <1>10, TwinBanks
<1> QED BY <1>1, <1>7, <1>8, <1>11 DEF Plp816, e, f, v, g, h

LEMMA TwinPushedP ==
  ASSUME NEW c, NEW d, Twin(c, d)
  PROVE  c.p = d.p \cup {FlagB, FlagU} /\ c.p \cup {FlagB} = c.p /\ Num(c.p) = PushedP(d)
         /\ PushedP(d) \in Byte
<1>1. c.p = d.p \cup {FlagB, FlagU} /\ c.p \cup {FlagB} = c.p
  BY FlagValues DEF Twin
<1> QED BY <1>1, StatusBytes, TwinFields DEF PushedP

(* The stack instructions.                                                 *)
LEMMA TwinStackOp ==
  ASSUME NEW c, NEW d, Twin(c, d), NEW i, i.op \in StackOps
  PROVE  Twin(StackOp816(c, i.op), Exec(d, i))
<1>0. Exec(d, i) = StackOp(d, i.op)
  BY Dispatch6502
<1>1. AccBits(c) = 8 /\ IdxBits(c) = 8 /\ 8 \div 8 = 1
  BY TwinFields, SMT
<1>2. Lo(A16(c)) = d.a /\ Lo(X16(c)) = d.x /\ Lo(Y16(c)) = d.y
  BY TwinHalves
<1>3. \A v \in Byte : Twin(SpPush8(c, v), Push(d, v))
  BY TwinPush
<1>4. d.a \in Byte /\ d.x \in Byte /\ d.y \in Byte
  BY TwinFields, Fields
<1>5. CASE i.op \in {"PHA", "PHX", "PHY"}
  <2>1. /\ Twin(SpPush8(c, d.a), Push(d, d.a)) /\ Twin(SpPush8(c, d.x), Push(d, d.x))
        /\ Twin(SpPush8(c, d.y), Push(d, d.y))
    BY <1>3, <1>4
  <2>2. StackOp816(c, i.op) = IF i.op = "PHA" THEN SpPush8(c, d.a)
                              ELSE IF i.op = "PHX" THEN SpPush8(c, d.x) ELSE SpPush8(c, d.y)
    BY <1>1, <1>2, <1>5 DEF StackOp816, PushWide
  <2>3. StackOp(d, i.op) = IF i.op = "PHA" THEN Push(d, d.a)
                           ELSE IF i.op = "PHX" THEN Push(d, d.x) ELSE Push(d, d.y)
    BY <1>5 DEF StackOp
  <2> QED BY <1>0, <1>5, <2>1, <2>2, <2>3
<1>6. CASE i.op = "PHP"
  <2>1. Twin(SpPush8(c, Num(c.p)), Push(d, PushedP(d)))
    BY <1>3, TwinPushedP
  <2> QED BY <1>0, <1>6, <2>1 DEF StackOp816, StackOp
<1>7. CASE i.op \in {"PLA", "PLX", "PLY"}
  <2> DEFINE e == SpMoved(c, 1)
             f == Popped(d, 1)
             v == Top(d, 1)
  <2>1. Twin(e, f) /\ SpTop(c, 1) = v /\ v \in Byte
    BY TwinStack, TwinFields, StackMoves
  <2>2. StackOp816(c, i.op) = IF i.op = "PLA" THEN LoadAcc(e, v)
                              ELSE IF i.op = "PLX" THEN LoadIdxX(e, v) ELSE LoadIdxY(e, v)
    BY <1>1, <1>7, <2>1 DEF StackOp816, SpPulled, PulledWide
  <2>3. StackOp(d, i.op) = IF i.op = "PLA" THEN LoadA(f, v)
                           ELSE IF i.op = "PLX" THEN LoadX(f, v) ELSE LoadY(f, v)
    BY <1>7 DEF StackOp
  <2> HIDE DEF e, f, v
  <2>4. Twin(LoadAcc(e, v), LoadA(f, v)) /\ Twin(LoadIdxX(e, v), LoadX(f, v))
        /\ Twin(LoadIdxY(e, v), LoadY(f, v))
    BY <2>1, TwinByteLoads
  <2> QED BY <1>0, <1>7, <2>2, <2>3, <2>4
<1>8. CASE i.op = "PLP"
  BY <1>0, <1>8, TwinPulledP DEF StackOp816, StackOp
<1> QED BY <1>5, <1>6, <1>7, <1>8 DEF StackOps

(* BRK: the frame and the vector.                                          *)
LEMMA TwinBrk ==
  ASSUME NEW c, NEW d, Twin(c, d)
  PROVE  Twin(Brk816(c), Brk(d))
<1> DEFINE n == (d.pc + 1) % 65536
           s == PushedP(d)
           e == SpPush8(SpPush16(c, n), Num(c.p \cup {FlagB}))
           f == Push(Push16(d, n), s)
           w == Vector(f, VecIRQ)
           u == Vector(e, 65534)
<1>1. n \in Int /\ c.pc = d.pc
  <2>1. d.pc + 1 \in Int
    BY TwinFields, Fields, Ranges, SMT
  <2> QED BY <2>1, Wraps, Ranges DEF Twin
<1>2. s \in Byte /\ Num(c.p \cup {FlagB}) = s
  BY TwinPushedP
<1> HIDE DEF n, s
<1>3. Twin(SpPush16(c, n), Push16(d, n))
  BY <1>1, TwinPush16
<1>4. Twin(e, f)
  BY <1>2, <1>3, TwinPush
<1>5. f.p = d.p
  <2>1. ASSUME NEW k \in Processor, NEW v \in Byte
        PROVE  Push(k, v).p = k.p /\ Push(k, v) \in Processor
    <3> DEFINE l == Write(k, 256 + k.sp, v)
    <3>1. Push(k, v) \in Processor
      BY <2>1, Pushing DEF Typed
    <3>2. l.p = k.p
      BY WriteFrame
    <3>3. l \in Processor
      <4>1. 256 + k.sp \in Address
        BY Fields, Ranges, SMT
      <4> QED BY <4>1, Writing, CalmIsTyped
    <3> HIDE DEF l
    <3>4. Push(k, v) = [l EXCEPT !.sp = (l.sp + (-1)) % 256]
      BY <3>3, StackMoves DEF Push, l
    <3>5. [l EXCEPT !.sp = (l.sp + (-1)) % 256].p = l.p
      BY <3>3 DEF Processor, Processors
    <3> QED BY <3>1, <3>2, <3>4, <3>5
  <2>2. Lo(n) \in Byte /\ Hi(n) \in Byte
    BY <1>1, LoHiType
  <2>3. Push(d, Hi(n)).p = d.p /\ Push(d, Hi(n)) \in Processor
    BY <2>1, <2>2, TwinFields
  <2>4. Push16(d, n).p = d.p /\ Push16(d, n) \in Processor
    BY <2>1, <2>2, <2>3 DEF Push16
  <2> QED BY <1>2, <2>1, <2>4
<1>6. u = w /\ w \in Word
  <2>1. Vector(e, 65534) = Vector(f, 65534)
    BY <1>4, TwinFields DEF Vector
  <2>2. Vector(f, 65534) \in Word
    <3>1. 65534 \in Address /\ 65534 + 1 \in Address
      BY Ranges, SMT
    <3> QED BY <1>4, <3>1, TwinFields, ReadType, PairType DEF Vector
  <2> QED BY <2>1, <2>2 DEF VecIRQ
<1> HIDE DEF e, f, w, u
<1> DEFINE q == (e.p \cup {FlagI}) \ {FlagD}
           r == (f.p \cup {FlagI}) \ {FlagD}
           e1 == [e EXCEPT !.pbr = 0]
           e2 == [e1 EXCEPT !.p = q]
           f2 == [f EXCEPT !.p = r]
<1>7. q \in SUBSET Flags /\ r \in SUBSET Flags /\ q = r \cup {FlagM, FlagX}
  BY <1>4, TwinFields, Fields, FlagValues DEF Twin
<1>8. Twin(e1, f) /\ e1.p = e.p
  <2>1. Twin(e1, f)
    BY <1>4, TwinBanks
  <2>2. e \in Processor
    BY <1>4, TwinFields
  <2> HIDE DEF q, r
  <2>3. e1.p = e.p
    BY <2>2 DEF Processor, Processors
  <2> QED BY <2>1, <2>3
<1>9. Entered(c, n, c.p \cup {FlagB}, 65534, 65510) = [e2 EXCEPT !.pc = w]
  <2>1. c.e
    BY DEF Twin
  <2>2. Entered(c, n, c.p \cup {FlagB}, 65534, 65510)
          = [e EXCEPT !.pbr = 0, !.p = q, !.pc = u]
    BY <2>1 DEF Entered, e, u
  <2> HIDE DEF q
  <2>3. [e EXCEPT !.pbr = 0, !.p = q, !.pc = u] = [e2 EXCEPT !.pc = u]
    OBVIOUS
  <2> HIDE DEF e2, e1, f2, r
  <2> QED BY <1>6, <2>2, <2>3
<1>10. Brk(d) = [f2 EXCEPT !.pc = w]
  <2>1. On(FlagD, CMOS(d)) = {FlagD}
    BY TwinFields DEF On
  <2>2. Brk(d) = [f EXCEPT !.p = (d.p \cup {FlagI}) \ On(FlagD, CMOS(d)), !.pc = w]
    BY DEF Brk, f, w, s, n
  <2>3. (d.p \cup {FlagI}) \ On(FlagD, CMOS(d)) = r
    BY <1>5, <2>1
  <2> HIDE DEF r
  <2> QED BY <2>2, <2>3
<1>11. Brk816(c) = [e2 EXCEPT !.pc = w]
  <2>1. c.e
    BY DEF Twin
  <2> QED BY <1>1, <1>9, <2>1 DEF Brk816, n
<1> HIDE DEF q, r, e1
<1>12. Twin(e2, f2)
  BY <1>7, <1>8, TwinStatus
<1> HIDE DEF e2, f2
<1>13. Twin([e2 EXCEPT !.pc = w], [f2 EXCEPT !.pc = w])
  BY <1>6, <1>12, TwinAssigning
<1> QED BY <1>10, <1>11, <1>13

(* Jumps.                                                                  *)
LEMMA TwinGoing ==
  ASSUME NEW c, NEW d, Twin(c, d), NEW i \in Instructions,
         <<i.op, i.mode>> \in {<<"JMP", "ABS">>, <<"JMP", "IND">>, <<"JMP", "IAX">>}
  PROVE  Twin(Jump816(c, i), Exec(d, i))
<1> DEFINE t == Resolve(d, i)
<1>1. i.op = "JMP" /\ i.mode \in {"ABS", "IND", "IAX"} /\ i.mode \in Resolving
  BY DEF Resolving
<1>2. t \in Word
  BY <1>1, TwinFields, Resolved
<1>3. Exec(d, i) = [d EXCEPT !.pc = t]
  <2>1. Exec(d, i) = Jump(d, i)
    BY <1>1, Dispatch6502 DEF Jumps
  <2> QED BY <1>1, <2>1 DEF Jump
<1>4. i.arg \in Word /\ i.arg \in Int /\ i.arg + 0 = i.arg /\ i.arg % 65536 = i.arg
  <2>1. i.arg \in Word
    BY <1>1 DEF Instructions, Operands
  <2> QED BY <2>1, Ranges, Wrapped, SMT
<1>5. Jump816(c, i) = [c EXCEPT !.pc = t]
  <2>1. CASE i.mode = "ABS"
    BY <1>1, <2>1 DEF Jump816, Resolve
  <2>2. CASE i.mode = "IND"
    <3>1. DpWord(c, i.arg) = JumpPointer(d, i.arg)
      BY <1>4, TwinFields DEF DpWord, DpByte, JumpPointer
    <3> QED BY <1>1, <2>2, <3>1 DEF Jump816, Resolve
  <2>3. CASE i.mode = "IAX"
    <3> DEFINE a == i.arg + d.x
               p == a % 65536
               q == (a + 1) % 65536
    <3>1. a \in Int
      BY <1>4, TwinFields, Fields, Ranges, SMT
    <3> HIDE DEF a
    <3>2. (p + 1) % 65536 = q /\ p \in Int /\ q \in Int
      BY <3>1
    <3>3. At(c.pbr, p) = p /\ At(c.pbr, q) = q
      <4>1. c.pbr = 0
        BY DEF Twin
      <4> HIDE DEF p, q
      <4> QED BY <3>2, <4>1 DEF At
    <3>4. ProgramPointer(c, a) = Pair(Read(c, p), Read(c, q))
      BY <3>3 DEF ProgramPointer
    <3>5. t = Pair(Read(d, p), Read(d, q))
      BY <2>3, <3>2 DEF Resolve, a
    <3>6. Jump816(c, i) = [c EXCEPT !.pc = ProgramPointer(c, a)]
      BY <1>1, <2>3, TwinFields DEF Jump816, a
    <3> QED BY <3>4, <3>5, <3>6, TwinFields
  <2> QED BY <1>1, <2>1, <2>2, <2>3
<1> HIDE DEF t
<1> QED BY <1>2, <1>3, <1>5, TwinAssigning

LEMMA TwinJsr ==
  ASSUME NEW c, NEW d, Twin(c, d), NEW i \in Instructions, i.op = "JSR", i.mode = "JSRABS",
         (d.pc - 1) % 65536 \notin {256 + d.sp, 256 + ((d.sp - 1) % 256)}
  PROVE  Twin(Jump816(c, i), Exec(d, i))
<1> DEFINE n == (d.pc - 1) % 65536
           e == SpPush16(c, n)
           f == Push16(d, n)
<1>1. n \in Int /\ c.pc = d.pc
  <2>1. d.pc - 1 \in Int
    BY TwinFields, Fields, Ranges, SMT
  <2> QED BY <2>1, Wraps, Ranges DEF Twin
<1>2. i.arg \in Word /\ Pair(Lo(i.arg), Hi(i.arg)) = i.arg
  <2>1. i.arg \in Word
    BY DEF Instructions, Operands
  <2> QED BY <2>1, PairOfHalves
<1>3. Exec(d, i) = [f EXCEPT !.pc = i.arg]
  <2>1. Exec(d, i) = Jump(d, i)
    BY Dispatch6502 DEF Jumps
  <2>2. Jump(d, i) = Jsr(d, i)
    BY DEF Jump
  <2> QED BY <1>2, <2>1, <2>2 DEF Jsr
<1>4. Jump816(c, i) = [e EXCEPT !.pc = i.arg]
  BY <1>1 DEF Jump816
<1> HIDE DEF n
<1>5. Twin(e, f)
  BY <1>1, TwinPush16
<1> HIDE DEF e, f
<1> QED BY <1>2, <1>3, <1>4, <1>5, TwinAssigning

(* Returns.                                                                *)
LEMMA TwinRts ==
  ASSUME NEW c, NEW d, Twin(c, d), NEW i, i.op = "RTS"
  PROVE  Twin(Jump816(c, i), Exec(d, i))
<1> DEFINE n == (Top16(d, 1) + 1) % 65536
<1>1. n \in Word
  <2>1. Top16(d, 1) \in Word
    BY TwinFields, StackMoves
  <2>2. Top16(d, 1) + 1 \in Int
    BY <2>1, Ranges, SMT
  <2> QED BY <2>2, Wraps
<1>2. Twin(SpMoved(c, 2), Popped(d, 2)) /\ SpTop16(c, 1) = Top16(d, 1)
  BY TwinStack
<1>3. Jump816(c, i) = [SpMoved(c, 2) EXCEPT !.pc = n]
  BY <1>2 DEF Jump816
<1>4. Exec(d, i) = [Popped(d, 2) EXCEPT !.pc = n]
  <2>1. Exec(d, i) = Jump(d, i)
    BY Dispatch6502 DEF Jumps
  <2> QED BY <2>1 DEF Jump
<1> HIDE DEF n
<1> QED BY <1>1, <1>2, <1>3, <1>4, TwinAssigning

LEMMA TwinRti ==
  ASSUME NEW c, NEW d, Twin(c, d), NEW i, i.op = "RTI"
  PROVE  Twin(Jump816(c, i), Exec(d, i))
<1> DEFINE q == PulledP(Top(d, 1))
           n == Top16(d, 2)
           f == [Popped(d, 1) EXCEPT !.p = q]
           e == Plp816(c)
           s == (d.sp + 1) % 256
<1>1. Twin(e, f)
  BY TwinPulledP
<1>2. Popped(d, 1) = [d EXCEPT !.sp = s] /\ Popped(d, 3) = [d EXCEPT !.sp = (d.sp + 3) % 256]
  BY TwinFields, StackMoves DEF Popped
<1>3. s \in Byte /\ d.sp \in Int
  <2>1. d.sp + 1 \in Int
    BY TwinFields, Fields, Ranges, SMT
  <2> QED BY <2>1, TwinFields, Fields, Ranges, Wraps
<1>4. (s + 1) % 256 = (d.sp + 2) % 256 /\ (s + (1 + 1)) % 256 = (d.sp + (2 + 1)) % 256
      /\ (s + 2) % 256 = (d.sp + 3) % 256
  BY <1>3
<1> HIDE DEF q, n, s
<1>5. f.sp = s /\ f.mem = d.mem /\ f \in Processor
  BY <1>1, <1>2, TwinFields DEF Processor, Processors
<1> HIDE DEF f
<1>6. Top16(f, 1) = n
  <2>1. Top(f, 1) = Top(d, 2) /\ Top(f, 1 + 1) = Top(d, 2 + 1)
    BY <1>4, <1>5, ReadsStay DEF Top
  <2> QED BY <2>1 DEF Top16, n
<1>7. Popped(f, 2) = [f EXCEPT !.sp = (d.sp + 3) % 256]
  BY <1>4, <1>5, StackMoves DEF Popped
<1> DEFINE g == Popped(f, 2)
           h == SpMoved(e, 2)
<1>8. Twin(h, g) /\ SpTop16(e, 1) = n /\ n \in Word
  <2>1. Twin(h, g) /\ SpTop16(e, 1) = Top16(f, 1)
    BY <1>1, TwinStack
  <2> QED BY <1>5, <1>6, <2>1, StackMoves
<1>9. Jump816(c, i) = [h EXCEPT !.pc = n]
  <2>1. Jump816(c, i) = Rti816(c)
    BY DEF Jump816
  <2>2. h.e /\ h \in Processor
    BY <1>8 DEF Twin
  <2> HIDE DEF h
  <2>3. [h EXCEPT !.pc = n].e
    BY <2>2 DEF Processor, Processors
  <2> QED BY <1>8, <2>1, <2>3 DEF Rti816, h, e
<1>10. Exec(d, i) = [g EXCEPT !.pc = n]
  <2>1. Exec(d, i) = Jump(d, i)
    BY Dispatch6502 DEF Jumps
  <2>2. Jump(d, i) = [Popped(d, 3) EXCEPT !.p = q, !.pc = n]
    BY DEF Jump, q, n
  <2> DEFINE w == (d.sp + 3) % 256
  <2>3. /\ g = [[[d EXCEPT !.sp = s] EXCEPT !.p = q] EXCEPT !.sp = w]
        /\ Popped(d, 3) = [d EXCEPT !.sp = w]
    BY <1>2, <1>7 DEF f
  <2> HIDE DEF w, g
  <2>4. [[[d EXCEPT !.sp = s] EXCEPT !.p = q] EXCEPT !.sp = w]
          = [[d EXCEPT !.sp = w] EXCEPT !.p = q]
    BY TwinFields DEF Processor, Processors
  <2>5. [[d EXCEPT !.sp = w] EXCEPT !.p = q, !.pc = n]
          = [[[d EXCEPT !.sp = w] EXCEPT !.p = q] EXCEPT !.pc = n]
    OBVIOUS
  <2> QED BY <2>1, <2>2, <2>3, <2>4, <2>5
<1> HIDE DEF g, h
<1> QED BY <1>8, <1>9, <1>10, TwinAssigning

-------------------------------------------------------------------------------
(* Emulation: an instruction of both, and a step of it.                    *)

(* The instructions the two have in common, and their modes.               *)
Twins == Opcodes816 \cap Opcodes("65C02")

TwinModes == {"IMP", "ACC", "IMM", "REL", "IND", "IAX", "JSRABS"} \cup Accessing

(* The tables of the two give a shared instruction the modes TwinModes.    *)
LEMMA TwinOpcodes ==
  ASSUME NEW op, NEW mode, <<op, mode>> \in Twins
  PROVE  /\ op \in AccReads \cup IdxReads => mode \in Accessing \cup {"IMM"}
         /\ op \in Stores \cup {"TSB", "TRB"} => mode \in Accessing
         /\ op \in ReadModifyWrites => mode \in Accessing \cup {"ACC"}
         /\ op \in Branches => mode = "REL"
         /\ op = "JMP" => mode \in {"ABS", "IND", "IAX"}
         /\ op = "JSR" => mode = "JSRABS"
         /\ op \in AccReads \cup IdxReads \cup Stores \cup Rmws \cup Transfers \cup Steps
              \cup FlagOps \cup StackOps \cup Branches \cup Idles
              \cup {"JMP", "JSR", "RTS", "RTI", "BRK"}
         /\ mode \in TwinModes
<1>1. /\ op \in AccReads \cup IdxReads \cup Stores \cup Rmws \cup Registers816 \cup FlagOps
            \cup ModeControls \cup Stack816 \cup NewStack \cup Jumps816 \cup Branches
            \cup {"BRL", "BRK", "COP"} \cup BlockMoves \cup Idles816
      /\ <<op, mode>> \in Opcodes("65C02")
      /\ op \in Jumps816 => <<op, mode>> \in JumpModes
  BY OpcodeOps816, OpcodeModes816 DEF Twins
<1>2. op \in Accessors \cup Changers \cup Immediates \cup Branches \cup BitBranches
           \cup Jumps \cup Transfers \cup StackOps \cup Steps \cup FlagOps \cup Idles
  BY <1>1, OpcodeOps
<1>3. /\ op \in Accessors => mode \in Accessing \cup {"IMM"}
      /\ op \in Changers => mode \in Accessing \cup {"ACC"}
      /\ op \in Changers \ ReadModifyWrites => mode \in Accessing
      /\ op \in Branches => mode = "REL"
  BY <1>1, OpcodeModes
<1>4. /\ op = "JSR" => mode = "JSRABS" 
      /\ op = "JMP" => mode \in {"ABS", "IND", "IAX"}
  BY <1>1 DEF Opcodes, Official, OfCMOS, CmosNOPs, BitBranches, Branches, Transfers, Steps,
     FlagOps
<1>5. /\ AccReads \cup IdxReads \subseteq Accessors
      /\ Stores \cup {"TSB", "TRB"} \subseteq Changers \ ReadModifyWrites
      /\ ReadModifyWrites \subseteq Changers
  BY DEF AccReads, IdxReads, Accessors, Loads, Logics, Compares, Stores, Changers,
     ReadModifyWrites, BitWrites
<1>6. op \in AccReads \cup IdxReads \cup Stores \cup Rmws \cup Transfers \cup Steps
              \cup FlagOps \cup StackOps \cup Branches \cup Idles
              \cup {"JMP", "JSR", "RTS", "RTI", "BRK"}
  BY <1>1, <1>2 DEF AccReads, IdxReads, Stores, Rmws, ReadModifyWrites, Registers816, FlagOps,
     ModeControls, Stack816, NewStack, Jumps816, Branches, BlockMoves, Idles816, Accessors,
     Changers, Immediates, BitBranches, Jumps, Transfers, StackOps, Steps, Idles, Loads,
     Logics, Compares, BitWrites, Combined, Unstable
<1>7. mode \in TwinModes
  <2>1. CASE <<op, mode>> \in Official
    BY <2>1 DEF Official, TwinModes, Accessing, Memory8
  <2>2. CASE <<op, mode>> \in OfCMOS \cup CmosNOPs
    <3>1. op \notin BitBranches
      BY <1>6 DEF AccReads, IdxReads, Stores, Rmws, ReadModifyWrites, Transfers, Steps, FlagOps,
         StackOps, Branches, Idles, BitBranches
    <3> QED BY <2>2, <3>1 DEF OfCMOS, CmosNOPs, TwinModes, Accessing, Memory8
  <2> QED BY <1>1, <2>1, <2>2 DEF Opcodes
<1> QED BY <1>3, <1>4, <1>5, <1>6, <1>7

(* Every instruction they have in common does to both the same.            *)
LEMMA TwinExec ==
  ASSUME NEW c, NEW d, Twin(c, d), NEW i \in Instructions, <<i.op, i.mode>> \in Twins,
         Within(c, i),
         i.op = "JSR" => (d.pc - 1) % 65536 \notin {256 + d.sp, 256 + ((d.sp - 1) % 256)}
  PROVE  Twin(Exec816(c, i), Exec(d, i))
<1>1. CASE i.op \in AccReads
  BY <1>1, TwinOpcodes, TwinAccRead, Dispatch816
<1>2. CASE i.op \in IdxReads
  BY <1>2, TwinOpcodes, TwinIdxRead, Dispatch816
<1>3. CASE i.op \in Stores
  BY <1>3, TwinOpcodes, TwinWrites, Dispatch816
<1>4. CASE i.op \in ReadModifyWrites
  BY <1>4, TwinOpcodes, TwinRmw, Dispatch816 DEF Rmws
<1>5. CASE i.op \in {"TSB", "TRB"}
  BY <1>5, TwinOpcodes, TwinBitWrite, Dispatch816 DEF Rmws
<1>6. CASE i.op \in Transfers \cup Steps
  <2>1. i.op \in Registers816
    BY <1>6 DEF Transfers, Steps, Registers816
  <2> QED BY <1>6, <2>1, TwinRegister, Dispatch816
<1>7. CASE i.op \in FlagOps
  BY <1>7, TwinFlagOp, Dispatch816, Dispatch6502
<1>8. CASE i.op \in StackOps
  <2>1. i.op \in Stack816
    BY <1>8 DEF StackOps, Stack816
  <2> QED BY <1>8, <2>1, TwinStackOp, Dispatch816
<1>9. CASE i.op \in Branches
  BY <1>9, TwinOpcodes, TwinBranch, Dispatch816
<1>10. CASE i.op \in Idles
  <2>1. i.op \in Idles816 /\ i.op # "WDM"
    BY <1>10 DEF Idles, Idles816
  <2>2. Exec816(c, i) = Idle(c, i.op) /\ Exec(d, i) = Idle(d, i.op)
    BY <1>10, <2>1, Dispatch816, Dispatch6502 DEF Idle816
  <2> QED BY <1>10, <2>2, TwinIdle
<1>11. CASE i.op \in {"JMP", "JSR", "RTS", "RTI"}
  <2>1. Exec816(c, i) = Jump816(c, i)
    BY <1>11, Dispatch816 DEF Jumps816
  <2>2. CASE i.op = "JMP"
    BY <2>1, <2>2, TwinOpcodes, TwinGoing
  <2>3. CASE i.op = "JSR"
    BY <2>1, <2>3, TwinOpcodes, TwinJsr
  <2>4. CASE i.op \in {"RTS", "RTI"}
    BY <2>1, <2>4, TwinRts, TwinRti
  <2> QED BY <1>11, <2>2, <2>3, <2>4
<1>12. CASE i.op = "BRK"
  <2>1. Exec(d, i) = Brk(d)
    <3>1. Exec(d, i) = Jump(d, i)
      BY <1>12, Dispatch6502 DEF Jumps
    <3> QED BY <1>12, <3>1 DEF Jump
  <2> QED BY <1>12, <2>1, TwinBrk, Dispatch816
<1> QED BY <1>1, <1>2, <1>3, <1>4, <1>5, <1>6, <1>7, <1>8, <1>9, <1>10, <1>11, <1>12,
           TwinOpcodes DEF Rmws

(* An instruction is as long on both.                                      *)
LEMMA TwinBytes ==
  ASSUME NEW c, NEW d, Twin(c, d), NEW i, <<i.op, i.mode>> \in Twins
  PROVE  OperandBytes816(c, i) = OperandBytes(i.mode) /\ OperandBytes(i.mode) \in {0, 1, 2}
         /\ (i.op = "JSR" => OperandBytes(i.mode) = 2)
<1>1. i.mode \in TwinModes /\ (i.op = "JSR" => i.mode = "JSRABS")
  BY TwinOpcodes
<1>2. AccBits(c) \div 8 = 1 /\ IdxBits(c) \div 8 = 1
  BY TwinFields, SMT
<1>3. CASE i.mode \in {"IMP", "ACC"}
  BY <1>1, <1>3 DEF OperandBytes816, OperandBytes
<1>4. CASE i.mode \in {"ABS", "ABX", "ABY", "IND", "IAX", "JSRABS"}
  <2>1. i.mode \notin {"IMP", "ACC"} /\ i.mode \notin {"LONG", "LONGX"} /\ i.mode # "IMM"
    BY <1>4
  <2>2. OperandBytes816(c, i) = 2
    BY <1>4, <2>1 DEF OperandBytes816
  <2>3. OperandBytes(i.mode) = 2
    BY <1>4, <2>1 DEF OperandBytes
  <2> QED BY <2>2, <2>3
<1>5. CASE i.mode \in {"IMM", "REL", "ZP", "ZPX", "ZPY", "IZX", "IZY", "IZP"}
  <2>1. /\ i.mode \notin {"IMP", "ACC"} /\ i.mode \notin {"LONG", "LONGX"}
        /\ i.mode \notin {"ABS", "ABX", "ABY", "IND", "IAX", "IAL", "JSRABS", "RELL", "BLOCK"}
        /\ i.mode \notin {"ABS", "ABX", "ABY", "IND", "IAX", "JSRABS", "ZPR"}
        /\ i.mode # "JSRABS"
    BY <1>5
  <2>2. OperandBytes816(c, i) = 1
    BY <1>2, <2>1 DEF OperandBytes816
  <2>3. OperandBytes(i.mode) = 1
    BY <2>1 DEF OperandBytes
  <2> QED BY <1>1, <2>1, <2>2, <2>3
<1> QED BY <1>1, <1>3, <1>4, <1>5 DEF TwinModes, Accessing, Memory8

(* A step of a shared instruction.                                         *)
LEMMA TwinWithin ==
  ASSUME NEW c, NEW d, NEW i, d.x = c.x, d.y = c.y, d.mem = c.mem, Within(c, i)
  PROVE  Within(d, i)
<1>1. \A z : ZpPointer(d, z) = ZpPointer(c, z)
  BY ReadsStay DEF ZpPointer
<1> QED BY <1>1 DEF Within, LeavesPage, LeavesBank

LEMMA TwinStep ==
  ASSUME NEW c, NEW d, Twin(c, d), NEW i \in Instructions, <<i.op, i.mode>> \in Twins,
         Within(c, i), ~PushesOntoItself(c, i)
  PROVE  Twin(Step816(c, i), Step6502(d, i))
<1> DEFINE n == OperandBytes(i.mode)
           pc == (c.pc + 1 + n) % 65536
           e == [c EXCEPT !.pc = pc]
           f == [d EXCEPT !.pc = pc]
           k == Exec816(e, i)
           l == Exec(f, i)
           h == k.halted \/ k.pc = c.pc
<1>1. /\ OperandBytes816(c, i) = n /\ n \in {0, 1, 2} /\ d.pc = c.pc /\ c.pc \in Int
      /\ i.op = "JSR" => n = 2
  BY TwinBytes, TwinFields, Fields, Ranges DEF Twin
<1> HIDE DEF n
<1>2. pc \in Word
  <2>1. c.pc + 1 + n \in Int
    BY <1>1
  <2> QED BY <2>1, Wraps
<1>3. i.op = "JSR" => (pc - 1) % 65536 \notin {256 + d.sp, 256 + ((d.sp - 1) % 256)}
  <2>1. i.op = "JSR" => (pc - 1) % 65536 = (c.pc + 2) % 65536
    BY <1>1
  <2>2. c.sp = d.sp
    BY DEF Twin
  <2> QED BY <2>1, <2>2 DEF PushesOntoItself
<1> HIDE DEF pc
<1>4. Twin(e, f)
  BY <1>2, TwinAssigning
<1>5. e.x = c.x /\ e.y = c.y /\ e.mem = c.mem /\ f.pc = pc /\ f.sp = d.sp
  BY TwinFields DEF Processor, Processors
<1> HIDE DEF e, f
<1>6. Within(e, i)
  BY <1>5, TwinWithin
<1>7. Twin(k, l)
  BY <1>3, <1>4, <1>5, <1>6, TwinExec
<1> HIDE DEF k, l
<1>8. h \in BOOLEAN /\ h = (l.halted \/ l.pc = d.pc) /\ d.variant # "NES"
  BY <1>1, <1>7, Fields DEF Twin
<1> HIDE DEF h
<1>9. Twin([k EXCEPT !.halted = h], [l EXCEPT !.halted = h])
  BY <1>7, <1>8, TwinAssigning
<1>10. Step816(c, i) = [k EXCEPT !.halted = h]
  BY <1>1 DEF Step816, k, e, h, pc
<1>11. Step6502(d, i) = [l EXCEPT !.halted = h]
  <2>1. (d.pc + 1 + OperandBytes(i.mode)) % 65536 = pc
    BY <1>1 DEF pc, n
  <2>2. Step6502(d, i) = [l EXCEPT !.halted = l.halted \/ (l.pc = d.pc /\ d.variant # "NES")]
    BY <2>1 DEF Step6502, l, f
  <2>3. (l.halted \/ (l.pc = d.pc /\ d.variant # "NES")) = h
    BY <1>8
  <2> QED BY <2>2, <2>3
<1> QED BY <1>9, <1>10, <1>11

(* The twin of an emulated 65816, and what being twins says.               *)
LEMMA TwinStarts ==
  ASSUME NEW c \in Processor, Emulated(c), PageLocked(c)
  PROVE  Twin(c, As65C02(c))
<1> DEFINE q == c.p \ {FlagB}
           v == [c EXCEPT !.variant = "65C02"]
           d == [v EXCEPT !.p = q]
<1>1. /\ q \in SUBSET Flags /\ c.p = q \cup {FlagM, FlagX} /\ "65C02" \in Variants
      /\ c.e /\ c.d = 0 /\ c.dbr = 0 /\ c.pbr = 0 /\ c.sph = 1
  BY Fields, FlagValues DEF Emulated, PageLocked, Variants
<1>2. As65C02(c) = d
  BY DEF As65C02
<1> HIDE DEF q
<1>3. /\ d \in Processor /\ d.variant = "65C02" /\ d.p = q
      /\ c.a = d.a /\ c.x = d.x /\ c.y = d.y /\ c.sp = d.sp /\ c.pc = d.pc
      /\ c.halted = d.halted /\ c.stoppedBySTP = d.stoppedBySTP /\ c.mem = d.mem
  BY <1>1 DEF Processor, Processors
<1> HIDE DEF d
<1> QED BY <1>1, <1>2, <1>3 DEF Twin

LEMMA TwinsAgree ==
  ASSUME NEW c, NEW d, Twin(c, d)
  PROVE  Agree(c, d)
<1>1. \A f \in {"a", "x", "y", "sp", "pc", "halted", "stoppedBySTP"} : c[f] = d[f]
  BY DEF Twin
<1>2. c.p \ {FlagB, FlagU} = d.p \ {FlagB, FlagU}
  BY FlagValues DEF Twin
<1>3. SameMemory(c, d)
  BY TwinFields DEF SameMemory
<1> QED BY <1>1, <1>2, <1>3 DEF Agree

(* Interrupts and reset are no instructions.                               *)
LEMMA EventsAreNotShared ==
  ASSUME NEW c, NEW name \in EventNames
  PROVE  ~Shared(c, Event(name))
<1>1. Event(name).op = name /\ Event(name).op \in EventNames
  BY DEF Event, NoInstruction
<1>2. ASSUME <<Event(name).op, Event(name).mode>> \in Opcodes816 PROVE FALSE
  BY <1>1, <1>2, OpcodeOps816 DEF EventNames, AccReads, IdxReads, Stores, Rmws,
     ReadModifyWrites, Registers816, FlagOps, ModeControls, Stack816, NewStack, Jumps816,
     Branches, BlockMoves, Idles816
<1> QED BY <1>2 DEF Shared

(* In emulation mode, its banks and direct page at 0, the 65816 does to    *)
(* registers, flags and memory what the 65C02 does, for every instruction  *)
(* they share with any operand, but where the silicon differs: a pointer   *)
(* at the end of page 0, an index that leaves the bank, and a JSR whose    *)
(* push lands on its own operand (exec816.go against exec.go and           *)
(* opcodes_cmos.go).                                                       *)
THEOREM EmulationAgrees == Spec => EmulationIsA65C02
<1> DEFINE A == Shared(cpu, ir') => Agree(cpu', Step6502(As65C02(cpu), ir'))
<1>1. ASSUME CoresInv, Next PROVE A
  <2> USE DEF CoresInv, CoresTypeOK
  <2>1. ASSUME NEW i \in Menus[menu], Execute(i) PROVE A
    <3> SUFFICES ASSUME Shared(cpu, i)
                 PROVE  Agree(Stepped(cpu, i), Step6502(As65C02(cpu), i))
      BY <2>1 DEF Execute
    <3>1. i \in Instructions
      BY <1>1, CoresAssumption
    <3>2. Emulated(cpu) /\ <<i.op, i.mode>> \in Twins /\ Within(cpu, i)
          /\ ~PushesOntoItself(cpu, i)
      BY DEF Shared, Twins, Within
    <3>3. Twin(cpu, As65C02(cpu))
      BY <1>1, <3>2, TwinStarts DEF StackPageLocked
    <3>4. Stepped(cpu, i) = Step816(cpu, i)
      BY <3>2 DEF Stepped, Emulated
    <3> QED BY <3>1, <3>2, <3>3, <3>4, TwinStep, TwinsAgree
  <2>2. ASSUME NEW source \in DOMAIN Vectors816, Service(source) PROVE A
    <3>1. source \in EventNames /\ ir' = Event(source)
      BY <2>2 DEF Service, Vectors816, EventNames
    <3> QED BY <3>1, EventsAreNotShared
  <2>3. ASSUME Reset PROVE A
    <3>1. "RESET" \in EventNames /\ ir' = Event("RESET")
      BY <2>3 DEF Reset, EventNames
    <3> QED BY <3>1, EventsAreNotShared
  <2> QED BY <1>1, <2>1, <2>2, <2>3 DEF Next
<1>2. CoresInv /\ [Next]_vars => [A]_vars
  BY <1>1
<1> HIDE DEF A
<1>3. Spec => [][A]_vars
  BY <1>2, CoresInvariant, PTL DEF Spec
<1> QED BY <1>3 DEF EmulationIsA65C02, A
===============================================================================
