------------------------------ MODULE MCCores ------------------------------
(* Instances of Cores: a few processors of every variant and mode, each    *)
(* executing any one instruction of its tables with one or two operands,   *)
(* and then runs of the instructions that change modes and stacks.         *)
EXTENDS Cores

(* Memory that was never written: no two neighbours read alike. *)
MCFill(a) == (37 * a + a \div 256 + 11 * (a \div 65536)) % 256

Plain(variant) ==
    [variant |-> variant, a |-> 153, b |-> 18, x |-> 2, xh |-> 0, y |-> 240, yh |-> 0,
     sp |-> 253, sph |-> 1, p |-> {FlagU, FlagC}, e |-> TRUE, d |-> 0, dbr |-> 0,
     pbr |-> 0, pc |-> 32766, halted |-> FALSE, stoppedBySTP |-> FALSE, mem |-> << >>]
W65816 == [Plain("65816") EXCEPT !.p = {FlagM, FlagX, FlagC}]
Native(p) == [W65816 EXCEPT !.e = FALSE, !.p = p, !.sph = 31, !.d = 513, !.dbr = 2, !.pbr = 1]

Eight ==
    LET kinds == {Plain("NMOS"), Plain("65C02"), Plain("NES"), W65816}
    IN  kinds \cup {[k EXCEPT !.p = @ \cup {FlagD, FlagI}, !.a = 79, !.sp = 1] : k \in kinds}
              \cup {[k EXCEPT !.p = (@ \ {FlagC}) \cup {FlagD, FlagN, FlagZ, FlagV},
                              !.a = 170, !.x = 255, !.pc = 255] : k \in kinds}
              \cup {[W65816 EXCEPT !.pc = 507]}
Sixteen ==
    {Native({}), Native({FlagM, FlagD}), Native({FlagX, FlagC}), Native({FlagM, FlagX}),
     [Native({FlagC, FlagD}) EXCEPT !.xh = 255, !.yh = 254, !.sp = 0, !.sph = 0, !.b = 153]}
(* A short block to move, at the end of a bank and of an index register.  *)
Copying ==
    {[k EXCEPT !.a = 2, !.b = 0, !.x = 254] :
        k \in {W65816, Native({}), Native({FlagM, FlagX}),
               [Native({FlagM}) EXCEPT !.xh = 255, !.yh = 255]}}
MCBoot ==
    [each  |-> Eight \cup Sixteen,
     moves |-> Copying,
     modes |-> {W65816, Native({FlagX, FlagD}),
                [Native({FlagC, FlagD}) EXCEPT !.sp = 1, !.sph = 0]}]

----------------------------------------------------------------------------
Arguments(op, mode) ==
    CASE mode \in {"IMP", "ACC"} -> {0}
      [] mode \in {"LONG", "LONGX"} -> {131070, 70000}
      [] mode = "BLOCK" -> {0, 258}
      [] mode \in {"IMM", "ABS", "ABX", "ABY", "IND", "IAX", "IAL", "JSRABS", "RELL"} ->
           {65535, 4660}
      [] mode = "ZPR" -> {65280, 32784}
      [] OTHER -> {255, 16}
BitsOf(op) == IF op \in {"RMB", "SMB", "BBR", "BBS"} THEN {0, 7} ELSE {0}
Choices(opcodes) ==
    UNION {{[op |-> o[1], mode |-> o[2], arg |-> a, bit |-> b] :
              a \in Arguments(o[1], o[2]), b \in BitsOf(o[1])} : o \in opcodes}

(* Every instruction of every table, but the block moves. *)
Everything ==
    Choices({o \in UNION {OpcodesOf(v) : v \in Variants} : o[1] \notin BlockMoves})
(* Block moves of three bytes, within a bank and between banks. *)
Moves == Choices((BlockMoves \X {"BLOCK"}) \cup {<<"TDC", "IMP">>, <<"XCE", "IMP">>})
(* What changes the modes, the stack and the index registers. *)
ModeChanges ==
    Choices(({"XCE", "CLC", "PHP", "PLP", "RTI", "TXS", "TCS", "TSX", "PLX", "PHD"} \X {"IMP"}) \cup {<<"LDX", "IMM">>})
      \cup {[op |-> o, mode |-> "IMM", arg |-> a, bit |-> 0] :
              o \in {"SEP", "REP"}, a \in {16, 48}}
MCMenus == [each |-> Everything, moves |-> Moves, modes |-> ModeChanges]
MCLength == [each |-> 1, moves |-> 3, modes |-> 3]
MCDecimals == {0, 9, 37, 88, 144, 153, 2457, 4660, 22136, 39321}
=============================================================================
