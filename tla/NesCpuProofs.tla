----------------------------- MODULE NesCpuProofs -----------------------------
(***************************************************************************)
(* The interrupt latches and the DMA unit of the NES core, for every       *)
(* program, every page size and every behaviour of the devices.            *)
(***************************************************************************)
EXTENDS NesCpu, TLAPS

(***************************************************************************)
(* The instructions                                                        *)
(***************************************************************************)
Handled  == {"irq", "nmi", "brk"}
Branches == {"branch", "branchCross"}

(* Every operation has two cycles at least, a dispatch has seven. *)
LEMMA OpsLength ==
  /\ Ops = {"nop", "store", "modify", "branch", "branchCross", "cli", "sei",
            "plp", "rti", "brk", "irq", "nmi", "reset"}
  /\ \A o \in Ops : Len(BusCycles[o]) \in Nat /\ Len(BusCycles[o]) >= 2
  /\ \A o \in Handled : Len(BusCycles[o]) = 7
<1>1. /\ Ops = {"nop", "store", "modify", "branch", "branchCross", "cli",
                "sei", "plp", "rti", "brk", "irq", "nmi", "reset"}
      /\ BusCycles["nop"] = <<"read", "read">>
      /\ BusCycles["store"] = <<"read", "read", "read", "write">>
      /\ BusCycles["modify"] = <<"read", "read", "read", "write", "write">>
      /\ BusCycles["branch"] = <<"read", "read", "read">>
      /\ BusCycles["branchCross"] = <<"read", "read", "read", "read">>
      /\ BusCycles["cli"] = <<"read", "read">>
      /\ BusCycles["sei"] = <<"read", "read">>
      /\ BusCycles["plp"] = <<"read", "read", "read", "read">>
      /\ BusCycles["rti"] = <<"read", "read", "read", "read", "read", "read">>
      /\ BusCycles["brk"] = Dispatch
      /\ BusCycles["irq"] = Dispatch
      /\ BusCycles["nmi"] = Dispatch
      /\ BusCycles["reset"] = [i \in 1 .. 8 |-> "stall"]
  BY DEF Ops, BusCycles
<1>2. Len(Dispatch) = 7
  BY DEF Dispatch
<1>3. Len([i \in 1 .. 8 |-> "stall"]) = 8
  OBVIOUS
<1> HIDE DEF BusCycles
<1>4. \A o \in Handled : Len(BusCycles[o]) = 7
  BY <1>1, <1>2 DEF Handled
<1>5. /\ Len(BusCycles["nop"]) = 2 /\ Len(BusCycles["store"]) = 4
      /\ Len(BusCycles["modify"]) = 5 /\ Len(BusCycles["branch"]) = 3
      /\ Len(BusCycles["branchCross"]) = 4
  BY <1>1
<1>6. /\ Len(BusCycles["cli"]) = 2 /\ Len(BusCycles["sei"]) = 2
      /\ Len(BusCycles["plp"]) = 4 /\ Len(BusCycles["rti"]) = 6
      /\ Len(BusCycles["reset"]) = 8
  BY <1>1, <1>3
<1>7. /\ Len(BusCycles["brk"]) = 7 /\ Len(BusCycles["irq"]) = 7
      /\ Len(BusCycles["nmi"]) = 7
  BY <1>4 DEF Handled
<1> DEFINE Long(o) == Len(BusCycles[o]) \in Nat /\ Len(BusCycles[o]) >= 2
<1>8. /\ Long("nop") /\ Long("store") /\ Long("modify") /\ Long("branch")
      /\ Long("branchCross") /\ Long("cli") /\ Long("sei") /\ Long("plp")
      /\ Long("rti") /\ Long("brk") /\ Long("irq") /\ Long("nmi")
      /\ Long("reset")
  BY <1>5, <1>6, <1>7
<1> HIDE DEF Long
<1>9. \A o \in Ops : Long(o)
  BY <1>1, <1>8, Zenon
<1> QED BY <1>1, <1>4, <1>9 DEF Long

(***************************************************************************)
(* One cycle's effect on latches and history                               *)
(***************************************************************************)
Typed ==
  /\ setting \in Settings
  /\ iFlag \in BOOLEAN /\ irqLine \in BOOLEAN
  /\ nmiLine \in [level : BOOLEAN, prev : BOOLEAN]
  /\ poll \in Poll /\ seen \in Seen
  /\ op \in Ops \cup {"none"} /\ done \in Nat
  /\ op = "none" => done = 0
  /\ op # "none" => done < Len(BusCycles[op])

(* EndCycle(o, n, e) once the device's edge is known.                      *)
Effect(o, n, rises) ==
  LET pending == poll.nmiPending \/ rises
      hijack  == TakesOver(o, n) /\ pending
      forget  == o \in Handled /\ n = 7
  IN  /\ poll'.nmiPending <=> pending /\ ~hijack
      /\ poll'.nmiPollPrev <=> pending /\ ~hijack /\ ~forget
      /\ poll'.nmiDue <=> poll.nmiPollPrev /\ ~hijack /\ ~forget
      /\ poll'.irqDue <=> poll.irqPollPrev
      /\ poll'.irqPollPrev => irqLine' /\ ~iFlag
      /\ irqLine' /\ ~iFlag /\ ~poll'.irqPollPrev
           => o \in Branches /\ n = 2 /\ ~poll.irqPollPrev
      /\ seen'.owed <=> (seen.owed \/ rises) /\ ~hijack
      /\ seen'.nmiWait = IF seen'.owed THEN seen.nmiWait ELSE 0
      /\ seen'.irqWait = IF irqLine' /\ ~iFlag' THEN seen.irqWait ELSE 0
      /\ seen'.masked <=> iFlag' /\ (seen.masked \/ HandlerEntered(o, n))
      /\ iFlag' \in FlagAfter(o, n)

(* The end of a cycle has that effect and keeps the types.                 *)
LEMMA EndCycleEffect ==
  ASSUME Typed, NEW o, NEW n \in Nat, NEW e, e.asked \in BOOLEAN,
         e.fetches \in 0 .. MaxFetches, EndCycle(o, n, e)
  PROVE  /\ \E rises \in BOOLEAN : Effect(o, n, rises)
         /\ iFlag' \in BOOLEAN /\ irqLine' \in BOOLEAN
         /\ nmiLine' \in [level : BOOLEAN, prev : BOOLEAN]
         /\ poll' \in Poll /\ seen' \in Seen
<1> USE DEF Typed
<1>1. PICK level \in MovesTo(setting.nmi, nmiLine.level),
           line \in MovesTo(setting.irq, irqLine), flag \in FlagAfter(o, n) :
        LET at == [level |-> level, prev |-> nmiLine.prev]
            sampled == Sampled(poll, at, line, iFlag)
            owed == (seen.owed \/ Rises(at))
                    /\ ~(TakesOver(o, n) /\ sampled.nmiPending)
        IN  /\ nmiLine' = [level |-> level, prev |-> level]
            /\ irqLine' = line
            /\ poll' = PollAfter(o, n, sampled)
            /\ iFlag' = flag
            /\ seen' = [owed |-> owed,
                        nmiWait |-> IF owed THEN seen.nmiWait ELSE 0,
                        irqWait |-> IF line /\ ~flag THEN seen.irqWait ELSE 0,
                        masked |-> flag /\
                                   (seen.masked \/ HandlerEntered(o, n)),
                        asked |-> e.asked, fetches |-> e.fetches]
  BY DEF EndCycle
<1>2. level \in BOOLEAN /\ line \in BOOLEAN /\ flag \in BOOLEAN
  BY DEF MovesTo, FlagAfter
<1> DEFINE at == [level |-> level, prev |-> nmiLine.prev]
           rises == level /\ ~nmiLine.prev
           sampled == Sampled(poll, at, line, iFlag)
<1>3. rises \in BOOLEAN /\ (Rises(at) <=> rises)
  BY <1>2 DEF Rises
<1>4. /\ sampled \in Poll
      /\ sampled.nmiPending <=> poll.nmiPending \/ rises
      /\ sampled.nmiPollPrev <=> poll.nmiPending \/ rises
      /\ sampled.nmiDue = poll.nmiPollPrev
      /\ sampled.irqDue = poll.irqPollPrev
      /\ sampled.irqPollPrev <=> line /\ ~iFlag
  BY <1>2, <1>3 DEF Sampled, Poll
<1> HIDE DEF sampled, rises
<1>5. /\ seen'.owed <=> (seen.owed \/ rises)
                        /\ ~(TakesOver(o, n) /\ (poll.nmiPending \/ rises))
      /\ seen'.nmiWait = IF seen'.owed THEN seen.nmiWait ELSE 0
      /\ seen'.irqWait = IF irqLine' /\ ~iFlag' THEN seen.irqWait ELSE 0
      /\ seen'.masked <=> iFlag' /\ (seen.masked \/ HandlerEntered(o, n))
  BY <1>1, <1>2, <1>3, <1>4 DEF at, sampled, HandlerEntered
<1>6. seen' \in Seen
  BY <1>1, <1>2, <1>5 DEF Seen, Waits, HandlerEntered
<1>7. poll' = PollAfter(o, n, sampled) /\ irqLine' = line
      /\ iFlag' \in FlagAfter(o, n)
      /\ nmiLine' = [level |-> level, prev |-> level]
  BY <1>1 DEF at, sampled
<1> DEFINE pending == poll.nmiPending \/ rises
           hijack  == TakesOver(o, n) /\ pending
           forget  == o \in Handled /\ n = 7
           New(p)  == /\ p \in Poll
                      /\ p.nmiPending <=> pending /\ ~hijack
                      /\ p.nmiPollPrev <=> pending /\ ~hijack /\ ~forget
                      /\ p.nmiDue <=> poll.nmiPollPrev /\ ~hijack /\ ~forget
                      /\ p.irqDue <=> poll.irqPollPrev
                      /\ p.irqPollPrev => line /\ ~iFlag
                      /\ line /\ ~iFlag /\ ~p.irqPollPrev
                           => o \in Branches /\ n = 2 /\ ~poll.irqPollPrev
<1>8. New(poll')
  <2> USE DEF Handled, Branches, TakesOver
  <2>1. CASE o \in Branches /\ n = 2
    <3>1. poll' = RolledBack(sampled)
      BY <2>1, <1>7 DEF PollAfter
    <3>2. ~hijack /\ ~forget
      BY <2>1
    <3> QED BY <2>1, <3>1, <3>2, <1>4 DEF RolledBack, Poll
  <2>2. CASE TakesOver(o, n)
    <3>1. poll' = Hijacked(sampled)
      BY <2>2, <1>7 DEF PollAfter
    <3>2. ~forget
      BY <2>2
    <3> QED BY <2>2, <3>1, <3>2, <1>4 DEF Hijacked, Poll
  <2>3. CASE o \in Handled /\ n = 7
    <3>1. poll' = Forgotten(sampled)
      BY <2>3, <1>7 DEF PollAfter
    <3>2. ~hijack
      BY <2>3
    <3> QED BY <2>3, <3>1, <3>2, <1>4 DEF Forgotten, Poll
  <2>4. CASE ~(o \in Branches /\ n = 2) /\ ~TakesOver(o, n)
             /\ ~(o \in Handled /\ n = 7)
    <3>1. poll' = sampled
      BY <2>4, <1>7 DEF PollAfter
    <3> QED BY <2>4, <3>1, <1>4
  <2> QED BY <2>1, <2>2, <2>3, <2>4
<1>9. Effect(o, n, rises)
  BY <1>5, <1>7, <1>8 DEF Effect
<1>10. poll' \in Poll
  BY <1>8
<1>11. \E r \in BOOLEAN : Effect(o, n, r)
  BY <1>3, <1>9, Zenon
<1> HIDE DEF New, at, sampled
<1>12. iFlag' \in BOOLEAN
  BY <1>2, <1>7 DEF FlagAfter
<1>13. nmiLine' \in [level : BOOLEAN, prev : BOOLEAN]
  BY <1>2, <1>7
<1> QED BY <1>2, <1>6, <1>7, <1>10, <1>11, <1>12, <1>13

(***************************************************************************)
(* The inductive invariant                                                 *)
(***************************************************************************)
(* nmiPending is the unanswered edge; the delayed latches never say more,  *)
(* except in the first cycles of the dispatch that has just answered it.   *)
NmiLatches ==
  /\ poll.nmiPending <=> seen.owed
  /\ (op = "nmi" /\ done = 0) \/ (poll.nmiPollPrev => poll.nmiPending)
  /\ (op = "nmi" /\ done <= 1) \/ (poll.nmiDue => poll.nmiPending)

(* Once an instruction has begun after the edge, the latches move up with  *)
(* its cycles, and they are up at its end.                                 *)
NmiOnItsWay ==
  /\ seen.nmiWait \in {0, 1}
  /\ seen.nmiWait = 1 =>
       /\ seen.owed /\ op \notin {"nmi", "irq"}
       /\ op \in {"none", "reset"} => poll.nmiPollPrev /\ poll.nmiDue
       /\ done >= 1 => poll.nmiPollPrev
       /\ done >= 2 => poll.nmiDue
       /\ op = "brk" => done < 4

(* The same of a held IRQ line. *)
IrqOnItsWay ==
  /\ seen.irqWait \in {0, 1}
  /\ seen.irqWait = 1 =>
       /\ irqLine /\ ~iFlag
       /\ op = "none" => poll.irqDue
       /\ done >= 1 => poll.irqPollPrev
       /\ done >= 2 => poll.irqDue

(* The dispatch sets I two cycles before its end, so that the poll latch   *)
(* is down again one cycle before it.                                      *)
InDispatch ==
  op \in Handled => /\ done >= 5 => iFlag
                    /\ done >= 6 => ~poll.irqPollPrev

(* While I stays set the latches are down, but for those a line moved      *)
(* before I was set.                                                       *)
Masked ==
  seen.masked =>
    /\ iFlag
    /\ poll.irqPollPrev => \/ op \in Handled /\ done = 5
                           \/ op = "reset" /\ done = 0
    /\ poll.irqDue => \/ op \in Handled /\ done \in {5, 6}
                      \/ op = "reset" /\ done <= 1

IInv == /\ Typed /\ NmiLatches /\ NmiOnItsWay /\ IrqOnItsWay
        /\ InDispatch /\ Masked

(***************************************************************************)
(* One cycle keeps the invariant                                           *)
(***************************************************************************)
(* The cycle n of o has ended; the next is due, or o is done.              *)
CycleOf(o, n) ==
  /\ op = o /\ op # "none" /\ n = done + 1
  /\ \/ op' = op /\ done' = n /\ n < Len(BusCycles[op])
     \/ op' = "none" /\ done' = 0 /\ n = Len(BusCycles[op])

(* A DMA took the cycle. *)
StolenFrom(o, n) ==
  /\ o = "none" /\ n = 0 /\ op # "none" /\ op' = op /\ done' = done

(* Either way a cycle takes the latches from one state of IInv to another. *)
LEMMA EffectKeepsInvariant ==
  ASSUME IInv, Typed', NEW o, NEW n \in Nat, NEW rises \in BOOLEAN,
         Effect(o, n, rises), CycleOf(o, n) \/ StolenFrom(o, n)
  PROVE  IInv'
<1> DEFINE hijack == TakesOver(o, n) /\ (poll.nmiPending \/ rises)
           forget == o \in Handled /\ n = 7
<1>1. /\ poll'.nmiPending <=> (poll.nmiPending \/ rises) /\ ~hijack
      /\ poll'.nmiPollPrev <=> (poll.nmiPending \/ rises) /\ ~hijack /\ ~forget
      /\ poll'.nmiDue <=> poll.nmiPollPrev /\ ~hijack /\ ~forget
      /\ seen'.owed <=> (seen.owed \/ rises) /\ ~hijack
      /\ seen'.nmiWait = IF seen'.owed THEN seen.nmiWait ELSE 0
  BY DEF Effect
<1>2. /\ poll'.irqDue <=> poll.irqPollPrev
      /\ poll'.irqPollPrev => irqLine' /\ ~iFlag
      /\ irqLine' /\ ~iFlag /\ ~poll'.irqPollPrev
           => o \in Branches /\ n = 2 /\ ~poll.irqPollPrev
      /\ seen'.irqWait = IF irqLine' /\ ~iFlag' THEN seen.irqWait ELSE 0
      /\ seen'.masked <=> iFlag' /\ (seen.masked \/ HandlerEntered(o, n))
      /\ iFlag' \in FlagAfter(o, n)
  BY DEF Effect
<1>3. done \in Nat /\ done' \in Nat /\ op \in Ops /\ op' \in Ops \cup {"none"}
  BY DEF IInv, Typed, CycleOf, StolenFrom
<1>4. Len(BusCycles[op]) \in Nat /\ Len(BusCycles[op]) >= 2
  BY <1>3, OpsLength
<1>5. op \in Handled => Len(BusCycles[op]) = 7
  BY OpsLength
<1>6. NmiLatches'
  <2>1. poll'.nmiPending <=> seen'.owed
    BY <1>1 DEF IInv, NmiLatches
  <2>2. poll'.nmiPollPrev => poll'.nmiPending
    BY <1>1
  <2>3. (op' = "nmi" /\ done' <= 1) \/ (poll'.nmiDue => poll'.nmiPending)
    <3>1. CASE op = "nmi" /\ done = 0
      <4>1. Len(BusCycles[op]) = 7
        BY <3>1, <1>5 DEF Handled
      <4> QED BY <3>1, <4>1 DEF CycleOf, StolenFrom
    <3>2. CASE ~(op = "nmi" /\ done = 0)
      BY <3>2, <1>1 DEF IInv, NmiLatches
    <3> QED BY <3>1, <3>2
  <2> QED BY <2>1, <2>2, <2>3 DEF NmiLatches
<1>7. NmiOnItsWay'
  <2>1. seen'.nmiWait \in {0, 1}
    BY <1>1 DEF IInv, NmiOnItsWay
  <2>2. ASSUME seen'.nmiWait = 1
        PROVE  /\ seen'.owed /\ op' \notin {"nmi", "irq"}
               /\ op' \in {"none", "reset"} => poll'.nmiPollPrev /\ poll'.nmiDue
               /\ done' >= 1 => poll'.nmiPollPrev
               /\ done' >= 2 => poll'.nmiDue
               /\ op' = "brk" => done' < 4
    <3>1. seen'.owed /\ seen.nmiWait = 1
      BY <2>2, <1>1
    <3>2. /\ seen.owed /\ op \notin {"nmi", "irq"}
          /\ op = "reset" => poll.nmiPollPrev /\ poll.nmiDue
          /\ done >= 1 => poll.nmiPollPrev
          /\ done >= 2 => poll.nmiDue
          /\ op = "brk" => done < 4
      BY <3>1 DEF IInv, NmiOnItsWay
    <3>3. ~hijack /\ poll'.nmiPending /\ poll.nmiPending
      BY <3>1, <3>2, <1>1 DEF IInv, NmiLatches
    <3>4. ~forget
      BY <3>2, <1>3 DEF CycleOf, StolenFrom, Handled
    <3>5. poll'.nmiPollPrev /\ (poll'.nmiDue <=> poll.nmiPollPrev)
      BY <3>3, <3>4, <1>1
    <3>6. op' = "brk" => done' < 4
      <4>1. SUFFICES ASSUME op = "brk", done = 3, CycleOf(o, n)
                     PROVE  FALSE
        BY <3>2, <1>3 DEF CycleOf, StolenFrom
      <4>2. TakesOver(o, n)
        BY <4>1 DEF CycleOf, TakesOver
      <4> QED BY <4>2, <3>3
    <3>7. done' >= 2 \/ op' = "none" => done >= 1
      BY <1>3, <1>4 DEF CycleOf, StolenFrom
    <3> QED BY <3>1, <3>2, <3>5, <3>6, <3>7, <1>3 DEF CycleOf, StolenFrom
  <2> QED BY <2>1, <2>2 DEF NmiOnItsWay
<1>8. IrqOnItsWay'
  <2>1. seen'.irqWait \in {0, 1}
    BY <1>2 DEF IInv, IrqOnItsWay
  <2>2. ASSUME seen'.irqWait = 1
        PROVE  /\ irqLine' /\ ~iFlag'
               /\ op' = "none" => poll'.irqDue
               /\ done' >= 1 => poll'.irqPollPrev
               /\ done' >= 2 => poll'.irqDue
    <3>1. irqLine' /\ ~iFlag' /\ seen.irqWait = 1
      BY <2>2, <1>2
    <3>2. ~iFlag /\ (done >= 1 => poll.irqPollPrev)
      BY <3>1 DEF IInv, IrqOnItsWay
    <3>3. poll'.irqPollPrev
      BY <3>1, <3>2, <1>2, <1>3 DEF CycleOf, StolenFrom
    <3>4. done' >= 2 \/ op' = "none" => done >= 1
      BY <1>3, <1>4 DEF CycleOf, StolenFrom
    <3> QED BY <3>1, <3>2, <3>3, <3>4, <1>2
  <2> QED BY <2>1, <2>2 DEF IrqOnItsWay
<1>9. InDispatch'
  <2>1. SUFFICES ASSUME op' \in Handled
                 PROVE  /\ done' >= 5 => iFlag'
                        /\ done' >= 6 => ~poll'.irqPollPrev
    BY DEF InDispatch
  <2>2. op = op'
    BY <2>1 DEF CycleOf, StolenFrom, Handled
  <2>3. done >= 5 => iFlag
    BY <2>1, <2>2 DEF IInv, InDispatch
  <2>4. CASE CycleOf(o, n)
    <3>1. o \in Handled /\ done' = done + 1 /\ n = done + 1
      BY <2>1, <2>2, <2>4 DEF CycleOf, Handled
    <3>2. done' = 5 => iFlag'
      BY <3>1, <1>2, <1>3 DEF FlagAfter, Handled
    <3>3. done' # 5 => iFlag' = iFlag
      BY <3>1, <1>2, <1>3 DEF FlagAfter, Handled
    <3> QED BY <3>1, <3>2, <3>3, <2>3, <1>2, <1>3
  <2>5. CASE StolenFrom(o, n)
    <3>1. iFlag' = iFlag
      BY <2>5, <1>2 DEF FlagAfter, StolenFrom
    <3> QED BY <2>5, <3>1, <2>3, <1>2, <1>3 DEF StolenFrom
  <2> QED BY <2>4, <2>5
<1>10. Masked'
  <2>1. SUFFICES ASSUME seen'.masked
                 PROVE  /\ poll'.irqPollPrev =>
                             \/ op' \in Handled /\ done' = 5
                             \/ op' = "reset" /\ done' = 0
                        /\ poll'.irqDue =>
                             \/ op' \in Handled /\ done' \in {5, 6}
                             \/ op' = "reset" /\ done' <= 1
    BY <1>2 DEF Masked
  <2>2. CASE seen.masked
    <3>1. iFlag /\ ~poll'.irqPollPrev
      BY <2>2, <1>2 DEF IInv, Masked
    <3>2. poll.irqPollPrev => \/ op \in Handled /\ done = 5
                              \/ op = "reset" /\ done = 0
      BY <2>2 DEF IInv, Masked
    <3>3. op = "reset" /\ done = 0 => op' = "reset" /\ done' <= 1
      BY <1>3, <1>4 DEF CycleOf, StolenFrom
    <3>4. op \in Handled /\ done = 5 => op' \in Handled /\ done' \in {5, 6}
      <4>1. SUFFICES ASSUME op \in Handled, done = 5
                     PROVE  op' \in Handled /\ done' \in {5, 6}
        OBVIOUS
      <4>2. Len(BusCycles[op]) = 7
        BY <4>1, <1>5
      <4>3. op' = op /\ done' \in {5, 6}
        BY <4>1, <4>2 DEF CycleOf, StolenFrom
      <4> QED BY <4>1, <4>3
    <3> QED BY <3>1, <3>2, <3>3, <3>4, <1>2
  <2>3. CASE ~seen.masked
    <3>1. HandlerEntered(o, n)
      BY <2>1, <2>3, <1>2
    <3>2. o \in Handled /\ n >= 5 /\ o = op /\ CycleOf(o, n)
      BY <3>1 DEF HandlerEntered, Handled, CycleOf, StolenFrom
    <3>3. n > 5 => iFlag
      BY <3>2, <1>3 DEF IInv, InDispatch, CycleOf
    <3>4. n = 7 => ~poll.irqPollPrev
      BY <3>2, <1>3 DEF IInv, InDispatch, CycleOf
    <3>5. n \in {5, 6, 7} /\ (n # 7 => op' \in Handled /\ done' = n)
      <4>1. Len(BusCycles[op]) = 7
        BY <3>2, <1>5
      <4>2. n \in {5, 6, 7} /\ (n # 7 => op' = op /\ done' = n)
        BY <3>2, <4>1, <1>3 DEF CycleOf
      <4> QED BY <3>2, <4>2
    <3> QED BY <3>3, <3>4, <3>5, <1>2
  <2> QED BY <2>2, <2>3
<1> QED BY <1>6, <1>7, <1>8, <1>9, <1>10 DEF IInv

(***************************************************************************)
(* The actions                                                             *)
(***************************************************************************)
(* What the APU may do to its request stays within the bounds. *)
LEMMA DmcEventsTyped ==
  ASSUME Typed, NEW d, NEW e \in DmcEvents(d)
  PROVE  e.asked \in BOOLEAN /\ e.fetches \in 0 .. MaxFetches
<1>1. /\ seen.asked \in BOOLEAN /\ seen.fetches \in 0 .. MaxFetches
      /\ MaxFetches \in Nat
  BY NesAssumption DEF Typed, Seen
<1>2. \/ e.asked = seen.asked /\ e.fetches = seen.fetches
      \/ /\ e.asked = TRUE /\ e.fetches = seen.fetches + 1
         /\ seen.fetches < MaxFetches
      \/ e.asked = FALSE /\ e.fetches = seen.fetches
  BY DEF DmcEvents, MayRequest
<1>3. e.asked \in BOOLEAN
  BY <1>1, <1>2, Zenon
<1>4. e.fetches = seen.fetches
        \/ (e.fetches = seen.fetches + 1 /\ seen.fetches < MaxFetches)
  BY <1>2
<1>5. e.fetches \in 0 .. MaxFetches
  BY <1>1, <1>4
<1> QED BY <1>3, <1>5

(* A cycle of the running operation has the effect of EndCycle. *)
LEMMA CycleEffect ==
  ASSUME Typed, Cycle
  PROVE  /\ CycleOf(op, done + 1) /\ Typed'
         /\ \E rises \in BOOLEAN : Effect(op, done + 1, rises)
<1> DEFINE n == done + 1
<1>1. Typed /\ op \in Ops /\ done \in Nat /\ done < Len(BusCycles[op])
  BY DEF Typed, Cycle
<1>2. Len(BusCycles[op]) \in Nat
  BY <1>1, OpsLength
<1>3. PICK e \in DmcEvents(dma) :
        EndCycle(op, n, [e EXCEPT !.fetches = IF window.on THEN 0 ELSE @])
  BY DEF Cycle
<1> DEFINE f == [e EXCEPT !.fetches = IF window.on THEN 0 ELSE @]
<1>4. f.asked \in BOOLEAN /\ f.fetches \in 0 .. MaxFetches
  BY <1>1, DmcEventsTyped, NesAssumption DEF DmcEvents
<1>5. EndCycle(op, n, f)
  BY <1>3
<1>6. CycleOf(op, n) /\ setting' = setting
  BY <1>1, <1>2 DEF Cycle, CycleOf, Last
<1> HIDE DEF f
<1>7. /\ \E rises \in BOOLEAN : Effect(op, n, rises)
      /\ iFlag' \in BOOLEAN /\ irqLine' \in BOOLEAN
      /\ nmiLine' \in [level : BOOLEAN, prev : BOOLEAN]
      /\ poll' \in Poll /\ seen' \in Seen
  BY <1>1, <1>4, <1>5, EndCycleEffect
<1>8. Typed'
  <2>1. op' \in Ops \cup {"none"} /\ done' \in Nat
    BY <1>1, <1>6 DEF CycleOf
  <2>2. op' = "none" => done' = 0
    BY <1>6 DEF CycleOf
  <2>3. op' # "none" => done' < Len(BusCycles[op'])
    BY <1>6 DEF CycleOf
  <2> QED BY <1>1, <1>6, <1>7, <2>1, <2>2, <2>3 DEF Typed
<1> QED BY <1>6, <1>7, <1>8

(* And so it keeps the invariant. *)
LEMMA CycleKeepsInvariant == IInv /\ Cycle => IInv'
<1> SUFFICES ASSUME IInv, Cycle PROVE IInv'
  OBVIOUS
<1>1. Typed /\ done + 1 \in Nat
  BY DEF IInv, Typed
<1>2. /\ CycleOf(op, done + 1) /\ Typed'
      /\ \E rises \in BOOLEAN : Effect(op, done + 1, rises)
  BY <1>1, CycleEffect
<1> QED BY <1>1, <1>2, EffectKeepsInvariant

(* A cycle that a DMA takes. *)
LEMMA StolenKeepsInvariant ==
  ASSUME IInv, op # "none", UNCHANGED <<setting, op, done>>,
         NEW e, e.asked \in BOOLEAN, e.fetches \in 0 .. MaxFetches,
         EndCycle("none", 0, e)
  PROVE  IInv'
<1>1. Typed
  BY DEF IInv
<1>2. /\ \E rises \in BOOLEAN : Effect("none", 0, rises)
      /\ iFlag' \in BOOLEAN /\ irqLine' \in BOOLEAN
      /\ nmiLine' \in [level : BOOLEAN, prev : BOOLEAN]
      /\ poll' \in Poll /\ seen' \in Seen
  BY <1>1, EndCycleEffect
<1>3. Typed'
  BY <1>1, <1>2 DEF Typed
<1>4. StolenFrom("none", 0)
  BY DEF StolenFrom
<1> QED BY <1>2, <1>3, <1>4, EffectKeepsInvariant

(* The halt cycle is one. *)
LEMMA HaltKeepsInvariant == IInv /\ DmaHalt => IInv'
<1> SUFFICES ASSUME IInv, DmaHalt PROVE IInv'
  OBVIOUS
<1>1. PICK e \in DmcEvents([dma EXCEPT !.needHalt = FALSE]) :
        EndCycle("none", 0, e)
  BY DEF DmaHalt
<1>2. e.asked \in BOOLEAN /\ e.fetches \in 0 .. MaxFetches
  BY DmcEventsTyped DEF IInv
<1>3. op # "none" /\ UNCHANGED <<setting, op, done>>
  BY DEF DmaHalt, BeforeRead
<1> QED BY <1>1, <1>2, <1>3, StolenKeepsInvariant

(* And so is every cycle of the loop, whatever it transfers. *)
LEMMA LoopKeepsInvariant ==
  ASSUME IInv, InWindow, NEW w, NEW flags, NEW delivered \in BOOLEAN,
         DmaCycle(w, flags, delivered)
  PROVE  IInv'
<1>1. PICK e \in DmcEvents(Processed(dma)) :
        EndCycle("none", 0, [e EXCEPT !.asked = @ /\ ~delivered])
  BY DEF DmaCycle
<1> DEFINE f == [e EXCEPT !.asked = @ /\ ~delivered]
<1>2. f.asked \in BOOLEAN /\ f.fetches \in 0 .. MaxFetches
  BY DmcEventsTyped DEF IInv, DmcEvents
<1>3. EndCycle("none", 0, f)
  BY <1>1
<1>4. op # "none" /\ UNCHANGED <<setting, op, done>>
  BY DEF DmaCycle, InWindow, BeforeRead
<1> HIDE DEF f
<1> QED BY <1>2, <1>3, <1>4, StolenKeepsInvariant

(* The bounded counters of the history. *)
LEMMA WaitsTyped == 0 \in Waits /\ \A n \in Waits : OneMore(n) \in Waits
BY DEF Waits, OneMore

(* Beginning an operation keeps the types, if its latches do.              *)
LEMMA BeginTyped ==
  ASSUME Typed, NEW o \in Ops, Begin(o), iFlag' \in BOOLEAN,
         poll' \in Poll, seen' \in Seen
  PROVE  Typed'
<1>1. op' \in Ops /\ done' = 0
  BY DEF Begin
<1>2. Len(BusCycles[op']) \in Nat /\ Len(BusCycles[op']) >= 2
  BY <1>1, OpsLength
<1>3. op' # "none"
  BY <1>1, OpsLength
<1>4. done' \in Nat /\ done' < Len(BusCycles[op'])
  BY <1>1, <1>2
<1> QED BY <1>1, <1>3, <1>4 DEF Typed, Begin

(* The boundary: serviceNMI. *)
LEMMA StepNmiKeepsInvariant == IInv /\ StepNmi => IInv'
<1> SUFFICES ASSUME IInv, StepNmi PROVE IInv'
  OBVIOUS
<1> USE DEF IInv, StepNmi, Begin, Poll
<1>1. Typed'
  <2>1. "nmi" \in Ops
    BY OpsLength
  <2>2. iFlag' \in BOOLEAN
    BY DEF Typed
  <2>3. poll' \in Poll
    BY DEF Typed
  <2>4. seen' \in Seen
    BY WaitsTyped DEF Typed, Seen
  <2> QED BY <2>1, <2>2, <2>3, <2>4, BeginTyped
<1>2. NmiLatches'
  BY DEF NmiLatches, Typed
<1>3. NmiOnItsWay'
  BY DEF NmiOnItsWay, Typed
<1>4. IrqOnItsWay'
  BY DEF IrqOnItsWay, Typed
<1>5. InDispatch'
  BY DEF InDispatch
<1>6. Masked'
  BY DEF Masked, Typed, Handled
<1> QED BY <1>1, <1>2, <1>3, <1>4, <1>5, <1>6

(* serviceIRQ. *)
LEMMA StepIrqKeepsInvariant == IInv /\ StepIrq => IInv'
<1> SUFFICES ASSUME IInv, StepIrq PROVE IInv'
  OBVIOUS
<1> USE DEF IInv, StepIrq, Begin, Poll
<1>1. Typed'
  <2>1. "irq" \in Ops
    BY OpsLength
  <2>2. iFlag' \in BOOLEAN
    BY DEF Typed
  <2>3. poll' \in Poll
    BY DEF Typed
  <2>4. seen' \in Seen
    BY WaitsTyped DEF Typed, Seen
  <2> QED BY <2>1, <2>2, <2>3, <2>4, BeginTyped
<1>2. NmiLatches'
  BY DEF NmiLatches, Typed
<1>3. NmiOnItsWay'
  BY DEF NmiOnItsWay, Typed
<1>4. IrqOnItsWay'
  BY DEF IrqOnItsWay, Typed
<1>5. InDispatch'
  BY DEF InDispatch
<1>6. Masked'
  BY DEF Masked, Typed, Handled
<1> QED BY <1>1, <1>2, <1>3, <1>4, <1>5, <1>6

(* The next instruction. *)
LEMMA StepInstructionKeepsInvariant == IInv /\ StepInstruction => IInv'
<1> SUFFICES ASSUME IInv, StepInstruction PROVE IInv'
  OBVIOUS
<1>1. PICK o \in setting.ops : Begin(o)
  BY DEF StepInstruction
<1>2. o \in Instructions
  BY <1>1, NesAssumption DEF IInv, Typed, Setting
<1>3. o \in Ops /\ o \notin {"irq", "nmi", "reset", "none"}
  BY <1>2, OpsLength DEF Instructions
<1> USE <1>1, <1>3 DEF IInv, StepInstruction, Begin, Poll, OneMore
<1>4. Typed'
  <2>1. iFlag' \in BOOLEAN
    BY DEF Typed
  <2>2. poll' \in Poll
    BY DEF Typed
  <2>3. seen' \in Seen
    <3>1. OneMore(seen.nmiWait) \in Waits /\ OneMore(seen.irqWait) \in Waits
      BY WaitsTyped DEF Typed, Seen
    <3> QED BY <3>1 DEF Typed, Seen
  <2> QED BY <2>1, <2>2, <2>3, BeginTyped
<1>5. NmiLatches'
  BY DEF NmiLatches, Typed
<1>6. NmiOnItsWay'
  BY DEF NmiOnItsWay, NmiLatches, Typed
<1>7. IrqOnItsWay'
  BY DEF IrqOnItsWay, Typed
<1>8. InDispatch'
  BY DEF InDispatch
<1>9. Masked'
  BY DEF Masked, Typed, Handled
<1> QED BY <1>4, <1>5, <1>6, <1>7, <1>8, <1>9

(* The host's reset. *)
LEMMA ResetKeepsInvariant == IInv /\ Reset => IInv'
<1> SUFFICES ASSUME IInv, Reset PROVE IInv'
  OBVIOUS
<1> USE DEF IInv, Reset, Begin, Poll
<1>1. Typed'
  <2>1. "reset" \in Ops
    BY OpsLength
  <2>2. iFlag' \in BOOLEAN
    BY DEF Typed
  <2>3. poll' \in Poll
    BY DEF Typed
  <2>4. seen' \in Seen
    BY WaitsTyped DEF Typed, Seen
  <2> QED BY <2>1, <2>2, <2>3, <2>4, BeginTyped
<1>2. NmiLatches'
  BY DEF NmiLatches, Typed
<1>3. NmiOnItsWay'
  BY DEF NmiOnItsWay, Typed
<1>4. IrqOnItsWay'
  BY DEF IrqOnItsWay, Typed
<1>5. InDispatch'
  BY DEF InDispatch, Handled
<1>6. Masked'
  BY DEF Masked, Typed, Handled
<1> QED BY <1>1, <1>2, <1>3, <1>4, <1>5, <1>6

(***************************************************************************)
(* Theorems                                                                *)
(***************************************************************************)
(* New leaves the latches where the invariant has them. *)
LEMMA InitInvariant == Init => IInv
<1> SUFFICES ASSUME Init PROVE IInv
  OBVIOUS
<1>1. seen \in Seen
  BY NesAssumption DEF Init, Seen, Waits
<1>2. Typed
  BY <1>1 DEF Init, Typed, Poll
<1>3. NmiLatches /\ NmiOnItsWay /\ IrqOnItsWay /\ InDispatch /\ Masked
  BY DEF Init, NmiLatches, NmiOnItsWay, IrqOnItsWay, InDispatch, Masked,
         Handled
<1> QED BY <1>2, <1>3 DEF IInv

(* No action of the core or of its devices breaks it. *)
LEMMA NextKeepsInvariant == IInv /\ [Next]_vars => IInv'
<1> SUFFICES ASSUME IInv, [Next]_vars PROVE IInv'
  OBVIOUS
<1>1. CASE StepNmi          BY <1>1, StepNmiKeepsInvariant
<1>2. CASE StepIrq          BY <1>2, StepIrqKeepsInvariant
<1>3. CASE StepInstruction  BY <1>3, StepInstructionKeepsInvariant
<1>4. CASE Reset            BY <1>4, ResetKeepsInvariant
<1>5. CASE Cycle            BY <1>5, CycleKeepsInvariant
<1>6. CASE DmaHalt          BY <1>6, HaltKeepsInvariant
<1>7. CASE DmaSampleRead
  BY <1>7, LoopKeepsInvariant DEF DmaSampleRead
<1>8. CASE DmaSpriteRead
  BY <1>8, LoopKeepsInvariant DEF DmaSpriteRead
<1>9. CASE DmaSpriteWrite
  BY <1>9, LoopKeepsInvariant DEF DmaSpriteWrite
<1>10. CASE DmaDummyRead
  BY <1>10, LoopKeepsInvariant DEF DmaDummyRead
<1>11. CASE UNCHANGED vars
  BY <1>11 DEF vars, IInv, Typed, NmiLatches, NmiOnItsWay, IrqOnItsWay,
               InDispatch, Masked
<1> QED BY <1>1, <1>2, <1>3, <1>4, <1>5, <1>6, <1>7, <1>8, <1>9, <1>10,
           <1>11 DEF Next

(* Every reachable state has the latches' invariant. *)
THEOREM LatchesInvariant == Spec => []IInv
<1>1. Init => IInv
  BY InitInvariant
<1>2. IInv /\ [Next]_vars => IInv'
  BY NextKeepsInvariant
<1> QED BY <1>1, <1>2, PTL DEF Spec

(* A dispatcher is only entered for an NMI edge that no handler has        *)
(* answered (serviceNMI, serviceVector).                                   *)
THEOREM EveryNmiHasItsEdge == Spec => []NmiAnswersAnEdge
<1>1. IInv => NmiAnswersAnEdge
  BY DEF IInv, NmiLatches, NmiAnswersAnEdge
<1> QED BY <1>1, LatchesInvariant, PTL

(* At most one whole instruction begins before the handler of an edge.     *)
THEOREM NmisAreAnswered == Spec => []NmiPrompt
<1>1. IInv => NmiPrompt
  BY DEF IInv, NmiOnItsWay, NmiPrompt
<1> QED BY <1>1, LatchesInvariant, PTL

(* The same for an IRQ line that is held while I is clear, also over taken *)
(* branches and DMA windows.                                               *)
THEOREM IrqsAreAnswered == Spec => []IrqPrompt
<1>1. IInv => IrqPrompt
  BY DEF IInv, IrqOnItsWay, IrqPrompt
<1> QED BY <1>1, LatchesInvariant, PTL

(* No IRQ interrupts a handler that has not cleared I.                     *)
THEOREM HandlersAreMasked == Spec => []IrqsDoNotNest
<1>1. IInv => IrqsDoNotNest
  BY DEF IInv, Masked, Handled, Typed, Ops, BusCycles, IrqsDoNotNest
<1> QED BY <1>1, LatchesInvariant, PTL

(* The dispatch ends with both due latches down, so that the first         *)
(* instruction of the handler runs.                                        *)
THEOREM HandlersBegin == Spec => HandlerRunsFirst
<1> DEFINE A == (op \in {"nmi", "irq", "brk"} /\ op' = "none")
                  => ~(poll'.nmiDue \/ poll'.irqDue)
<1>1. IInv /\ [Next]_vars => [A]_vars
  <2>1. SUFFICES ASSUME IInv, Next, op \in Handled, op' = "none"
                 PROVE  ~(poll'.nmiDue \/ poll'.irqDue)
    BY DEF Handled
  <2>2. op # "none" /\ op # op'
    BY <2>1 DEF Handled
  <2>3. Cycle
    BY <2>1, <2>2 DEF Next, StepNmi, StepIrq, StepInstruction, Reset, DmaHalt,
       DmaSampleRead, DmaSpriteRead, DmaSpriteWrite, DmaDummyRead, DmaCycle
  <2>4. Len(BusCycles[op]) = 7 /\ done \in Nat
    BY <2>1, OpsLength DEF IInv, Typed
  <2>5. done = 6
    BY <2>2, <2>3, <2>4 DEF Cycle, Last
  <2>6. ~poll.irqPollPrev
    BY <2>1, <2>5 DEF IInv, InDispatch
  <2>7. \E rises \in BOOLEAN : Effect(op, 7, rises)
    BY <2>1, <2>3, <2>5, CycleEffect DEF IInv
  <2> QED BY <2>1, <2>6, <2>7 DEF Effect
<1> HIDE DEF A
<1>2. Spec => [][A]_vars
  BY <1>1, LatchesInvariant, PTL DEF Spec
<1> QED BY <1>2 DEF A, HandlerRunsFirst

(***************************************************************************)
(* DMA: the inductive invariant                                            *)
(***************************************************************************)
Windows ==
  [on : BOOLEAN, spriteDmaCounter : 0 .. 2 * SpriteBytes, spriteReadAddr : Byte,
   readValue : Values, oam : Seq(Values), length : Nat, start : Bit,
   kinds : SUBSET {"sprite", "dmc", "abort"}]

DmaTyped ==
  /\ dma \in Dma /\ cycles \in [total : Bit, instr : Bit] /\ parity \in Bit
  /\ window \in Windows

(* A window is open before a read only, and at rest when closed; whatever  *)
(* was asked for waits behind a halt or in the window; an abort is of a    *)
(* request that stands and is no longer wanted.                            *)
Requested ==
  /\ window.on => BeforeRead
  /\ ~window.on => window = NoWindow
  /\ dma.sprite \/ dma.dmc => window.on \/ dma.needHalt
  /\ dma.needHalt => dma.sprite \/ dma.dmc
  /\ seen.asked => dma.dmc
  /\ dma.abort => dma.dmc /\ ~seen.asked
  /\ dma.dmc /\ ~window.on => dma.needDummyRead

(* The page so far: k bytes are stored, and the next one is read or about  *)
(* to be.  A byte read waits for the put cycle that follows at once.       *)
Copied ==
  LET k == Len(window.oam)
      c == window.spriteDmaCounter
  IN  /\ \A i \in 1 .. k : window.oam[i] = i - 1
      /\ \/ c = 2 * k
         \/ c = 2 * k + 1 /\ ~GetCycle /\ dma.sprite /\ window.readValue = k
      /\ dma.sprite => c < 2 * SpriteBytes
      /\ ~dma.sprite => c = 0 \/ c = 2 * SpriteBytes
      /\ c = 2 * k /\ k < SpriteBytes => window.spriteReadAddr = k
      /\ c = 2 * k + 1 /\ k + 1 < SpriteBytes => window.spriteReadAddr = k + 1
      /\ "sprite" \in window.kinds <=> c >= 2

(* Cycles lags behind by the cycles of the instruction that runs, which    *)
(* instrCycles counts, but for a dispatch; a window counts its own.        *)
Clocked ==
  /\ parity = (cycles.total + done) % 2
  /\ op \in Instructions => cycles.instr = done % 2
  /\ window.on => /\ window.length >= 1
                  /\ parity = (window.start + window.length) % 2

(* A window that only fetches a sample: halt, dummy read, at most one      *)
(* alignment, read.                                                        *)
SampleTimed ==
  ~dma.sprite /\ window.spriteDmaCounter = 0 =>
    \/ /\ window.kinds = {} /\ dma.dmc /\ ~dma.needHalt
       /\ \/ dma.needDummyRead /\ window.length = 1
          \/ ~dma.needDummyRead /\ window.length = 2
          \/ ~dma.needDummyRead /\ window.length = 3 /\ window.start = 1
    \/ window.kinds = {"dmc"} /\ ~dma.dmc /\ window.length = 3 + window.start

(* A window that only copies a page: halt, at most one alignment, then a   *)
(* read or a write in every cycle.                                         *)
SpriteTimed ==
  ~dma.dmc /\ window.kinds \subseteq {"sprite"} =>
    \/ window.start = 1 /\ window.length = 1 + window.spriteDmaCounter
    \/ window.start = 0 /\ window.length = 2 + window.spriteDmaCounter
    \/ window.start = 0 /\ window.length = 1 /\ window.spriteDmaCounter = 0

Timed ==
  window.on /\ op \in Instructions /\ "abort" \notin window.kinds =>
    SampleTimed /\ SpriteTimed

DmaInv == DmaTyped /\ Requested /\ Copied /\ Clocked /\ Timed

(***************************************************************************)
(* What a cycle does to the requests                                       *)
(***************************************************************************)
LEMMA OneCycle ==
  ASSUME NEW o, NEW n, NEW e, EndCycle(o, n, e)
  PROVE  parity' = 1 - parity /\ seen'.asked = e.asked
BY DEF EndCycle

(* The flags `new` are `old` with what the APU did in the cycle: req, it   *)
(* asked for a sample, abt, it cancelled the fetch.                        *)
Requests(new, old, req, abt) ==
  /\ new \in Dma
  /\ req => MayRequest
  /\ abt => MayAbort /\ ~req
  /\ new.sprite <=> old.sprite
  /\ new.dmc <=> old.dmc \/ req
  /\ new.abort <=> old.abort \/ abt
  /\ new.needHalt <=> old.needHalt \/ req
  /\ new.needDummyRead <=> old.needDummyRead \/ req

LEMMA DmcEventsRequest ==
  ASSUME NEW d \in Dma, NEW e \in DmcEvents(d), seen.asked \in BOOLEAN
  PROVE  \E req, abt \in BOOLEAN :
           /\ Requests(e.dma, d, req, abt)
           /\ e.asked \in BOOLEAN
           /\ e.asked <=> (seen.asked \/ req) /\ ~abt
<1>1. CASE e = [dma |-> d, asked |-> seen.asked, fetches |-> seen.fetches]
  <2>1. Requests(e.dma, d, FALSE, FALSE)
    BY <1>1 DEF Requests
  <2>2. e.asked \in BOOLEAN /\ (e.asked <=> (seen.asked \/ FALSE) /\ ~FALSE)
    BY <1>1
  <2> QED BY <2>1, <2>2
<1>2. CASE /\ MayRequest
           /\ e = [dma |-> SetNeedDmcDma(d), asked |-> TRUE,
                   fetches |-> seen.fetches + 1]
  <2>1. Requests(e.dma, d, TRUE, FALSE)
    BY <1>2 DEF Requests, SetNeedDmcDma, Dma
  <2>2. e.asked \in BOOLEAN /\ (e.asked <=> (seen.asked \/ TRUE) /\ ~FALSE)
    BY <1>2
  <2> QED BY <2>1, <2>2
<1>3. CASE /\ MayAbort
           /\ e = [dma |-> AbortDmcDma(d), asked |-> FALSE,
                   fetches |-> seen.fetches]
  <2>1. Requests(e.dma, d, FALSE, TRUE)
    BY <1>3 DEF Requests, AbortDmcDma, Dma
  <2>2. e.asked \in BOOLEAN /\ (e.asked <=> (seen.asked \/ FALSE) /\ ~TRUE)
    BY <1>3
  <2> QED BY <2>1, <2>2
<1> QED BY <1>1, <1>2, <1>3 DEF DmcEvents

(* A window that is closed has copied nothing. *)
LEMMA ClosedKeeps ==
  ASSUME window' = NoWindow
  PROVE  /\ window' \in Windows
         /\ Copied' /\ Timed'
<1>1. SpriteBytes \in Nat \ {0}
  BY NesAssumption
<1>2. /\ window'.on = FALSE /\ window'.spriteDmaCounter = 0
      /\ window'.spriteReadAddr = 0 /\ window'.oam = <<>> /\ window'.kinds = {}
  BY DEF NoWindow
<1>3. window' \in Windows
  <2>1. Nothing \in Values /\ 0 \in Byte /\ <<>> \in Seq(Values)
    BY <1>1 DEF Values, Nothing, Byte
  <2> QED BY <1>1, <2>1 DEF NoWindow, Windows, Bit
<1>4. Copied'
  BY <1>1, <1>2 DEF Copied
<1>5. Timed'
  BY <1>2 DEF Timed
<1> QED BY <1>3, <1>4, <1>5

(***************************************************************************)
(* DMA: the boundary, and the cycles of an operation                       *)
(***************************************************************************)
(* At the boundary no window is open, and Cycles is up to date.            *)
LEMMA AtBoundary ==
  ASSUME IInv, DmaInv, op = "none"
  PROVE  /\ ~window.on /\ window = NoWindow
         /\ done = 0 /\ parity = cycles.total
<1>1. ~window.on /\ window = NoWindow
  BY DEF DmaInv, Requested, BeforeRead
<1>2. done = 0
  BY DEF IInv, Typed
<1>3. parity = cycles.total
  BY <1>2 DEF DmaInv, DmaTyped, Clocked, Bit
<1> QED BY <1>1, <1>2, <1>3

(* What Step begins leaves the requests alone. *)
LEMMA BoundaryKeepsDma ==
  ASSUME IInv, DmaInv, op = "none", NEW o \in Ops, Begin(o),
         seen'.asked = seen.asked,
         cycles' \in [total : Bit, instr : Bit], parity' = cycles'.total,
         o \in Instructions => cycles'.instr = 0
  PROVE  DmaInv'
<1>1. /\ op' = o /\ done' = 0 /\ dma' = dma
      /\ window = NoWindow /\ window' = NoWindow /\ ~window'.on /\ ~window.on
  BY AtBoundary DEF Begin
<1>2. window' \in Windows /\ Copied' /\ Timed'
  BY <1>1, ClosedKeeps
<1>3. DmaTyped'
  BY <1>1, <1>2 DEF DmaInv, DmaTyped
<1>4. Requested'
  BY <1>1 DEF DmaInv, Requested
<1>5. Clocked'
  BY <1>1, <1>3 DEF Clocked, DmaTyped, Bit
<1> QED BY <1>2, <1>3, <1>4, <1>5 DEF DmaInv

LEMMA StepKeepsDma ==
  ASSUME IInv, DmaInv, StepNmi \/ StepIrq \/ StepInstruction \/ Reset
  PROVE  DmaInv'
<1>1. op = "none" /\ seen'.asked = seen.asked
  BY DEF StepNmi, StepIrq, StepInstruction, Reset, IInv, Typed, Seen
<1>2. /\ parity = cycles.total /\ parity \in Bit
      /\ cycles \in [total : Bit, instr : Bit]
  BY <1>1, AtBoundary DEF DmaInv, DmaTyped
<1>3. CASE StepNmi \/ StepIrq
  <2>1. \E o \in Ops \ Instructions : Begin(o)
    BY <1>3, OpsLength DEF StepNmi, StepIrq, Instructions
  <2>2. cycles' = cycles /\ parity' = parity
    BY <1>3 DEF StepNmi, StepIrq
  <2> QED BY <1>1, <1>2, <2>1, <2>2, BoundaryKeepsDma
<1>4. CASE StepInstruction
  <2>1. PICK o \in setting.ops : Begin(o)
    BY <1>4 DEF StepInstruction
  <2>2. o \in Ops
    BY NesAssumption DEF IInv, Typed, Setting, Instructions
  <2>3. cycles' = [cycles EXCEPT !.instr = 0] /\ parity' = parity
    BY <1>4 DEF StepInstruction
  <2>4. /\ cycles' \in [total : Bit, instr : Bit] /\ parity' = cycles'.total
        /\ cycles'.instr = 0
    BY <1>2, <2>3 DEF Bit
  <2> QED BY <1>1, <2>1, <2>2, <2>4, BoundaryKeepsDma
<1>5. CASE Reset
  <2>1. Begin("reset") /\ "reset" \in Ops /\ "reset" \notin Instructions
    BY <1>5, OpsLength DEF Reset, Instructions
  <2>2. cycles' = [cycles EXCEPT !.total = 1] /\ parity' = 1
    BY <1>5 DEF Reset
  <2>3. cycles' \in [total : Bit, instr : Bit] /\ parity' = cycles'.total
    BY <1>2, <2>2 DEF Bit
  <2> QED BY <1>1, <2>1, <2>3, BoundaryKeepsDma
<1> QED BY <1>3, <1>4, <1>5

LEMMA Parity ==
  ASSUME NEW n \in Nat
  PROVE  n % 2 \in Bit /\ (n + 1) % 2 = 1 - (n % 2)
BY DEF Bit

LEMMA EvenOdd ==
  ASSUME NEW n \in Nat
  PROVE  /\ (2 * n) % 2 = 0 /\ (2 * n + 1) % 2 = 1
         /\ 2 * n # 2 * n + 1
OBVIOUS

(* One cycle more, within an operation and at its end.                     *)
LEMMA CountedKeeps ==
  ASSUME IInv, DmaInv, Cycle
  PROVE  /\ cycles' \in [total : Bit, instr : Bit] /\ parity' \in Bit
         /\ parity' = (cycles'.total + done') % 2
         /\ op' \in Instructions => cycles'.instr = done' % 2
<1>1. PICK e : EndCycle(op, done + 1, e)
  BY DEF Cycle
<1>2. parity' = 1 - parity
  BY <1>1, OneCycle
<1>3. /\ op # "none" /\ op \in Ops /\ done \in Nat
      /\ parity \in Bit /\ cycles.total \in Bit /\ cycles.instr \in Bit
      /\ cycles \in [total : Bit, instr : Bit]
      /\ parity = (cycles.total + done) % 2
      /\ op \in Instructions => cycles.instr = done % 2
  BY DEF Cycle, IInv, Typed, DmaInv, DmaTyped, Clocked
<1> DEFINE len == Len(BusCycles[op])
<1>4. len \in Nat
  BY <1>3, OpsLength
<1>5. cycles' = [total |-> IF done + 1 = len THEN (cycles.total + len) % 2
                          ELSE cycles.total,
                 instr |-> 1 - cycles.instr]
  BY DEF Cycle, Counted, Last
<1>6. CASE done + 1 = len
  <2>1. op' = "none" /\ done' = 0
    BY <1>6 DEF Cycle, Last
  <2>2. "none" \notin Instructions
    BY OpsLength DEF Instructions
  <2> HIDE DEF len
  <2>3. cycles'.total = (cycles.total + len) % 2 /\ cycles'.instr = 1 - cycles.instr
    BY <1>5, <1>6
  <2>4. 1 - parity = (cycles.total + len) % 2
    BY <1>3, <1>6 DEF Bit
  <2>5. cycles'.total \in Bit /\ cycles'.instr \in Bit /\ parity' \in Bit
    <3>1. cycles.total + len \in Nat
      BY <1>3, <1>4 DEF Bit
    <3>2. cycles'.total \in Bit
      BY <2>3, <3>1, Parity
    <3> QED BY <1>2, <1>3, <2>3, <3>2 DEF Bit
  <2>6. parity' = (cycles'.total + done') % 2
    BY <1>2, <1>3, <2>1, <2>3, <2>4, <2>5 DEF Bit
  <2> QED BY <1>5, <2>1, <2>2, <2>5, <2>6
<1>7. CASE done + 1 # len
  <2>1. op' = op /\ done' = done + 1
    BY <1>7 DEF Cycle, Last
  <2>2. cycles'.total = cycles.total /\ cycles'.instr = 1 - cycles.instr
    BY <1>5, <1>7
  <2>3. /\ 1 - parity = (cycles.total + (done + 1)) % 2
        /\ op \in Instructions => 1 - cycles.instr = (done + 1) % 2
        /\ 1 - parity \in Bit /\ 1 - cycles.instr \in Bit
    <3>1. cycles.total + done \in Nat /\ done + 1 \in Nat
      BY <1>3 DEF Bit
    <3>2. cycles.total + (done + 1) = (cycles.total + done) + 1
      BY <1>3 DEF Bit
    <3>3. (cycles.total + (done + 1)) % 2 = 1 - ((cycles.total + done) % 2)
      BY <3>1, <3>2, Parity
    <3>4. (done + 1) % 2 = 1 - (done % 2)
      BY <1>3, Parity
    <3>5. 1 - parity \in Bit /\ 1 - cycles.instr \in Bit
      BY <1>3 DEF Bit
    <3> QED BY <1>3, <3>3, <3>4, <3>5
  <2> QED BY <1>2, <1>3, <1>5, <2>1, <2>2, <2>3
<1> QED BY <1>6, <1>7

(* A cycle of an operation closes the window once nothing is pending, and  *)
(* what it or the APU asks for then waits behind a halt.                   *)
LEMMA CycleKeepsDma ==
  ASSUME IInv, DmaInv, Cycle
  PROVE  DmaInv'
<1>1. PICK e \in DmcEvents(dma) :
        /\ dma' \in BusWrites(e.dma)
        /\ EndCycle(op, done + 1, [e EXCEPT !.fetches = IF window.on THEN 0 ELSE @])
  BY DEF Cycle
<1>2. dma \in Dma /\ seen.asked \in BOOLEAN
  BY DEF DmaInv, DmaTyped, IInv, Typed, Seen
<1>3. PICK req \in BOOLEAN, abt \in BOOLEAN :
        /\ Requests(e.dma, dma, req, abt)
        /\ e.asked \in BOOLEAN
        /\ e.asked <=> (seen.asked \/ req) /\ ~abt
  BY <1>2, DmcEventsRequest
<1>4. seen'.asked <=> (seen.asked \/ req) /\ ~abt
  <2> DEFINE f == [e EXCEPT !.fetches = IF window.on THEN 0 ELSE @]
  <2>1. f.asked = e.asked /\ EndCycle(op, done + 1, f)
    BY <1>1 DEF DmcEvents
  <2> HIDE DEF f
  <2>2. seen'.asked = e.asked
    BY <2>1, OneCycle
  <2> QED BY <1>3, <2>2
<1>5. window.on => ~dma.sprite /\ ~dma.dmc
  BY DEF Cycle, MayRead, WindowDone, DmaInv, Requested, BeforeRead
<1>6. CASE dma' = e.dma
  <2>1. window' = NoWindow /\ ~window'.on
    BY DEF Cycle, NoWindow
  <2>2. dma' \in Dma /\ Requested'
    BY <1>3, <1>4, <1>5, <1>6, <2>1
    DEF Requests, MayRequest, MayAbort, DmaInv, Requested
  <2> QED BY <2>1, <2>2, ClosedKeeps, CountedKeeps DEF DmaInv, DmaTyped, Clocked
<1>7. CASE dma' = SetNeedSpriteDma(e.dma)
  <2>1. window' = NoWindow /\ ~window'.on
    BY DEF Cycle, NoWindow
  <2>2. /\ dma' \in Dma /\ dma'.sprite /\ dma'.needHalt
        /\ dma'.dmc = e.dma.dmc /\ dma'.abort = e.dma.abort
        /\ dma'.needDummyRead = e.dma.needDummyRead
    BY <1>3, <1>7 DEF Requests, SetNeedSpriteDma, Dma
  <2>3. Requested'
    BY <1>3, <1>4, <1>5, <2>1, <2>2
    DEF Requests, MayRequest, MayAbort, DmaInv, Requested
  <2> QED BY <2>1, <2>2, <2>3, ClosedKeeps, CountedKeeps DEF DmaInv, DmaTyped, Clocked
<1> QED BY <1>1, <1>6, <1>7 DEF BusWrites

(***************************************************************************)
(* DMA: the halt, and the cycles of the loop                               *)
(***************************************************************************)
(* A stolen cycle moves Cycles and the clock alike.                        *)
LEMMA StolenKeepsClock ==
  ASSUME IInv, DmaInv, op # "none", UNCHANGED <<op, done>>,
         cycles' = Stolen(cycles), parity' = 1 - parity
  PROVE  /\ cycles' \in [total : Bit, instr : Bit] /\ parity' \in Bit
         /\ parity' = (cycles'.total + done') % 2
         /\ op' \in Instructions => cycles'.instr = done' % 2
         /\ GetCycle' <=> ~GetCycle
<1>1. /\ done \in Nat /\ parity \in Bit
      /\ cycles.total \in Bit /\ cycles.instr \in Bit
      /\ cycles \in [total : Bit, instr : Bit]
      /\ parity = (cycles.total + done) % 2
      /\ op \in Instructions => cycles.instr = done % 2
  BY DEF IInv, Typed, DmaInv, DmaTyped, Clocked
<1>2. /\ cycles' \in [total : Bit, instr : Bit] /\ parity' \in Bit
      /\ cycles'.total = 1 - cycles.total /\ cycles'.instr = cycles.instr
  BY <1>1 DEF Stolen, Bit
<1>3. ((1 - cycles.total) + done) % 2 = 1 - parity
  <2>1. CASE cycles.total = 0
    BY <1>1, <2>1, Parity
  <2>2. CASE cycles.total = 1
    <3>1. parity = 1 - (done % 2) /\ done % 2 \in Bit
      BY <1>1, <2>2, Parity
    <3> QED BY <1>1, <2>2, <3>1 DEF Bit
  <2> QED BY <1>1, <2>1, <2>2 DEF Bit
<1>4. GetCycle' <=> ~GetCycle
  <2>1. /\ GetCycle <=> (cycles.total + cycles.instr) % 2 = 0
        /\ GetCycle' <=> ((1 - cycles.total) + cycles.instr) % 2 = 0
    BY <1>2 DEF GetCycle
  <2>2. CASE cycles.total = 0 /\ cycles.instr = 0
    BY <2>1, <2>2
  <2>3. CASE cycles.total = 0 /\ cycles.instr = 1
    BY <2>1, <2>3
  <2>4. CASE cycles.total = 1 /\ cycles.instr = 0
    BY <2>1, <2>4
  <2>5. CASE cycles.total = 1 /\ cycles.instr = 1
    BY <2>1, <2>5
  <2> QED BY <1>1, <2>2, <2>3, <2>4, <2>5 DEF Bit
<1> QED BY <1>1, <1>2, <1>3, <1>4

(* Within an instruction the core takes the parity for the clock's.        *)
LEMMA GetFollowsClock ==
  ASSUME IInv, DmaInv, op \in Instructions
  PROVE  GetCycle <=> parity = 0
<1>1. /\ done \in Nat /\ cycles.total \in Bit
      /\ parity = (cycles.total + done) % 2 /\ cycles.instr = done % 2
  BY DEF IInv, Typed, DmaInv, DmaTyped, Clocked
<1>2. (cycles.total + (done % 2)) % 2 = (cycles.total + done) % 2
  <2>1. done % 2 \in Bit /\ (done + 1) % 2 = 1 - (done % 2)
    BY <1>1, Parity
  <2>2. CASE cycles.total = 0
    BY <1>1, <2>1, <2>2 DEF Bit
  <2>3. CASE cycles.total = 1
    <3>1. (1 + done) % 2 = 1 - (done % 2)
      BY <1>1, <2>1
    <3> QED BY <1>1, <2>1, <2>3, <3>1 DEF Bit
  <2> QED BY <1>1, <2>2, <2>3 DEF Bit
<1> QED BY <1>1, <1>2 DEF GetCycle

LEMMA HaltKeepsDma ==
  ASSUME IInv, DmaInv, DmaHalt
  PROVE  DmaInv'
<1> DEFINE d == [dma EXCEPT !.needHalt = FALSE]
<1>1. PICK e \in DmcEvents(d) : dma' = e.dma /\ EndCycle("none", 0, e)
  BY DEF DmaHalt
<1>2. /\ dma \in Dma /\ seen.asked \in BOOLEAN /\ parity \in Bit
      /\ SpriteBytes \in Nat \ {0}
  BY NesAssumption DEF DmaInv, DmaTyped, IInv, Typed, Seen
<1>3. /\ d \in Dma /\ ~d.needHalt
      /\ d.sprite = dma.sprite /\ d.dmc = dma.dmc /\ d.abort = dma.abort
      /\ d.needDummyRead = dma.needDummyRead
  BY <1>2 DEF Dma
<1> HIDE DEF d
<1>4. PICK req \in BOOLEAN, abt \in BOOLEAN :
        /\ Requests(dma', d, req, abt)
        /\ seen'.asked <=> (seen.asked \/ req) /\ ~abt
  BY <1>1, <1>2, <1>3, DmcEventsRequest, OneCycle
<1>5. /\ BeforeRead /\ ~window.on /\ dma.needHalt
      /\ op # "none" /\ op' = op /\ done' = done /\ cycles' = Stolen(cycles)
  BY DEF DmaHalt, BeforeRead
<1>6. parity' = 1 - parity
  BY <1>1, OneCycle
<1>7. /\ window'.on = TRUE /\ window'.spriteDmaCounter = 0
      /\ window'.spriteReadAddr = 0 /\ window'.oam = <<>> /\ window'.kinds = {}
      /\ window'.length = 1 /\ window'.start = parity
  BY DEF DmaHalt, NoWindow
<1>8. window' \in Windows
  <2>1. Nothing \in Values /\ 0 \in Byte /\ <<>> \in Seq(Values)
    BY <1>2 DEF Values, Nothing, Byte
  <2>2. window' = [on |-> TRUE, spriteDmaCounter |-> 0, spriteReadAddr |-> 0,
                   readValue |-> Nothing, oam |-> <<>>, length |-> 1,
                   start |-> parity, kinds |-> {}]
    BY DEF DmaHalt, NoWindow
  <2> QED BY <1>2, <2>1, <2>2 DEF Windows
<1>9. dma' \in Dma /\ Requested'
  BY <1>3, <1>4, <1>5, <1>7
  DEF Requests, MayRequest, MayAbort, DmaInv, Requested, BeforeRead
<1>10. Copied'
  BY <1>2, <1>7 DEF Copied
<1>11. /\ cycles' \in [total : Bit, instr : Bit] /\ parity' \in Bit
       /\ parity' = (cycles'.total + done') % 2
       /\ op' \in Instructions => cycles'.instr = done' % 2
  BY <1>5, <1>6, StolenKeepsClock
<1>12. Clocked'
  <2>1. parity' = (window'.start + window'.length) % 2
    BY <1>2, <1>6, <1>7 DEF Bit
  <2> QED BY <1>7, <1>11, <2>1 DEF Clocked
<1>13. Timed'
  <2>1. SampleTimed'
    <3>1. ~dma'.sprite => dma.dmc /\ dma.needDummyRead
      BY <1>3, <1>4, <1>5 DEF Requests, DmaInv, Requested
    <3>2. ~dma'.sprite => dma'.dmc /\ ~dma'.needHalt /\ dma'.needDummyRead
      BY <1>3, <1>4, <3>1 DEF Requests, MayRequest
    <3> QED BY <1>7, <3>2 DEF SampleTimed
  <2>2. SpriteTimed'
    BY <1>2, <1>7 DEF SpriteTimed, Bit
  <2> QED BY <2>1, <2>2 DEF Timed
<1> QED BY <1>8, <1>9, <1>10, <1>11, <1>12, <1>13 DEF DmaInv, DmaTyped

(* A cycle of the loop: what dmaProcessCycle settles, what the APU does,   *)
(* and what the body of the loop clears at its end.                        *)
Settled(flags, delivered, req, abt) ==
  /\ req => MayRequest
  /\ abt => MayAbort /\ ~req
  /\ dma' \in Dma
  /\ dma'.sprite <=> dma.sprite /\ "sprite" \notin flags
  /\ dma'.dmc <=> ((dma.dmc /\ ~dma.abort) \/ req) /\ "dmc" \notin flags
  /\ dma'.abort <=> abt /\ "abort" \notin flags
  /\ dma'.needHalt <=> req
  /\ dma'.needDummyRead <=>
       req \/ (dma.needDummyRead /\ dma.needHalt /\ ~dma.abort)
  /\ seen'.asked <=> (seen.asked \/ req) /\ ~abt /\ ~delivered

LEMMA LoopSettles ==
  ASSUME IInv, DmaInv, NEW w, NEW flags \in SUBSET {"sprite", "dmc", "abort"},
         NEW delivered \in BOOLEAN, DmaCycle(w, flags, delivered)
  PROVE  /\ \E req, abt \in BOOLEAN : Settled(flags, delivered, req, abt)
         /\ parity' = 1 - parity
<1> DEFINE d == Processed(dma)
<1>1. PICK e \in DmcEvents(d) :
        /\ dma' = Cleared(e.dma, flags)
        /\ EndCycle("none", 0, [e EXCEPT !.asked = @ /\ ~delivered])
  BY DEF DmaCycle
<1>2. dma \in Dma /\ seen.asked \in BOOLEAN /\ (dma.abort => dma.dmc /\ ~seen.asked)
  BY DEF DmaInv, DmaTyped, IInv, Typed, Seen, Requested
<1>3. /\ d \in Dma /\ ~d.needHalt /\ ~d.abort
      /\ d.sprite <=> dma.sprite
      /\ d.dmc <=> dma.dmc /\ ~dma.abort
      /\ d.needDummyRead <=> dma.needDummyRead /\ dma.needHalt /\ ~dma.abort
  <2>1. CASE dma.abort
    BY <1>2, <2>1 DEF Processed, Dma
  <2>2. CASE ~dma.abort /\ dma.needHalt
    BY <1>2, <2>2 DEF Processed, Dma
  <2>3. CASE ~dma.abort /\ ~dma.needHalt
    BY <1>2, <2>3 DEF Processed, Dma
  <2> QED BY <2>1, <2>2, <2>3
<1> HIDE DEF d
<1>4. PICK req \in BOOLEAN, abt \in BOOLEAN :
        /\ Requests(e.dma, d, req, abt)
        /\ e.asked \in BOOLEAN
        /\ e.asked <=> (seen.asked \/ req) /\ ~abt
  BY <1>2, <1>3, DmcEventsRequest
<1>5. /\ dma' \in Dma
      /\ dma'.sprite <=> e.dma.sprite /\ "sprite" \notin flags
      /\ dma'.dmc <=> e.dma.dmc /\ "dmc" \notin flags
      /\ dma'.abort <=> e.dma.abort /\ "abort" \notin flags
      /\ dma'.needHalt <=> e.dma.needHalt
      /\ dma'.needDummyRead <=> e.dma.needDummyRead
  BY <1>1, <1>4 DEF Requests, Cleared, Dma
<1> DEFINE f == [e EXCEPT !.asked = @ /\ ~delivered]
<1>6. (f.asked <=> e.asked /\ ~delivered) /\ EndCycle("none", 0, f)
  BY <1>1 DEF DmcEvents
<1> HIDE DEF f
<1>7. parity' = 1 - parity /\ (seen'.asked <=> e.asked /\ ~delivered)
  BY <1>6, OneCycle
<1>8. Settled(flags, delivered, req, abt)
  BY <1>3, <1>4, <1>5, <1>7 DEF Settled, Requests
<1> QED BY <1>7, <1>8

(* The window after a cycle that left it as w. *)
Extends(w) ==
  /\ window'.on = w.on /\ window'.start = w.start
  /\ window'.spriteDmaCounter = w.spriteDmaCounter
  /\ window'.spriteReadAddr = w.spriteReadAddr
  /\ window'.readValue = w.readValue /\ window'.oam = w.oam
  /\ window'.length = w.length + 1
  /\ window'.kinds = w.kinds \cup IF dma.abort THEN {"abort"} ELSE {}

(* What every cycle of the loop keeps, whatever it transfers.              *)
LEMMA LoopCommon ==
  ASSUME IInv, DmaInv, InWindow, NEW w \in Windows, NEW delivered \in BOOLEAN,
         w.on, w.start = window.start, w.length = window.length,
         NEW flags \in {{}, SampleFetched, {"sprite"}},
         flags = SampleFetched => delivered /\ dma.dmc,
         DmaCycle(w, flags, delivered)
  PROVE  /\ \E req, abt \in BOOLEAN : Settled(flags, delivered, req, abt)
         /\ Extends(w) /\ op' = op /\ (GetCycle' <=> ~GetCycle)
         /\ DmaTyped' /\ Requested' /\ Clocked'
<1>1. /\ op # "none" /\ op' = op /\ done' = done /\ window.on
      /\ cycles' = Stolen(cycles)
      /\ window' = [w EXCEPT !.length = @ + 1,
                             !.kinds = @ \cup IF dma.abort THEN {"abort"} ELSE {}]
  BY DEF DmaCycle, InWindow, BeforeRead
<1>2. flags \in SUBSET {"sprite", "dmc", "abort"}
  BY DEF SampleFetched
<1>3. PICK req \in BOOLEAN, abt \in BOOLEAN : Settled(flags, delivered, req, abt)
  BY <1>2, LoopSettles
<1>4. parity' = 1 - parity
  BY <1>2, LoopSettles
<1>5. Extends(w) /\ window' \in Windows
  <2>1. Extends(w)
    BY <1>1 DEF Extends, Windows
  <2>2. w.length + 1 \in Nat
    BY DEF Windows
  <2>3. w.kinds \cup (IF dma.abort THEN {"abort"} ELSE {}) \in SUBSET {"sprite", "dmc", "abort"}
    BY DEF Windows
  <2> QED BY <1>1, <2>1, <2>2, <2>3 DEF Windows
<1>6. /\ cycles' \in [total : Bit, instr : Bit] /\ parity' \in Bit
      /\ parity' = (cycles'.total + done') % 2
      /\ op' \in Instructions => cycles'.instr = done' % 2
      /\ GetCycle' <=> ~GetCycle
  BY <1>1, <1>4, StolenKeepsClock
<1>7. DmaTyped'
  BY <1>3, <1>5, <1>6 DEF DmaTyped, Settled
<1>8. Requested'
  <2>1. window'.on /\ BeforeRead'
    BY <1>1, <1>5 DEF Extends, InWindow, BeforeRead
  <2>2. CASE "dmc" \notin flags
    <3>1. dma'.needHalt \/ seen'.asked \/ dma'.abort => dma'.dmc
      BY <1>3, <2>2
      DEF Settled, MayRequest, MayAbort, DmaInv, Requested
    <3>2. dma'.abort => ~seen'.asked
      BY <1>3, <2>2 DEF Settled
    <3> QED BY <2>1, <3>1, <3>2 DEF Requested
  <2>3. CASE "dmc" \in flags
    <3>1. flags = SampleFetched /\ delivered /\ dma.dmc
      BY <2>3
    <3>2. ~req /\ ~dma'.needHalt /\ ~seen'.asked /\ ~dma'.abort
      BY <1>3, <3>1 DEF Settled, MayRequest, SampleFetched
    <3> QED BY <2>1, <3>2 DEF Requested
  <2> QED BY <2>2, <2>3
<1>9. Clocked'
  <2>1. /\ window.length \in Nat /\ window.length >= 1 /\ window.start \in Bit
        /\ parity = (window.start + window.length) % 2
    BY <1>1 DEF DmaInv, DmaTyped, Windows, Clocked
  <2>2. window'.start + window'.length = (window.start + window.length) + 1
    BY <1>5, <2>1 DEF Extends, Bit
  <2>3. parity' = (window'.start + window'.length) % 2
    <3>1. window.start + window.length \in Nat
      BY <2>1 DEF Bit
    <3> QED BY <1>4, <2>1, <2>2, <3>1, Parity
  <2>4. window'.length >= 1
    BY <1>5, <2>1 DEF Extends
  <2> QED BY <1>6, <2>3, <2>4 DEF Clocked
<1> QED BY <1>1, <1>3, <1>5, <1>6, <1>7, <1>8, <1>9

(* The state of a window that an instruction waits for.                    *)
LEMMA InInstruction ==
  ASSUME IInv, DmaInv, InWindow, op \in Instructions
  PROVE  /\ GetCycle <=> (window.start + window.length) % 2 = 0
         /\ window.length \in Nat /\ window.start \in Bit
         /\ window.spriteDmaCounter \in Nat
  BY GetFollowsClock DEF InWindow, DmaInv, DmaTyped, Windows, Clocked

(* A cycle that reads nothing of use. *)
LEMMA DummyKeepsDma ==
  ASSUME IInv, DmaInv, DmaDummyRead
  PROVE  DmaInv'
<1>1. /\ InWindow /\ DmaCycle(window, {}, FALSE)
      /\ IF GetCycle THEN ~SampleReady /\ ~dma.sprite
                     ELSE ~(dma.sprite /\ SpriteByteRead)
      /\ window \in Windows /\ window.on
  BY DEF DmaDummyRead, InWindow, DmaInv, DmaTyped
<1>2. /\ \E req, abt \in BOOLEAN : Settled({}, FALSE, req, abt)
      /\ Extends(window) /\ op' = op /\ (GetCycle' <=> ~GetCycle)
      /\ DmaTyped' /\ Requested' /\ Clocked'
  <2>1. {} # SampleFetched
    BY DEF SampleFetched
  <2> QED BY <1>1, <2>1, LoopCommon
<1>3. PICK req \in BOOLEAN, abt \in BOOLEAN : Settled({}, FALSE, req, abt)
  BY <1>2
<1> DEFINE c == window.spriteDmaCounter
           k == Len(window.oam)
<1>4. c \in Nat /\ k \in Nat /\ (dma'.sprite <=> dma.sprite)
  BY <1>1, <1>3 DEF Windows, Settled
<1>5. Copied'
  <2>1. c = 2 * k
    <3>1. SUFFICES ASSUME c = 2 * k + 1, ~GetCycle, dma.sprite PROVE FALSE
      BY DEF DmaInv, Copied
    <3>2. c % 2 = 1
      <4> HIDE DEF c, k
      <4> QED BY <1>4, <3>1, EvenOdd
    <3> QED BY <1>1, <3>1, <3>2 DEF SpriteByteRead
  <2>2. "sprite" \in window'.kinds <=> "sprite" \in window.kinds
    BY <1>2 DEF Extends
  <2> QED BY <1>2, <1>4, <2>1, <2>2 DEF Extends, DmaInv, Copied
<1>6. Timed'
  <2> SUFFICES ASSUME op \in Instructions, "abort" \notin window'.kinds
               PROVE  SampleTimed' /\ SpriteTimed'
    BY <1>2 DEF Timed
  <2>1. ~dma.abort /\ window'.kinds = window.kinds /\ "abort" \notin window.kinds
    BY <1>2 DEF Extends
  <2>2. SampleTimed /\ SpriteTimed
    BY <1>1, <2>1 DEF DmaInv, Timed
  <2>3. /\ GetCycle <=> (window.start + window.length) % 2 = 0
        /\ window.length \in Nat /\ window.start \in Bit
    BY <1>1, InInstruction
  <2>4. /\ window'.start = window.start /\ window'.length = window.length + 1
        /\ window'.spriteDmaCounter = c
    BY <1>2 DEF Extends
  <2>5. SampleTimed'
    <3> SUFFICES ASSUME ~dma.sprite, c = 0 PROVE SampleTimed'
      BY <1>4, <2>4 DEF SampleTimed
    <3>1. dma.dmc /\ window.kinds = {} /\ ~dma.needHalt
      BY <1>1, <2>2 DEF InWindow, SampleTimed
    <3>2. dma'.dmc /\ ~dma'.needHalt /\ ~dma'.needDummyRead
      BY <1>3, <2>1, <3>1 DEF Settled, MayRequest
    <3>3. CASE dma.needDummyRead /\ window.length = 1
      BY <2>1, <2>4, <3>1, <3>2, <3>3 DEF SampleTimed
    <3>4. CASE ~dma.needDummyRead /\ window.length = 2
      <4>1. ~GetCycle
        BY <1>1, <3>1, <3>4 DEF SampleReady
      <4>2. window.start = 1
        BY <2>3, <3>4, <4>1 DEF Bit
      <4> QED BY <2>1, <2>4, <3>1, <3>2, <3>4, <4>2 DEF SampleTimed
    <3>5. CASE ~dma.needDummyRead /\ window.length = 3 /\ window.start = 1
      <4>1. ~GetCycle
        BY <1>1, <3>1, <3>5 DEF SampleReady
      <4> QED BY <2>3, <3>5, <4>1
    <3> QED BY <2>2, <3>1, <3>3, <3>4, <3>5 DEF SampleTimed
  <2>6. SpriteTimed'
    <3> SUFFICES ASSUME ~dma'.dmc, window.kinds \subseteq {"sprite"}
                 PROVE  SpriteTimed'
      BY <2>1 DEF SpriteTimed
    <3>1. ~dma.dmc /\ dma.sprite /\ ~GetCycle
      BY <1>1, <1>3, <2>1 DEF Settled, InWindow
    <3>2. c = 2 * k
      BY <3>1, <1>1, <1>4 DEF DmaInv, Copied, SpriteByteRead
    <3>3. CASE window.start = 1 /\ window.length = 1 + c
      <4> HIDE DEF c, k
      <4>1. window.start + window.length = 2 * (k + 1)
        BY <1>4, <3>2, <3>3
      <4> QED BY <1>4, <2>3, <3>1, <4>1, EvenOdd
    <3>4. CASE window.start = 0 /\ window.length = 2 + c
      <4> HIDE DEF c, k
      <4>1. window.start + window.length = 2 * (k + 1)
        BY <1>4, <3>2, <3>4
      <4> QED BY <1>4, <2>3, <3>1, <4>1, EvenOdd
    <3>5. CASE window.start = 0 /\ window.length = 1 /\ c = 0
      BY <2>4, <3>5 DEF SpriteTimed
    <3> QED BY <2>2, <3>1, <3>3, <3>4, <3>5 DEF SpriteTimed
  <2> QED BY <2>5, <2>6
<1> QED BY <1>2, <1>5, <1>6 DEF DmaInv

(* The sample is read: the request is served, the page copy waits.         *)
LEMMA SampleKeepsDma ==
  ASSUME IInv, DmaInv, DmaSampleRead
  PROVE  DmaInv'
<1> DEFINE w == [window EXCEPT !.readValue = Sample, !.kinds = @ \cup {"dmc"}]
<1>1. /\ InWindow /\ GetCycle /\ SampleReady /\ DmaCycle(w, SampleFetched, TRUE)
      /\ window \in Windows /\ window.on
  BY DEF DmaSampleRead, InWindow, DmaInv, DmaTyped
<1>2. /\ w \in Windows /\ w.on = window.on /\ w.start = window.start
      /\ w.length = window.length
      /\ w.spriteDmaCounter = window.spriteDmaCounter
      /\ w.spriteReadAddr = window.spriteReadAddr /\ w.oam = window.oam
      /\ w.kinds = window.kinds \cup {"dmc"}
  <2>1. Sample \in Values
    BY DEF Values
  <2> QED BY <1>1, <2>1 DEF Windows
<1> HIDE DEF w
<1>3. /\ \E req, abt \in BOOLEAN : Settled(SampleFetched, TRUE, req, abt)
      /\ Extends(w) /\ op' = op /\ (GetCycle' <=> ~GetCycle)
      /\ DmaTyped' /\ Requested' /\ Clocked'
  BY <1>1, <1>2, LoopCommon DEF SampleReady
<1>4. (dma'.sprite <=> dma.sprite) /\ ~dma'.dmc
  BY <1>3 DEF Settled, SampleFetched
<1> DEFINE c == window.spriteDmaCounter
           k == Len(window.oam)
<1>5. Copied'
  <2>1. c = 2 * k
    BY <1>1 DEF DmaInv, Copied
  <2>2. "sprite" \in window'.kinds <=> "sprite" \in window.kinds
    BY <1>2, <1>3 DEF Extends
  <2> QED BY <1>2, <1>3, <1>4, <2>1, <2>2 DEF Extends, DmaInv, Copied
<1>6. Timed'
  <2> SUFFICES ASSUME op \in Instructions, "abort" \notin window'.kinds
               PROVE  SampleTimed' /\ SpriteTimed'
    BY <1>3 DEF Timed
  <2>1. /\ window'.kinds = window.kinds \cup {"dmc"}
        /\ "abort" \notin window.kinds
        /\ window'.start = window.start /\ window'.length = window.length + 1
        /\ window'.spriteDmaCounter = c
    BY <1>2, <1>3 DEF Extends
  <2>2. SampleTimed
    BY <1>1, <2>1 DEF DmaInv, Timed
  <2>3. /\ (window.start + window.length) % 2 = 0
        /\ window.length \in Nat /\ window.start \in Bit
    BY <1>1, InInstruction
  <2>4. SampleTimed'
    <3> SUFFICES ASSUME ~dma.sprite, c = 0
                 PROVE  window'.kinds = {"dmc"} /\ window'.length = 3 + window'.start
      BY <1>4, <2>1 DEF SampleTimed
    <3>1. /\ window.kinds = {} /\ ~dma.needDummyRead
          /\ window.length = 2 \/ (window.length = 3 /\ window.start = 1)
      BY <1>1, <2>2 DEF SampleReady, SampleTimed
    <3>2. window.length = 2 => window.start = 0
      BY <2>3 DEF Bit
    <3> QED BY <2>1, <3>1, <3>2
  <2>5. SpriteTimed'
    BY <2>1 DEF SpriteTimed
  <2> QED BY <2>4, <2>5
<1> QED BY <1>3, <1>5, <1>6 DEF DmaInv

(* The next byte of the page is read. *)
LEMMA ReadKeepsDma ==
  ASSUME IInv, DmaInv, DmaSpriteRead
  PROVE  DmaInv'
<1> DEFINE w == [window EXCEPT !.readValue = window.spriteReadAddr,
                               !.spriteReadAddr = (@ + 1) % SpriteBytes,
                               !.spriteDmaCounter = @ + 1]
           c == window.spriteDmaCounter
           k == Len(window.oam)
<1>1. /\ InWindow /\ GetCycle /\ dma.sprite /\ DmaCycle(w, {}, FALSE)
      /\ window \in Windows /\ window.on /\ SpriteBytes \in Nat \ {0}
  BY NesAssumption DEF DmaSpriteRead, InWindow, DmaInv, DmaTyped
<1>2. /\ c \in Nat /\ k \in Nat /\ c = 2 * k /\ k < SpriteBytes
      /\ window.spriteReadAddr = k
  <2>1. c \in Nat /\ k \in Nat
    BY <1>1 DEF Windows
  <2>2. c = 2 * k /\ c < 2 * SpriteBytes
    BY <1>1 DEF DmaInv, Copied
  <2>3. k < SpriteBytes
    <3> HIDE DEF c, k
    <3> QED BY <1>1, <2>1, <2>2
  <2> QED BY <2>1, <2>2, <2>3 DEF DmaInv, Copied
<1>3. /\ (k + 1) % SpriteBytes \in Byte
      /\ k + 1 < SpriteBytes => (k + 1) % SpriteBytes = k + 1
  <2> HIDE DEF k
  <2> QED BY <1>1, <1>2 DEF Byte
<1>4. /\ w.on = window.on /\ w.start = window.start /\ w.length = window.length
      /\ w.spriteDmaCounter = c + 1 /\ w.spriteReadAddr = (k + 1) % SpriteBytes
      /\ w.readValue = k /\ w.oam = window.oam /\ w.kinds = window.kinds
      /\ w \in Windows
  <2>1. k \in Values
    <3> HIDE DEF k
    <3> QED BY <1>1, <1>2 DEF Values, Byte
  <2>2. c + 1 \in 0 .. 2 * SpriteBytes
    <3> HIDE DEF c, k
    <3> QED BY <1>1, <1>2
  <2>3. window.spriteReadAddr \in Values /\ (window.spriteReadAddr + 1) % SpriteBytes \in Byte
    BY <1>2, <1>3, <2>1
  <2> QED BY <1>1, <1>2, <2>2, <2>3 DEF Windows
<1> HIDE DEF w
<1>5. /\ \E req, abt \in BOOLEAN : Settled({}, FALSE, req, abt)
      /\ Extends(w) /\ op' = op /\ (GetCycle' <=> ~GetCycle)
      /\ DmaTyped' /\ Requested' /\ Clocked'
  <2>1. {} # SampleFetched
    BY DEF SampleFetched
  <2> QED BY <1>1, <1>4, <2>1, LoopCommon
<1>6. PICK req \in BOOLEAN, abt \in BOOLEAN : Settled({}, FALSE, req, abt)
  BY <1>5
<1>7. dma'.sprite
  BY <1>1, <1>6 DEF Settled
<1>8. /\ window'.spriteDmaCounter = c + 1 /\ window'.oam = window.oam
      /\ window'.spriteReadAddr = (k + 1) % SpriteBytes /\ window'.readValue = k
      /\ window'.start = window.start /\ window'.length = window.length + 1
      /\ window'.kinds = window.kinds \cup IF dma.abort THEN {"abort"} ELSE {}
  BY <1>4, <1>5 DEF Extends
<1>9. Copied'
  <2>1. \A i \in 1 .. k : window'.oam[i] = i - 1
    BY <1>8 DEF DmaInv, Copied
  <2>2. "sprite" \in window'.kinds <=> c >= 2
    BY <1>8 DEF DmaInv, Copied
  <2>3. c >= 2 <=> c + 1 >= 2
    <3> HIDE DEF c, k
    <3> QED BY <1>2
  <2>4. c + 1 < 2 * SpriteBytes /\ c + 1 # 2 * k
    <3> HIDE DEF c, k
    <3> QED BY <1>1, <1>2
  <2>5. Len(window'.oam) = k
    BY <1>8
  <2> HIDE DEF k, c
  <2> QED BY <1>1, <1>2, <1>3, <1>5, <1>7, <1>8, <2>1, <2>2, <2>3, <2>4, <2>5
          DEF Copied
<1>10. Timed'
  <2> SUFFICES ASSUME op \in Instructions, "abort" \notin window'.kinds
               PROVE  SampleTimed' /\ SpriteTimed'
    BY <1>5 DEF Timed
  <2>1. ~dma.abort /\ window'.kinds = window.kinds /\ "abort" \notin window.kinds
    BY <1>8
  <2>2. SpriteTimed
    BY <1>1, <2>1 DEF DmaInv, Timed
  <2>3. /\ (window.start + window.length) % 2 = 0
        /\ window.length \in Nat /\ window.start \in Bit
    BY <1>1, InInstruction
  <2>4. SampleTimed'
    BY <1>7 DEF SampleTimed
  <2>5. SpriteTimed'
    <3> SUFFICES ASSUME ~dma'.dmc, window.kinds \subseteq {"sprite"}
                 PROVE  SpriteTimed'
      BY <2>1 DEF SpriteTimed
    <3>1. ~dma.dmc
      BY <1>6, <2>1 DEF Settled
    <3>2. \/ window.start = 1 /\ window.length = 1 + c
          \/ window.start = 0 /\ window.length = 2 + c
      BY <2>2, <2>3, <3>1 DEF SpriteTimed
    <3> HIDE DEF c
    <3> QED BY <1>2, <1>8, <2>3, <3>2 DEF SpriteTimed
  <2> QED BY <2>4, <2>5
<1> QED BY <1>5, <1>9, <1>10 DEF DmaInv

(* The byte that was read is stored; the last one ends the copy.           *)
LEMMA WriteKeepsDma ==
  ASSUME IInv, DmaInv, DmaSpriteWrite
  PROVE  DmaInv'
<1> DEFINE w == [window EXCEPT !.oam = Append(@, window.readValue),
                               !.spriteDmaCounter = @ + 1,
                               !.kinds = @ \cup {"sprite"}]
           c == window.spriteDmaCounter
           k == Len(window.oam)
<1>1. /\ InWindow /\ ~GetCycle /\ dma.sprite /\ c % 2 = 1
      /\ DmaCycle(w, SpriteDone, FALSE)
      /\ window \in Windows /\ window.on /\ SpriteBytes \in Nat \ {0}
  BY NesAssumption DEF DmaSpriteWrite, SpriteByteRead, InWindow, DmaInv, DmaTyped
<1>2. /\ c \in Nat /\ k \in Nat /\ c = 2 * k + 1 /\ k < SpriteBytes
      /\ window.readValue = k
      /\ k + 1 < SpriteBytes => window.spriteReadAddr = k + 1
  <2>1. c \in Nat /\ k \in Nat
    BY <1>1 DEF Windows
  <2>2. c < 2 * SpriteBytes
    BY <1>1 DEF DmaInv, Copied
  <2>3. c # 2 * k
    <3> HIDE DEF c, k
    <3> QED BY <1>1, <2>1, EvenOdd
  <2>4. c = 2 * k + 1 /\ window.readValue = k
    BY <2>3 DEF DmaInv, Copied
  <2>5. k < SpriteBytes
    <3> HIDE DEF c, k
    <3> QED BY <1>1, <2>1, <2>2, <2>4
  <2> QED BY <2>1, <2>4, <2>5 DEF DmaInv, Copied
<1>3. c + 1 = 2 * (k + 1) /\ c + 1 \in 0 .. 2 * SpriteBytes /\ c + 1 >= 2
  <2> HIDE DEF c, k
  <2> QED BY <1>1, <1>2
<1>4. /\ w.on = window.on /\ w.start = window.start /\ w.length = window.length
      /\ w.spriteDmaCounter = c + 1 /\ w.spriteReadAddr = window.spriteReadAddr
      /\ w.readValue = window.readValue /\ w.oam = Append(window.oam, k)
      /\ w.kinds = window.kinds \cup {"sprite"}
      /\ w \in Windows
  <2>1. Append(window.oam, window.readValue) \in Seq(Values)
    BY <1>1 DEF Windows
  <2> QED BY <1>1, <1>2, <1>3, <2>1 DEF Windows
<1> HIDE DEF w
<1>5. SpriteDone = IF c + 1 = 2 * SpriteBytes THEN {"sprite"} ELSE {}
  BY DEF SpriteDone
<1>6. /\ \E req, abt \in BOOLEAN : Settled(SpriteDone, FALSE, req, abt)
      /\ Extends(w) /\ op' = op /\ (GetCycle' <=> ~GetCycle)
      /\ DmaTyped' /\ Requested' /\ Clocked'
  <2>1. SpriteDone # SampleFetched /\ SpriteDone \in {{}, SampleFetched, {"sprite"}}
    BY <1>5 DEF SampleFetched
  <2> QED BY <1>1, <1>4, <2>1, LoopCommon
<1>7. PICK req \in BOOLEAN, abt \in BOOLEAN : Settled(SpriteDone, FALSE, req, abt)
  BY <1>6
<1>8. /\ dma'.sprite <=> c + 1 # 2 * SpriteBytes
      /\ ~dma'.dmc => ~dma.dmc \/ dma.abort
  BY <1>1, <1>5, <1>7 DEF Settled
<1>9. /\ window'.spriteDmaCounter = c + 1 /\ window'.oam = Append(window.oam, k)
      /\ window'.spriteReadAddr = window.spriteReadAddr
      /\ window'.start = window.start /\ window'.length = window.length + 1
      /\ window'.kinds = window.kinds \cup {"sprite"}
                         \cup IF dma.abort THEN {"abort"} ELSE {}
  BY <1>4, <1>6 DEF Extends
<1>10. Copied'
  <2>1. window.oam \in Seq(Values) /\ k \in Values
    BY <1>1, <1>2 DEF Windows
  <2>2. Len(window'.oam) = k + 1
    BY <1>9, <2>1
  <2>3. ASSUME NEW i \in 1 .. k + 1 PROVE window'.oam[i] = i - 1
    <3>1. CASE i = k + 1
      BY <1>9, <2>1, <3>1
    <3>2. CASE i # k + 1
      <4>1. i \in 1 .. k /\ window.oam[i] = i - 1
        BY <2>1, <3>2 DEF DmaInv, Copied
      <4> QED BY <1>9, <2>1, <4>1
    <3> QED BY <3>1, <3>2
  <2>4. "sprite" \in window'.kinds
    BY <1>9
  <2>5. /\ c + 1 # 2 * (k + 1) + 1
        /\ c + 1 # 2 * SpriteBytes => c + 1 < 2 * SpriteBytes
    <3> HIDE DEF c, k
    <3> QED BY <1>1, <1>2, <1>3
  <2> HIDE DEF c, k
  <2> QED BY <1>2, <1>3, <1>8, <1>9, <2>2, <2>3, <2>4, <2>5 DEF Copied
<1>11. Timed'
  <2> SUFFICES ASSUME op \in Instructions, "abort" \notin window'.kinds
               PROVE  SampleTimed' /\ SpriteTimed'
    BY <1>6 DEF Timed
  <2>1. /\ ~dma.abort /\ window'.kinds = window.kinds \cup {"sprite"}
        /\ "abort" \notin window.kinds
    BY <1>9
  <2>2. SpriteTimed /\ window.length \in Nat /\ window.start \in Bit
    BY <1>1, <2>1, InInstruction DEF DmaInv, Timed
  <2>3. SampleTimed'
    <3>1. c + 1 # 0
      BY <1>2, <1>3
    <3> QED BY <1>9, <3>1 DEF SampleTimed
  <2>4. SpriteTimed'
    <3> SUFFICES ASSUME ~dma'.dmc, window.kinds \subseteq {"sprite"}
                 PROVE  SpriteTimed'
      BY <2>1 DEF SpriteTimed
    <3>1. ~dma.dmc
      BY <1>8, <2>1
    <3>2. \/ window.start = 1 /\ window.length = 1 + c
          \/ window.start = 0 /\ window.length = 2 + c
      <4>1. c # 0
        <5> HIDE DEF c, k
        <5> QED BY <1>2
      <4> QED BY <2>2, <3>1, <4>1 DEF SpriteTimed
    <3> HIDE DEF c, k
    <3> QED BY <1>2, <1>9, <2>2, <3>2 DEF SpriteTimed
  <2> QED BY <2>3, <2>4
<1> QED BY <1>6, <1>10, <1>11 DEF DmaInv

(***************************************************************************)
(* DMA: theorems                                                           *)
(***************************************************************************)
LEMMA InitDma ==
  ASSUME Init
  PROVE  DmaInv
<1>1. /\ window = NoWindow /\ ~window.on /\ window.spriteDmaCounter = 0
      /\ window.spriteReadAddr = 0 /\ window.oam = <<>> /\ window.kinds = {}
      /\ SpriteBytes \in Nat \ {0} /\ done = 0 /\ op = "none" /\ ~seen.asked
  BY NesAssumption DEF Init, NoWindow
<1>2. window \in Windows
  <2>1. Nothing \in Values /\ 0 \in Byte /\ <<>> \in Seq(Values)
    BY <1>1 DEF Values, Nothing, Byte
  <2> QED BY <1>1, <2>1 DEF NoWindow, Windows, Bit
<1>3. DmaTyped
  <2>1. dma \in Dma
    BY DEF Init, Dma
  <2>2. cycles \in [total : Bit, instr : Bit] /\ parity \in Bit
    BY DEF Init, Bit
  <2> QED BY <1>2, <2>1, <2>2 DEF DmaTyped
<1>4. Requested
  BY <1>1 DEF Init, Requested
<1>5. Copied
  BY <1>1 DEF Copied, Init
<1>6. "none" \notin Instructions
  BY OpsLength DEF Instructions
<1>7. Clocked /\ Timed
  BY <1>1, <1>6 DEF Clocked, Timed, Init
<1> QED BY <1>3, <1>4, <1>5, <1>7 DEF DmaInv

LEMMA NextKeepsDma == IInv /\ DmaInv /\ [Next]_vars => DmaInv'
<1> SUFFICES ASSUME IInv, DmaInv, [Next]_vars PROVE DmaInv'
  OBVIOUS
<1>1. CASE StepNmi \/ StepIrq \/ StepInstruction \/ Reset
  BY <1>1, StepKeepsDma
<1>2. CASE Cycle
  BY <1>2, CycleKeepsDma
<1>3. CASE DmaHalt
  BY <1>3, HaltKeepsDma
<1>4. CASE DmaSampleRead
  BY <1>4, SampleKeepsDma
<1>5. CASE DmaSpriteRead
  BY <1>5, ReadKeepsDma
<1>6. CASE DmaSpriteWrite
  BY <1>6, WriteKeepsDma
<1>7. CASE DmaDummyRead
  BY <1>7, DummyKeepsDma
<1>8. CASE UNCHANGED vars
  <2>1. /\ op' = op /\ done' = done /\ dma' = dma /\ cycles' = cycles
        /\ window' = window /\ parity' = parity /\ seen' = seen
    BY <1>8 DEF vars
  <2> QED BY <2>1 DEF DmaInv, DmaTyped, Requested, BeforeRead, Copied, GetCycle,
          Clocked, Timed, SampleTimed, SpriteTimed
<1> QED BY <1>1, <1>2, <1>3, <1>4, <1>5, <1>6, <1>7, <1>8 DEF Next

(* Every reachable state has the invariant of requests, copy and clock,    *)
(* for every page size, every program and every behaviour of the APU.      *)
THEOREM DmaInvariant == Spec => [](IInv /\ DmaInv)
<1>1. Init => IInv /\ DmaInv
  BY InitInvariant, InitDma
<1>2. (IInv /\ DmaInv) /\ [Next]_vars => (IInv /\ DmaInv)'
  BY NextKeepsInvariant, NextKeepsDma
<1> QED BY <1>1, <1>2, PTL DEF Spec

(* Every variable of the core keeps its type: no cycle goes past the end   *)
(* of an operation, no counter past the page.                              *)
THEOREM CoreTyped == Spec => []TypeOK
<1>1. IInv /\ DmaInv => TypeOK
  <2> SUFFICES ASSUME IInv, DmaInv PROVE TypeOK
    OBVIOUS
  <2>1. done \in 0 .. IF op = "none" THEN 0 ELSE Len(BusCycles[op]) - 1
    <3>1. /\ done \in Nat /\ op \in Ops \cup {"none"}
          /\ op = "none" => done = 0
          /\ op # "none" => done < Len(BusCycles[op])
      BY DEF IInv, Typed
    <3>2. CASE op = "none"
      BY <3>1, <3>2 DEF IInv, Typed
    <3>3. CASE op # "none"
      <4> DEFINE len == Len(BusCycles[op])
      <4>1. len \in Nat /\ done < len
        BY <3>1, <3>3, OpsLength DEF IInv, Typed
      <4> HIDE DEF len
      <4>2. done \in 0 .. len - 1
        BY <3>1, <4>1
      <4> QED BY <3>3, <4>2 DEF len
    <3> QED BY <3>2, <3>3
  <2>2. window \in Windows
    BY DEF DmaInv, DmaTyped
  <2>3. /\ DOMAIN window = DOMAIN NoWindow
        /\ window.on \in BOOLEAN /\ window.readValue \in Values
        /\ window.spriteDmaCounter \in 0 .. 2 * SpriteBytes
        /\ window.spriteReadAddr \in Byte /\ window.oam \in Seq(Values)
        /\ window.kinds \subseteq {"sprite", "dmc", "abort"}
    BY <2>2 DEF Windows, NoWindow
  <2> QED BY <2>1, <2>3 DEF TypeOK, IInv, Typed, DmaInv, DmaTyped
<1> QED BY <1>1, DmaInvariant, PTL

(* ProcessPendingDma: no request is forgotten, whatever asks for a halt,   *)
(* ends a window or cancels a fetch in the same cycle.                     *)
THEOREM NoTransferForgotten == Spec => []TransferRemembered
<1>1. DmaInv => TransferRemembered
  BY DEF DmaInv, Requested, TransferRemembered
<1> QED BY <1>1, DmaInvariant, PTL

(* The sprite copy stores each byte of the page once, in order, for a page *)
(* of any size and with sample reads anywhere in between.                  *)
THEOREM CopyIsExact == Spec => []SpriteCopyExact
<1>1. DmaInv => SpriteCopyExact
  <2> SUFFICES ASSUME DmaInv PROVE SpriteCopyExact
    OBVIOUS
  <2> DEFINE k == Len(window.oam)
  <2>1. window.oam \in Seq(Values) /\ SpriteBytes \in Nat \ {0}
    BY NesAssumption DEF DmaInv, DmaTyped, Windows
  <2>2. k \in Nat /\ DOMAIN window.oam = 1 .. k
    BY <2>1
  <2>3. \A i \in DOMAIN window.oam : window.oam[i] = i - 1
    BY <2>2 DEF DmaInv, Copied
  <2>4. ASSUME WindowDone, "sprite" \in window.kinds PROVE k = SpriteBytes
    <3>1. ~dma.sprite /\ window.spriteDmaCounter >= 2
      BY <2>4 DEF WindowDone, DmaInv, Copied
    <3>2. window.spriteDmaCounter = 2 * SpriteBytes /\ window.spriteDmaCounter = 2 * k
      BY <3>1 DEF DmaInv, Copied
    <3> HIDE DEF k
    <3> QED BY <2>1, <2>2, <3>2
  <2> QED BY <2>3, <2>4 DEF SpriteCopyExact
<1> QED BY <1>1, DmaInvariant, PTL

(* In every instruction a sample costs 3 cycles or 4 and a page one or two *)
(* more than its reads and writes, by the parity of the first cycle alone. *)
THEOREM StealFollowsClock == Spec => []InstructionStealFollowsParity
<1>1. IInv /\ DmaInv => InstructionStealFollowsParity
  <2> SUFFICES ASSUME IInv, DmaInv, op \notin {"nmi", "irq"}, WindowDone
               PROVE  /\ window.kinds = {"dmc"} => window.length = 3 + window.start
                      /\ window.kinds = {"sprite"} =>
                           window.length = 2 * SpriteBytes + 2 - window.start
    BY DEF InstructionStealFollowsParity, StealFollowsParity
  <2>1. window.on /\ ~dma.sprite /\ ~dma.dmc
    BY DEF WindowDone
  <2>2. op \in Instructions
    <3>1. BeforeRead
      BY <2>1 DEF DmaInv, Requested
    <3>2. op # "reset"
      <4>1. SUFFICES ASSUME op = "reset" PROVE FALSE
        OBVIOUS
      <4>2. BusCycles["reset"] = [i \in 1 .. 8 |-> "stall"]
        BY DEF BusCycles
      <4>3. done + 1 \in 1 .. 8
        <5>1. Len([i \in 1 .. 8 |-> "stall"]) = 8
          OBVIOUS
        <5>2. done \in Nat /\ done < Len(BusCycles[op])
          BY <4>1 DEF IInv, Typed
        <5> QED BY <4>1, <4>2, <5>1, <5>2
      <4>4. BusCycles[op][done + 1] = "stall"
        BY <4>1, <4>2, <4>3
      <4> QED BY <3>1, <4>4 DEF BeforeRead
    <3>3. op \in Ops
      BY <3>1 DEF BeforeRead, IInv, Typed
    <3> QED BY <3>2, <3>3 DEF Instructions
  <2>3. "abort" \notin window.kinds => SampleTimed /\ SpriteTimed
    BY <2>1, <2>2 DEF DmaInv, Timed
  <2>4. /\ window.spriteDmaCounter \in Nat /\ window.start \in Bit
        /\ SpriteBytes \in Nat \ {0}
    BY NesAssumption DEF DmaInv, DmaTyped, Windows
  <2>5. "sprite" \in window.kinds <=> window.spriteDmaCounter >= 2
    BY DEF DmaInv, Copied
  <2>6. window.spriteDmaCounter = 0 \/ window.spriteDmaCounter = 2 * SpriteBytes
    BY <2>1 DEF DmaInv, Copied
  <2>7. ASSUME window.kinds = {"dmc"} PROVE window.length = 3 + window.start
    <3>1. window.spriteDmaCounter = 0
      BY <2>4, <2>5, <2>6, <2>7
    <3> QED BY <2>1, <2>3, <2>7, <3>1 DEF SampleTimed
  <2>8. ASSUME window.kinds = {"sprite"}
        PROVE  window.length = 2 * SpriteBytes + 2 - window.start
    <3>1. window.spriteDmaCounter = 2 * SpriteBytes
      BY <2>5, <2>6, <2>8
    <3> QED BY <2>1, <2>3, <2>4, <2>8, <3>1 DEF SpriteTimed
  <2> QED BY <2>7, <2>8
<1> QED BY <1>1, DmaInvariant, PTL
===============================================================================
