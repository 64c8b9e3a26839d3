-------------------------------- MODULE Rewind --------------------------------
(***************************************************************************)
(* Reverse execution.  Two debugger surfaces may drive one machine: the    *)
(* TUI, with a ring of per-step snapshots (the `<` key), periodic full     *)
(* keyframes and a step counter (`:rewind N`), and the DAP server, with a  *)
(* ring of its own (stepBack).  A snapshot holds registers, keyboard state *)
(* and the before-images of the RAM pages written during its epoch; the    *)
(* epoch lives in the RAM itself (cpu/memory.go), so it is shared.         *)
(*                                                                         *)
(* The rings are bounded stacks here; SnapshotRing shows that the circular *)
(* buffer behind them is one.  One action is one handler: the TUI runs     *)
(* them on one goroutine and DAP handlers exclude each other (DapSession). *)
(***************************************************************************)
EXTENDS Naturals, Sequences

CONSTANTS
  Pages,        \* pages of RAM
  Bytes,        \* contents of a page
  Regs,         \* the registers a Snapshot records
  Hidden,       \* the CPU state it does not (stoppedBySTP, the 65816's high
                \* halves and bank registers, the set of IRQ sources ...)
  ResetRegs, ResetHidden,
  Image,        \* the RAM the loader leaves
  Keys, NoKey,  \* what the keyboard latch may hold
  Program,      \* what one instruction does to the machine
  Settings,     \* who may do what to the machine, see below
  RingCap,      \* snapshots per ring (cpu.DefaultSnapshotRingCap)
  KeyCaps,      \* keyframe capacities (budget / 64 KiB)
  Interval,     \* steps between keyframes (keyframeInterval)
  MaxSweep,     \* bound on the instructions of one DAP step (next, stepOut)
  MaxSteps      \* bound on StepCount

Machine == [regs : Regs, hidden : Hidden, mem : [Pages -> Bytes],
            keys : Keys \cup {NoKey}]

(* surfaces: who drives the machine: "tui", "dap" or both;                  *)
(* hostActs: what the user does to it between steps.                        *)
Setting == [surfaces : SUBSET {"tui", "dap"}, hostActs : SUBSET {"key", "poke"}]

ASSUME RewindAssumption ==
  /\ ResetRegs \in Regs /\ ResetHidden \in Hidden
  /\ Image \in [Pages -> Bytes]
  /\ NoKey \notin Keys
  /\ Program \in [Machine -> Machine]
  /\ Settings \subseteq Setting
  /\ RingCap \in Nat \ {0} /\ KeyCaps \subseteq Nat \ {0} /\ KeyCaps # {}
  /\ Interval \in Nat \ {0} /\ MaxSweep \in Nat \ {0} /\ MaxSteps \in Nat

VARIABLES
  setting,      \* which of them; it never changes
  machine,      \* CPU, RAM and keyboard
  shadow,       \* RAM.shadow: before-images of the pages of this epoch
  fine,         \* Model.Rewind, oldest first
  dapRing,      \* Server.rewind, oldest first
  steps,        \* Model.StepCount
  keyframes,    \* Model.Keyframes, in the order they were pushed
  keyCap,       \* and its capacity
  seen          \* history: the states the TUI's timeline had at each step

tuiVars == <<fine, steps, keyframes, keyCap>>
vars == <<setting, machine, shadow, tuiVars, dapRing, seen>>

Surfaces == setting.surfaces
HostActs == setting.hostActs

NoPages == [p \in {} |-> 0]
PageSets == UNION {[P -> Bytes] : P \in SUBSET Pages}

(* For the properties only: the whole machine when the snapshot was taken, *)
(* and the pages the user has edited since.                                *)
Snapshot == [regs : Regs, keys : Keys \cup {NoKey}, pages : PageSets,
             before : Machine, edited : SUBSET Pages]
Keyframe == [step : 0 .. MaxSteps, snap : Snapshot]

-------------------------------------------------------------------------------
(* RAM, snapshots, rings. *)

(* RAM.Write: the first write to a page in an epoch saves its contents. *)
Touched(sh, old, new) ==
  LET fresh == {p \in Pages \ DOMAIN sh : old.mem[p] # new.mem[p]} IN
  [p \in DOMAIN sh \cup fresh |-> IF p \in DOMAIN sh THEN sh[p] ELSE old.mem[p]]

(* CPU.Snapshot and capturePeripherals before the step, TakeShadow after.  *)
SnapshotOf(m, pages) ==
  [regs |-> m.regs, keys |-> m.keys, pages |-> pages, before |-> m,
   edited |-> {}]

FullSnapshot(m) == SnapshotOf(m, m.mem)

(* CPU.Restore and restorePeripherals: what is not recorded stays. *)
Restored(m, s) ==
  [m EXCEPT !.regs = s.regs, !.keys = s.keys,
            !.mem = [p \in Pages |-> IF p \in DOMAIN s.pages THEN s.pages[p]
                                                             ELSE @[p]]]

(* A plausible slip: a ring that, once full, keeps what it has. *)
OldestKept(cap, q) == IF Len(q) > cap THEN SubSeq(q, 1, cap) ELSE q

(* The rings drop their oldest entries when full. *)
Newest(cap, q) ==
  IF Len(q) > cap THEN SubSeq(q, Len(q) - cap + 1, Len(q)) ELSE q

Top(q) == q[Len(q)]
Popped(q, n) == SubSeq(q, 1, Len(q) - n)

(* The states of a run of n instructions from m. *)
Trace(m, n) ==
  LET t[i \in 0 .. n] == IF i = 0 THEN m ELSE Program[t[i - 1]] IN t

(* The states of n pops in a row. *)
Unwound(m, q, n) ==
  LET u[i \in 0 .. n] ==
        IF i = 0 THEN m ELSE Restored(u[i - 1], q[Len(q) - i + 1]) IN u

Remember(k, m) ==
  IF "tui" \in Surfaces THEN [seen EXCEPT ![k] = @ \cup {m}] ELSE seen

(* After a jump back to step k the later steps are no longer the past. *)
RememberBack(k, m) ==
  [j \in 0 .. MaxSteps |->
     IF j < k THEN seen[j] ELSE IF j = k THEN seen[k] \cup {m} ELSE {}]

-------------------------------------------------------------------------------
Init ==
  /\ setting \in Settings
  /\ machine = [regs |-> ResetRegs, hidden |-> ResetHidden, mem |-> Image,
                keys |-> NoKey]
  /\ keyCap \in KeyCaps
  /\ shadow = NoPages
  /\ fine = <<>> /\ dapRing = <<>>
  /\ steps = 0
  /\ keyframes = <<>>
  /\ seen = [k \in 0 .. MaxSteps |-> IF k = 0 THEN {machine} ELSE {}]

(* seedKeyframe: the state before the very first step. *)
Seeded(kfs) ==
  IF steps = 0 /\ kfs = <<>>
    THEN <<[step |-> 0, snap |-> FullSnapshot(machine)]>>
    ELSE kfs

(* A plausible slip: the keyframe is tagged before the step is counted. *)
WithKeyframeEarly(kfs, k, m) ==
  IF k % Interval = 0
    THEN Newest(keyCap, Append(kfs, [step |-> k - 1, snap |-> FullSnapshot(m)]))
    ELSE kfs

(* maybeKeyframe: one more at every Interval-th step. *)
WithKeyframe(kfs, k, m) ==
  IF k % Interval = 0
    THEN Newest(keyCap, Append(kfs, [step |-> k, snap |-> FullSnapshot(m)]))
    ELSE kfs

(* Model.step: `s`, `n`, `f`, `S` and every instruction of a free run. *)
Step ==
  /\ "tui" \in Surfaces
  /\ steps < MaxSteps
  /\ LET new == Program[machine] IN
     /\ machine' = new
     /\ fine' = Newest(RingCap, Append(fine,
                  SnapshotOf(machine, Touched(NoPages, machine, new))))
     /\ steps' = steps + 1
     /\ keyframes' = WithKeyframe(Seeded(keyframes), steps', new)
     /\ shadow' = NoPages
     /\ seen' = Remember(steps', new)
  /\ UNCHANGED <<setting, dapRing, keyCap>>

(* A plausible slip: restoring the registers but not the pages. *)
UndoRegistersOnly ==
  /\ "tui" \in Surfaces
  /\ fine # <<>>
  /\ machine' = Restored(machine, [Top(fine) EXCEPT !.pages = NoPages])
  /\ fine' = Popped(fine, 1)
  /\ shadow' = NoPages
  /\ steps' = IF steps > 0 THEN steps - 1 ELSE 0
  /\ seen' = RememberBack(steps', machine')
  /\ UNCHANGED <<setting, dapRing, keyframes, keyCap>>

(* The `<` key. *)
Undo ==
  /\ "tui" \in Surfaces
  /\ fine # <<>>
  /\ machine' = Restored(machine, Top(fine))
  /\ fine' = Popped(fine, 1)
  /\ shadow' = NoPages
  /\ steps' = IF steps > 0 THEN steps - 1 ELSE 0
  /\ seen' = RememberBack(steps', machine')
  /\ UNCHANGED <<setting, dapRing, keyframes, keyCap>>

(* KeyframeRing.Nearest: newest first, the first one at or before target. *)
Candidates(target) == {i \in 1 .. Len(keyframes) : keyframes[i].step <= target}

(* A plausible slip: the largest step, whichever timeline it is from. *)
NearestByStep(target) ==
  keyframes[CHOOSE i \in Candidates(target) :
              \A j \in Candidates(target) :
                \/ keyframes[j].step < keyframes[i].step
                \/ keyframes[j].step = keyframes[i].step /\ i <= j]

Nearest(target) ==
  keyframes[CHOOSE i \in Candidates(target) :
              \A j \in Candidates(target) : j <= i]

(* rewindToStep, the fast path: the ring still reaches back to the target. *)
RewindShort(n) ==
  /\ "tui" \in Surfaces
  /\ n <= steps /\ n <= Len(fine)
  /\ machine' = Unwound(machine, fine, n)[n]
  /\ fine' = Popped(fine, n)
  /\ steps' = steps - n
  /\ shadow' = NoPages
  /\ seen' = RememberBack(steps', machine')
  /\ UNCHANGED <<setting, dapRing, keyframes, keyCap>>

(* A plausible slip: the ring is not reset before the replay refills it. *)
RewindDeepOntoRing(n) ==
  LET target == steps - n
      kf     == Nearest(target)
      base   == Restored(machine, kf.snap)
      replay == Trace(base, target - kf.step)
      pushed == [i \in 1 .. target - kf.step |->
                   SnapshotOf(replay[i - 1],
                              Touched(NoPages, replay[i - 1], replay[i]))]
  IN
  /\ "tui" \in Surfaces
  /\ n <= steps /\ n > Len(fine)
  /\ Candidates(target) # {}
  /\ machine' = replay[target - kf.step]
  /\ fine' = Newest(RingCap, fine \o pushed)
  /\ steps' = target
  /\ shadow' = NoPages
  /\ seen' = [j \in 0 .. MaxSteps |->
                IF j < kf.step THEN seen[j]
                ELSE IF j > target THEN {}
                ELSE seen[j] \cup {replay[j - kf.step]}]
  /\ UNCHANGED <<setting, dapRing, keyframes, keyCap>>

(* The deep path: restore a keyframe and replay forward.  The replayed     *)
(* steps refill the ring and are the past from now on.  Without a keyframe *)
(* the command reports "beyond reach" and changes nothing.                 *)
RewindDeep(n) ==
  LET target == steps - n
      kf     == Nearest(target)
      base   == Restored(machine, kf.snap)
      replay == Trace(base, target - kf.step)
      pushed == [i \in 1 .. target - kf.step |->
                   SnapshotOf(replay[i - 1],
                              Touched(NoPages, replay[i - 1], replay[i]))]
  IN
  /\ "tui" \in Surfaces
  /\ n <= steps /\ n > Len(fine)
  /\ Candidates(target) # {}
  /\ machine' = replay[target - kf.step]
  /\ fine' = Newest(RingCap, pushed)
  /\ steps' = target
  /\ shadow' = NoPages
  /\ seen' = [j \in 0 .. MaxSteps |->
                IF j < kf.step THEN seen[j]
                ELSE IF j > target THEN {}
                ELSE seen[j] \cup {replay[j - kf.step]}]
  /\ UNCHANGED <<setting, dapRing, keyframes, keyCap>>

(* The `R` key; RAM and keyboard keep their contents. *)
Reset ==
  /\ "tui" \in Surfaces
  /\ machine' = [machine EXCEPT !.regs = ResetRegs, !.hidden = ResetHidden]
  /\ fine' = <<>> /\ keyframes' = <<>> /\ steps' = 0
  /\ seen' = [k \in 0 .. MaxSteps |-> IF k = 0 THEN {machine'} ELSE {}]
  /\ UNCHANGED <<setting, shadow, dapRing, keyCap>>

(* :rewind-budget builds a new keyframe ring. *)
SetBudget(cap) ==
  /\ "tui" \in Surfaces
  /\ keyCap' = cap
  /\ keyframes' = Seeded(<<>>)
  /\ UNCHANGED <<setting, machine, shadow, fine, dapRing, steps, seen>>

-------------------------------------------------------------------------------
(* What the user does between steps. *)

PushKey(k) ==
  /\ "key" \in HostActs
  /\ machine' = [machine EXCEPT !.keys = k]
  /\ seen' = Remember(steps, machine')
  /\ UNCHANGED <<setting, shadow, tuiVars, dapRing>>

Edited(q, p) == [i \in DOMAIN q |-> [q[i] EXCEPT !.edited = @ \cup {p}]]

(* A memory edit goes through RAM.Write, outside any step. *)
Poke(p, b) ==
  /\ "poke" \in HostActs
  /\ machine.mem[p] # b
  /\ machine' = [machine EXCEPT !.mem[p] = b]
  /\ shadow' = Touched(shadow, machine, machine')
  /\ seen' = Remember(steps, machine')
  /\ fine' = Edited(fine, p) /\ dapRing' = Edited(dapRing, p)
  /\ UNCHANGED <<setting, steps, keyframes, keyCap>>

-------------------------------------------------------------------------------
(* The DAP server. *)

(* A plausible slip: no fresh epoch, so an edit made since the last step   *)
(* is folded into the snapshot of this one.                                *)
DapStepSameEpoch(n) ==
  /\ "dap" \in Surfaces
  /\ LET new == Trace(machine, n)[n]
         touched[i \in 0 .. n] ==
           IF i = 0 THEN shadow
           ELSE Touched(touched[i - 1], Trace(machine, n)[i - 1],
                        Trace(machine, n)[i])
     IN /\ machine' = new
        /\ dapRing' = Newest(RingCap, Append(dapRing,
                        SnapshotOf(machine, touched[n])))
  /\ shadow' = NoPages
  /\ UNCHANGED <<setting, tuiVars, seen>>

(* stepWithSnapshot: stepIn and each iteration of a continue (n = 1), next *)
(* and stepOut (a sweep of n instructions under one snapshot).             *)
DapStep(n) ==
  /\ "dap" \in Surfaces
  /\ LET new == Trace(machine, n)[n]
         touched[i \in 0 .. n] ==
           IF i = 0 THEN NoPages
           ELSE Touched(touched[i - 1], Trace(machine, n)[i - 1],
                        Trace(machine, n)[i])
     IN /\ machine' = new
        /\ dapRing' = Newest(RingCap, Append(dapRing,
                        SnapshotOf(machine, touched[n])))
  /\ shadow' = NoPages
  /\ UNCHANGED <<setting, tuiVars, seen>>

(* handleStepBack. *)
DapStepBack ==
  /\ "dap" \in Surfaces
  /\ dapRing # <<>>
  /\ machine' = Restored(machine, Top(dapRing))
  /\ dapRing' = Popped(dapRing, 1)
  /\ shadow' = NoPages
  /\ UNCHANGED <<setting, tuiVars, seen>>

-------------------------------------------------------------------------------
RewindBy(n) == RewindShort(n) \/ RewindDeep(n)

Next ==
  \/ Step \/ Undo \/ Reset
  \/ \E n \in 1 .. MaxSteps : RewindBy(n)
  \/ \E cap \in KeyCaps : SetBudget(cap)
  \/ \E k \in Keys : PushKey(k)
  \/ \E p \in Pages, b \in Bytes : Poke(p, b)
  \/ \E n \in 1 .. MaxSweep : DapStep(n)
  \/ DapStepBack

Spec == Init /\ [][Next]_vars

-------------------------------------------------------------------------------
(* Properties. *)

TypeOK ==
  /\ setting \in Settings
  /\ machine \in Machine
  /\ shadow \in PageSets
  /\ fine \in Seq(Snapshot) /\ Len(fine) <= RingCap
  /\ dapRing \in Seq(Snapshot) /\ Len(dapRing) <= RingCap
  /\ steps \in 0 .. MaxSteps
  /\ keyframes \in Seq(Keyframe) /\ Len(keyframes) <= keyCap
  /\ keyCap \in KeyCaps
  /\ seen \in [0 .. MaxSteps -> SUBSET Machine]

(* m is the machine of snapshot s, up to the pages edited since: no        *)
(* snapshot promises to take an edit back.                                 *)
Undone(m, s) ==
  /\ m.regs = s.before.regs /\ m.hidden = s.before.hidden
  /\ m.keys = s.before.keys
  /\ \A p \in Pages \ s.edited : m.mem[p] = s.before.mem[p]

(* "Press < to rewind one instruction" (README), and "enough RAM delta to  *)
(* undo one execution unit" (cpu/snapshot.go): the machine is again what   *)
(* it was right before the step `<` undoes, whatever was typed, rewound,   *)
(* replayed or evicted in between.                                         *)
UndoExact ==
  [][Undo => Undone(machine', Top(fine))]_vars

(* The same for the editor's stepBack, over a whole next or stepOut sweep. *)
StepBackExact ==
  [][DapStepBack => Undone(machine', Top(dapRing))]_vars

(* ":rewind N ... reconstructs any earlier step by restoring the nearest   *)
(* keyframe and replaying forward to the exact target" (README): the       *)
(* machine lands in a state that this run had at the step it lands on.     *)
(* Key presses are not recorded, so a replay is only promised for a        *)
(* program that reads none.                                                *)
RewindLands ==
  [][\A n \in 1 .. MaxSteps :
       HostActs = {} /\ RewindBy(n) => machine' \in seen[steps']]_vars

(* Keyframes of timelines the user has rewound and left stay in the ring;  *)
(* none of them is ever the one a rewind starts from.                      *)
NearestOnTimeline ==
  \A t \in 0 .. MaxSteps :
    t < steps /\ Candidates(t) # {} =>
      Nearest(t).snap.before \in seen[Nearest(t).step]

(* "A deep rewind replays at most 4096 instructions" (README): the nearest *)
(* keyframe, if there is one, is less than an interval away, in spite of   *)
(* eviction, budget changes and keyframes of abandoned timelines.          *)
ReplayBounded ==
  \A t \in 0 .. MaxSteps :
    t < steps /\ Candidates(t) # {} => t - Nearest(t).step < Interval

===============================================================================
