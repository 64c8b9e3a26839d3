--------------------------------- MODULE Tui ---------------------------------
(***************************************************************************)
(* The terminal front end in local mode: Model.Update, one key, command or *)
(* tick at a time.  Breakpoints are kept three times: in the maps the      *)
(* panels show, in the tables of the in-process DAP server that enforces   *)
(* them (RunBudget), and in the state file the next session loads.  Every  *)
(* route that edits them saves and forwards in its own way.                *)
(*                                                                         *)
(* The program is a fixed walk over a few addresses.  Panels, wording and  *)
(* the modal that owns a key are left out: a key is offered or it is not.  *)
(***************************************************************************)
EXTENDS Integers, FiniteSets, FiniteSetsExt

CONSTANTS
  Addrs, Zero,     \* code addresses, and the address $0000
  Entry,           \* where the program starts
  Flow,            \* the address each instruction goes on to
  Returns,         \* the JSRs, with the address each comes back to
  LineOf,          \* the source line of an address, or Absent
  DataAddrs,
  Touch,           \* the data accesses of each instruction
  MissKey,         \* where `:bp file:line` puts a line it cannot resolve
  Sessions,        \* what the user has at hand and does, see below
  Absent,          \* no breakpoint; no line; no file
  Torn,            \* a file cut short by a crash
  Newer,           \* a file of a later schema
  Presets,         \* the speeds that + and - walk through, in order
  Second,          \* units of time in a second
  Word,            \* 2^63: an int64 is in -Word .. Word - 1
  FramesPerSecond, \* 60: the first tick of a run gets Hz over this
  BurstsPerSecond, \* 10: no tick gets more than Hz over this
  Flat,            \* 5000: the steps of a tick without a throttle
  Sweep,           \* 16: the steps of `S`
  Guard,           \* the steps after which `n` and `f` give up
  MaxElapsed,      \* bound: the time between two ticks
  MaxCalls         \* bound: throttled ticks since the speed was set

Kinds == {"plain", "once", "hits", "cond", "log"}
AccessKinds == {"read", "write"}
MemKinds == AccessKinds \cup {"both"}

(* Breakpoint; the key it is kept under may differ from its address. *)
Breakpoint ==
  [addr : Addrs, enabled : BOOLEAN, kind : Kinds, rejected : BOOLEAN]

(* The state file as a session leaves it: a breakpoint is kept under its   *)
(* own address, but for the rejected ones of lines without code, which are *)
(* at address zero.  Before it had a schema it was an array of addresses.  *)
Keyed(m) ==
  \A k \in Addrs : m[k] # Absent =>
    m[k].addr = k \/ (m[k].addr = Zero /\ m[k].rejected)
BPMaps == {m \in [Addrs -> Breakpoint \cup {Absent}] : Keyed(m)}
MemMaps == [DataAddrs -> MemKinds \cup {Absent}]
SavedFiles == [bps : BPMaps, memBPs : MemMaps, hz : Int]
ArrayFiles == [addrs : SUBSET Addrs, hz : Int]

(* keys: the keys and commands used; kinds: the modifiers of `:bp`; where, *)
(* watched: the addresses it is used on; speeds: the arguments of `:speed`;*)
(* files: what the state file may hold beforehand                          *)

ASSUME TuiAssumption ==
  /\ {Zero, Entry, MissKey} \subseteq Addrs
  /\ Flow \in [Addrs -> Addrs]
  /\ DOMAIN Returns \subseteq Addrs /\ \A a \in DOMAIN Returns : Returns[a] \in Addrs
  /\ Touch \in [Addrs -> SUBSET (DataAddrs \X AccessKinds)]
  /\ \A s \in Sessions :
       /\ s.kinds \subseteq Kinds /\ s.where \subseteq Addrs
       /\ s.watched \subseteq DataAddrs /\ s.speeds \subseteq Int
       /\ s.files \subseteq SavedFiles \cup ArrayFiles \cup {Absent, Torn, Newer}
  /\ LET n == Cardinality(DOMAIN Presets)
     IN  n \in Nat \ {0} /\ Presets \in [1 .. n -> Nat]
  /\ {Second, Word, FramesPerSecond, BurstsPerSecond, Flat, Sweep, Guard,
      MaxElapsed, MaxCalls} \subseteq Nat \ {0}
  /\ "pc" \notin DataAddrs /\ Absent \notin Breakpoint
  /\ \A f \in {Absent, Torn, Newer} : f \notin SavedFiles \cup ArrayFiles

VARIABLES
  session,
  pc, running,
  bps, memBPs,     \* Model.Breakpoints and Model.MemBPs, by key
  inst, data,      \* the tables of the server
  file,            \* the state file
  hz, timed, debt, \* TargetHz, whether lastRunNS is set, cycleDebt
  promised,        \* history: what runs must stop at: addresses and accesses
  passed,          \* history: what the last run went past
  kept,            \* history: bps and memBPs after the last edit that counts
  pace             \* history: what throttled ticks were given, in how long

pacing == <<hz, timed, debt, pace>>
tables == <<inst, data>>
maps   == <<bps, memBPs>>
vars == <<session, pc, running, maps, tables, file, pacing, promised, passed, kept>>

NoBPs   == [a \in Addrs |-> Absent]
NoWatch == [d \in DataAddrs |-> Absent]
NoPace  == [given |-> 0, clock |-> 0, calls |-> 0, backs |-> 0, exact |-> TRUE]
newBP(a, kind) == [addr |-> a, enabled |-> TRUE, kind |-> kind, rejected |-> FALSE]

Offered(key) == key \in session.keys /\ UNCHANGED session

-----------------------------------------------------------------------------
(* What the panels promise. *)

Accesses(kind) == IF kind = "both" THEN AccessKinds ELSE {kind} \ {Absent}
Stopping(bp) == bp # Absent /\ bp.enabled /\ ~bp.rejected
Spot(a) == <<"pc", a>>
ShownSpots(m)   == {Spot(a) : a \in {a \in Addrs : Stopping(m[a]) /\ m[a].kind = "plain"}}
ShownWatches(w) == UNION {{d} \X Accesses(w[d]) : d \in DataAddrs}
Shown(m, w) == ShownSpots(m) \cup ShownWatches(w)

(* An edit that goes to the server at once makes a promise about its       *)
(* address; one that does not can only take promises back.                 *)
Edited(spots) ==
  /\ promised' = (promised \cap Shown(bps', memBPs')) \cup (spots \cap Shown(bps', memBPs'))
  /\ kept' = [bps |-> bps', memBPs |-> memBPs']
  /\ passed' = {}

-----------------------------------------------------------------------------
(* The server's side: tables that replace the old ones, counters cleared.  *)

(* syncSourceBreakpoints, instBPArgs, handleSetInstructionBreakpoints: a   *)
(* one-shot is a hit count of one; an instruction breakpoint has no        *)
(* logMessage, so that a log point is an ordinary breakpoint.              *)
Sent(bp) ==
  IF ~Stopping(bp) THEN Absent
  ELSE IF bp.kind = "log" THEN "plain" ELSE bp.kind
Instructions(m) == [a \in Addrs |-> Sent(m[a])]

syncSourceBreakpoints == inst' = Instructions(bps')

(* RunBudget over the given tables: a step, then the watchpoint it         *)
(* touched, then the breakpoint it reached, then the caller's stopAt.  A   *)
(* condition may hold or not, a hit count may be reached or not, a         *)
(* one-shot fires on its first hit.                                        *)
RunBudget(table, watches, budget, stopAt, stopped) ==
  LET at[i \in 0 .. budget] == IF i = 0 THEN pc ELSE Flow[at[i - 1]]
      touched(i) == Touch[at[i - 1]]
      watched(i) == \E t \in touched(i) : t[2] \in Accesses(watches[t[1]])
      must(i) == watched(i) \/ table[at[i]] \in {"plain", "once"} \/ at[i] \in stopAt
      may(i) == must(i) \/ table[at[i]] \in {"cond", "hits"}
  IN \E last \in 0 .. budget :
       /\ \A i \in 1 .. last - 1 : ~must(i)
       /\ IF stopped THEN last > 0 /\ may(last)
                     ELSE last = budget /\ (last > 0 => ~must(last))
       /\ pc' = at[last]
       /\ inst' = IF stopped /\ ~watched(last) /\ table[at[last]] = "once"
                    THEN [table EXCEPT ![at[last]] = "spent"] ELSE table
       /\ passed' = UNION {{Spot(at[i])} \cup touched(i) :
                             i \in 1 .. IF stopped THEN last - 1 ELSE last}

-----------------------------------------------------------------------------
(* The state file. *)

(* A plausible slip: a disabled breakpoint is not worth keeping. *)
SavedEnabled(m, w, speed) ==
  [bps |-> [a \in Addrs |-> IF Stopping(m[a]) THEN m[a] ELSE Absent],
   memBPs |-> w, hz |-> speed]

Saved(m, w, speed) == [bps |-> m, memBPs |-> w, hz |-> speed]
saveState == file' = Saved(bps', memBPs', hz')

Unreadable == {Absent, Torn, Newer}
Legacy(f) == "addrs" \in DOMAIN f      \* []uint16

(* loadState compiles the conditions against the symbols of this session.  *)
Recompiled(bp, known) == [bp EXCEPT !.rejected = @ \/ (bp.kind = "cond" /\ ~known)]

(* The array has no keys: a breakpoint comes back under its address, and   *)
(* of two with one address the later, in the order of a Go map, wins.      *)
Writers(m, a) == {k \in Addrs : m[k] # Absent /\ m[k].addr = a}
Orders(m) == {order \in [Addrs -> Addrs] :
                \A a \in Addrs : Writers(m, a) # {} => order[a] \in Writers(m, a)}

LoadedBPs(f, known) ==
  IF f \in Unreadable THEN {NoBPs}
  ELSE IF Legacy(f)
    THEN {[a \in Addrs |-> IF a \in f.addrs THEN newBP(a, "plain") ELSE Absent]}
    ELSE {[a \in Addrs |-> IF Writers(f.bps, a) = {} THEN Absent
                           ELSE Recompiled(f.bps[order[a]], known)] :
            order \in Orders(f.bps)}
LoadedMemBPs(f) == IF f \in Unreadable \/ Legacy(f) THEN NoWatch ELSE f.memBPs
LoadedHz(f) == IF f \in Unreadable THEN 0 ELSE f.hz

RunsOnStart == IF "-run-on-start" \in session.keys THEN BOOLEAN ELSE {FALSE}

Init ==
  /\ session \in Sessions
  /\ file \in session.files
  /\ \E known \in BOOLEAN : bps \in LoadedBPs(file, known)
  /\ memBPs = LoadedMemBPs(file) /\ hz = LoadedHz(file)
  /\ pc = Entry /\ running \in RunsOnStart
  /\ inst = NoBPs /\ data = NoWatch
  /\ timed = FALSE /\ debt = 0 /\ pace = NoPace
  /\ promised = {} /\ passed = {}
  /\ kept = [bps |-> bps, memBPs |-> memBPs]

(* The next session: New, then WithStatePath and the other options. *)
Restart ==
  /\ \E known \in BOOLEAN : bps' \in LoadedBPs(file', known)
  /\ memBPs' = LoadedMemBPs(file') /\ hz' = LoadedHz(file')
  /\ pc' = Entry /\ running' \in RunsOnStart
  /\ inst' = NoBPs /\ data' = NoWatch
  /\ timed' = FALSE /\ debt' = 0 /\ pace' = NoPace
  /\ promised' = {} /\ passed' = {}
  /\ kept' = [bps |-> bps', memBPs |-> memBPs']

(* `q`, and ctrl+c where no modal is open. *)
Quit == Offered("q") /\ file' = Saved(bps, memBPs, hz) /\ Restart

(* ctrl+c in the console, the help, the breakpoint or the symbol panel,    *)
(* which save nothing, or a kill.                                          *)
Abandon == Offered("ctrl+c") /\ file' = file /\ Restart

(* A kill after os.WriteFile truncated the file. *)
CrashInSave == Offered("crash") /\ file' = Torn /\ Restart

-----------------------------------------------------------------------------
(* Edits.  Each saves; not every one forwards. *)

Unmoved == UNCHANGED <<pc, running, pacing>>

Toggled(m, a) == [m EXCEPT ![a] = IF @ = Absent THEN newBP(a, "plain") ELSE Absent]

(* `b` at PC, enter in the symbol panel and a bare `:bp`. *)
Toggle(a) ==
  /\ bps' = Toggled(bps, a) /\ UNCHANGED <<memBPs, data>> /\ Unmoved
  /\ syncSourceBreakpoints /\ Edited({Spot(a)}) /\ saveState

ToggleHere == Offered("b") /\ Toggle(pc)
ToggleSymbol(a) == Offered("syms") /\ Toggle(a)

(* cmdBP: with a modifier the breakpoint is made anew; an `if` with nothing *)
(* after it, which `c` in the manager can leave, makes a plain one.         *)
cmdBP(a, kind) ==
  /\ Offered(":bp")
  /\ \/ kind = "plain" /\ Toggle(a)
     \/ /\ bps' = [bps EXCEPT ![a] = newBP(a, kind)]
        /\ UNCHANGED <<memBPs, data>> /\ Unmoved
        /\ syncSourceBreakpoints /\ Edited({Spot(a)}) /\ saveState

(* A source line with no code: a rejected breakpoint, for the panel. *)
cmdBPMiss ==
  /\ Offered(":bp miss")
  /\ bps' = [bps EXCEPT ![MissKey] =
       [addr |-> Zero, enabled |-> FALSE, kind |-> "plain", rejected |-> TRUE]]
  /\ UNCHANGED <<memBPs, tables>> /\ Unmoved
  /\ Edited({}) /\ saveState

(* updateBPManager: d and e on the breakpoint under the cursor, enter.     *)
ManagerDelete(a) ==
  /\ Offered("B") /\ bps[a] # Absent
  /\ bps' = [bps EXCEPT ![a] = Absent]
  /\ UNCHANGED <<memBPs, tables>> /\ Unmoved
  /\ Edited({}) /\ saveState
ManagerEnable(a) ==
  /\ Offered("B") /\ bps[a] # Absent
  /\ bps' = [bps EXCEPT ![a].enabled = ~@]
  /\ UNCHANGED <<memBPs, tables>> /\ Unmoved
  /\ Edited({}) /\ saveState
ManagerGo(a) ==
  /\ Offered("B") /\ bps[a] # Absent
  /\ pc' = a /\ passed' = {}
  /\ UNCHANGED <<running, maps, tables, file, pacing, promised, kept>>

(* cmdMemBP and `:rmbpr`, `:rmbpw`, `:rmbprw`. *)
cmdMemBP(d, kind) ==
  /\ Offered(":bpw")
  /\ memBPs' = [memBPs EXCEPT ![d] = IF @ = kind THEN Absent ELSE kind]
  /\ UNCHANGED <<bps, tables>> /\ Unmoved
  /\ Edited({}) /\ saveState
RemoveMemBP(d) ==
  /\ Offered(":bpw") /\ memBPs[d] # Absent
  /\ memBPs' = [memBPs EXCEPT ![d] = Absent]
  /\ UNCHANGED <<bps, tables>> /\ Unmoved
  /\ Edited({}) /\ saveState

-----------------------------------------------------------------------------
(* Runs and steps. *)

(* `:run`: a one-shot at the address, in place of whatever was there; it   *)
(* forwards the breakpoints but not the watchpoints, and saves nothing.    *)
RunTo(a) ==
  /\ Offered(":run")
  /\ bps' = [bps EXCEPT ![a] = newBP(a, "once")]
  /\ syncSourceBreakpoints
  /\ running' = TRUE
  /\ promised' = (promised \cap Shown(bps', memBPs)) \cup ShownSpots(bps')
  /\ passed' = {}
  /\ UNCHANGED <<pc, memBPs, data, file, pacing, kept>>

(* `r`: a run begins with both sets forwarded (syncSourceBPsAll). *)
PromiseAll == promised' = Shown(bps, memBPs)

(* A plausible slip: the server has every edit already. *)
RunTrustingTables ==
  /\ Offered("r")
  /\ running' = ~running
  /\ IF running' THEN PromiseAll ELSE UNCHANGED promised
  /\ passed' = {}
  /\ UNCHANGED <<pc, maps, tables, file, pacing, kept>>

Run ==
  /\ Offered("r")
  /\ running' = ~running
  /\ IF running' THEN inst' = Instructions(bps) /\ data' = memBPs /\ PromiseAll
                 ELSE UNCHANGED <<tables, promised>>
  /\ passed' = {}
  /\ UNCHANGED <<pc, maps, file, pacing, kept>>

(* runBudget: the steps of a throttled tick that comes `elapsed` after the *)
(* one before, and what stays owed.  It computes in int64, the division is *)
(* Go's, and the time is the wall clock's, which may step back.            *)
Wrap(n) == ((n + Word) % (2 * Word)) - Word
Trunc(n) == IF n >= 0 THEN n \div Second ELSE -((-n) \div Second)
Largest(speed) == Max({speed \div BurstsPerSecond, 1})
Wanted(elapsed) == Wrap(Trunc(Wrap(hz * elapsed)) + debt)
Throttled(elapsed) ==
  IF ~timed THEN <<hz \div FramesPerSecond, debt>>
  ELSE LET given == Min({Max({Wanted(elapsed), 0}), Largest(hz)})
       IN  <<given, Wanted(elapsed) - given>>
runBudget(elapsed) ==
  IF hz <= 0 THEN <<Flat, debt>> ELSE Throttled(elapsed)

(* Neither the product nor the sum is more than an int64 holds. *)
Fits(elapsed) ==
  /\ Wrap(hz * elapsed) = hz * elapsed
  /\ Wanted(elapsed) = Trunc(hz * elapsed) + debt

(* tickMsg while a run is on. *)
Tick(elapsed) ==
  /\ Offered("tick") /\ running
  /\ hz > 0 => pace.calls < MaxCalls
  /\ hz <= 0 \/ ~timed => elapsed = 0
  /\ LET budget == runBudget(elapsed)
     IN  /\ \E stopped \in BOOLEAN :
              /\ RunBudget(inst, data, budget[1], {}, stopped)
              /\ running' = ~stopped
         /\ debt' = budget[2]
         /\ timed' = (timed \/ hz > 0)
         /\ pace' = IF hz <= 0 THEN pace
                    ELSE [given |-> pace.given + budget[1], clock |-> pace.clock + elapsed,
                          calls |-> pace.calls + 1,
                          backs |-> IF elapsed < 0 THEN pace.backs + 1 ELSE pace.backs,
                          exact |-> pace.exact /\ (timed => Fits(elapsed))]
  /\ UNCHANGED <<maps, data, file, hz, promised, kept>>

(* One step, which the server does not watch: `s`, and `n` and `f` where   *)
(* there is nothing to run over.                                           *)
Single ==
  /\ pc' = Flow[pc] /\ passed' = {}
  /\ UNCHANGED <<running, maps, tables, file, pacing, promised, kept>>

(* A run inside one key: it does not ask or change whether a run is on. *)
Burst(budget, stopAt) ==
  /\ \E stopped \in BOOLEAN :
       RunBudget(Instructions(bps), memBPs, budget, stopAt, stopped)
  /\ data' = memBPs /\ PromiseAll
  /\ UNCHANGED <<running, maps, file, pacing, kept>>

Step == Offered("s") /\ Single
StepSweep == Offered("S") /\ Burst(Sweep, {})
stepOver ==
  /\ Offered("n")
  /\ IF pc \in DOMAIN Returns THEN Burst(Guard, {Returns[pc]}) ELSE Single
runToNextLine ==
  /\ Offered("f")
  /\ IF LineOf[pc] = Absent THEN Single
     ELSE Burst(Guard, {a \in Addrs : LineOf[a] \notin {Absent, LineOf[pc]}})

SetPC(a) ==
  /\ Offered(":pc") /\ pc' = a /\ passed' = {}
  /\ UNCHANGED <<running, maps, tables, file, pacing, promised, kept>>

ResetKey ==
  /\ Offered("R") /\ pc' = Entry /\ passed' = {}
  /\ UNCHANGED <<running, maps, tables, file, pacing, promised, kept>>

-----------------------------------------------------------------------------
(* Speed. *)

(* A plausible slip: what is owed at the old speed is still owed. *)
SpeedKeepingDebt(speed) ==
  /\ hz' = speed /\ timed' = FALSE /\ pace' = NoPace
  /\ UNCHANGED debt

Speed(speed) == hz' = speed /\ timed' = FALSE /\ debt' = 0 /\ pace' = NoPace

Preset == {i \in DOMAIN Presets : Presets[i] = hz}
Current == IF Preset = {} THEN 1 ELSE Min(Preset)
bumpSpeed(dir) ==
  /\ Offered("+")
  /\ Speed(Presets[Max({1, Min({Current + dir, Cardinality(DOMAIN Presets)})})])
  /\ passed' = {}
  /\ UNCHANGED <<pc, running, maps, tables, file, promised, kept>>

(* `0` and `:speed N`; neither is saved until something else is. *)
SetSpeed(speed) ==
  /\ Offered(":speed") /\ Speed(speed) /\ passed' = {}
  /\ UNCHANGED <<pc, running, maps, tables, file, promised, kept>>

-----------------------------------------------------------------------------
Edit ==
  \/ ToggleHere \/ cmdBPMiss
  \/ \E a \in session.where :
       \/ ToggleSymbol(a)
       \/ \E kind \in session.kinds : cmdBP(a, kind)
  \/ \E a \in Addrs : ManagerDelete(a) \/ ManagerEnable(a) \/ ManagerGo(a)
  \/ \E d \in session.watched :
       RemoveMemBP(d) \/ \E kind \in MemKinds : cmdMemBP(d, kind)

Go ==
  \/ Run \/ Step \/ StepSweep \/ stepOver \/ runToNextLine \/ ResetKey
  \/ \E a \in session.where : RunTo(a) \/ SetPC(a)
  \/ \E elapsed \in -MaxElapsed .. MaxElapsed : Tick(elapsed)
  \/ \E dir \in {-1, 1} : bumpSpeed(dir)
  \/ \E speed \in session.speeds : SetSpeed(speed)

Leave == Quit \/ Abandon \/ CrashInSave

Next == Edit \/ Go \/ Leave

Spec == Init /\ [][Next]_vars

-----------------------------------------------------------------------------
(* Properties. *)

(* "Called at the start of every run path so the server enforces the       *)
(* current sets" (syncSourceBPsAll): a run begun with r, S, n or f goes    *)
(* past no plain breakpoint and no watchpoint that the panels showed as    *)
(* enabled then and show since, whatever was loaded, edited, disabled or   *)
(* fired before; b, `:bp` and the symbol panel reach a run that is on, and *)
(* `:run` stops at every breakpoint shown (it forwards no watchpoint).     *)
ShownBreakpointsStop == passed \cap promised = {}

(* "Persists per-ROM session state" (docs/state-format.md): however a      *)
(* session ends, but for a crash within a save, the next one shows the     *)
(* breakpoints as the last edit left them, and no others; only a condition *)
(* whose symbols are gone is rejected.  After `q` this holds for what      *)
(* `:run` set too.  Rejected breakpoints come back under address zero, so  *)
(* that address is left out.                                               *)
Restored(m, w) ==
  /\ \A a \in Addrs \ {Zero} :
       m[a] # Absent /\ ~m[a].rejected =>
         /\ bps'[a] # Absent
         /\ \/ bps'[a] = m[a]
            \/ bps'[a] = [m[a] EXCEPT !.rejected = TRUE] /\ m[a].kind = "cond"
  /\ \A a \in Addrs : bps'[a] # Absent => Writers(m, a) # {}
  /\ memBPs' = w
RestartRestores ==
  [][/\ Quit => Restored(bps, memBPs)
     /\ Abandon => Restored(kept.bps, kept.memBPs)]_vars

(* cycleDebt carries what a capped tick could not give, and what one that  *)
(* found the clock set back gave too early: since the speed was set the    *)
(* ticks were given, or are owed, what the time that passed is worth, but  *)
(* for the fractions that the division of each tick drops, downwards, or   *)
(* upwards where the clock stepped back.  It ends with the first overflow. *)
PaceKept ==
  hz > 0 /\ timed /\ pace.exact =>
    LET due == (pace.given + debt - (hz \div FramesPerSecond)) * Second
    IN  /\ due - hz * pace.clock <= Second * pace.backs
        /\ hz * pace.clock - due <= Second * pace.calls
=============================================================================
