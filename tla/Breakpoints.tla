----------------------------- MODULE Breakpoints ------------------------------
(***************************************************************************)
(* Breakpoints, watchpoints and the BRK filter, and the two engines that   *)
(* enforce them: the DAP server's run loop ("loop", one goroutine per      *)
(* continue, while the Serve goroutine replaces breakpoint tables at any   *)
(* moment) and Server.RunBudget ("budget", driven by the TUI's tick on the *)
(* goroutine that also edits the tables).                                  *)
(*                                                                         *)
(* The CPU is a control-flow graph: from an address it goes to one of its  *)
(* successors and touches data addresses on the way, in a known order.     *)
(***************************************************************************)
EXTENDS Naturals, Sequences

CONSTANTS
  Addrs, Entry,   \* instruction addresses, and the one a reset goes to
  Flow,           \* successors of each; an address that is its own successor
                  \* is the self-jump that halts the CPU
  BrkAddrs,       \* the addresses that hold a BRK ($00)
  DataAddrs,
  Touch,          \* the data accesses of each instruction, in order
  Settings,       \* the engine and what the client sets, see below
  MaxHits,        \* bound on hit counters, above every hit target
  Absent

(* rebuildBPHit lays the tables over each other in this order. *)
KindOrder == <<"inst", "func", "src">>

Meta == [cond : BOOLEAN, target : 0 .. MaxHits - 1, log : BOOLEAN]
Plain == [cond |-> FALSE, target |-> 0, log |-> FALSE]   \* a nil *bpMeta

AccessKinds == {"read", "write"}

(* predicate: a host installed a stop predicate (SetStopPredicate);         *)
(* kinds, metas: the breakpoint tables and modifiers the client uses,       *)
(* breakAt: where; watchKinds, watchMetas, watchAt: the same for watches.   *)
Setting ==
  [engine : {"loop", "budget"}, predicate : BOOLEAN,
   kinds : SUBSET {"inst", "func", "src"}, metas : SUBSET Meta,
   breakAt : SUBSET Addrs, watchKinds : SUBSET {"read", "write", "readWrite"},
   watchMetas : SUBSET Meta, watchAt : SUBSET DataAddrs]

ASSUME BreakpointsAssumption ==
  /\ Entry \in Addrs /\ BrkAddrs \subseteq Addrs
  /\ Flow \in [Addrs -> SUBSET Addrs] /\ \A a \in Addrs : Flow[a] # {}
  /\ Touch \in [Addrs -> Seq([addr : DataAddrs, kind : AccessKinds])]
  /\ MaxHits \in Nat \ {0}
  /\ Settings \subseteq Setting
  /\ Absent \notin [meta : Meta, hits : 0 .. MaxHits]

VARIABLES
  setting,    \* which of them; it never changes
  pc, halted,
  tables,     \* bpsInst, bpsByName, bpsBySrc by address, with their metas
  watch,      \* dataBPs
  brk,        \* brkOnException
  pending,    \* dataBPPending
  hitAddr,    \* dataBPHitAddr
  place,      \* where the engine is; "idle": no run
  reason,     \* why the last run stopped
  arrived,    \* history: how this run reached pc, if no table changed since
  landed,     \* history: landings at each address that count as hits
  due,        \* history: the last instruction flagged a plain watchpoint
  touched     \* history: the watched addresses this run touched

cpuVars     == <<pc, halted>>
tableVars   == <<setting, tables, watch, brk, landed>>
pendingVars == <<pending, hitAddr>>
history     == <<arrived, due, touched>>
vars == <<cpuVars, tableVars, pendingVars, place, reason, history>>

Places  == {"idle", "top", "watch", "check", "lookup", "second"}
Reasons == {"none", "pause", "step", "exception", "breakpoint",
            "data breakpoint"}

(* "checked": by a step the checks follow; "unchecked": by the other one.  *)
Arrivals == {"no", "checked", "unchecked"}

Engine        == setting.engine
HostPredicate == setting.predicate
Kinds         == setting.kinds
Metas         == setting.metas
WatchKinds    == setting.watchKinds
WatchMetas    == setting.watchMetas

Entries      == [meta : Metas, hits : 0 .. MaxHits]
WatchEntries == [access : WatchKinds, meta : WatchMetas, hits : 0 .. MaxHits]

-------------------------------------------------------------------------------
(* The tables. *)

Set(kind, a) == kind \in Kinds /\ tables[kind][a] # Absent

(* bpHit *)
isBreakpoint(a) == \E kind \in Kinds : Set(kind, a)

(* The tables that contribute to bpMetaByPC, and the one that wins. *)
WithMeta(a) ==
  {i \in 1 .. Len(KindOrder) :
     Set(KindOrder[i], a) /\ tables[KindOrder[i]][a].meta # Plain}
Winner(a) == KindOrder[CHOOSE i \in WithMeta(a) : \A j \in WithMeta(a) : j <= i]

(* dataBP.matches *)
Matches(w, kind) == w # Absent /\ w.access \in {kind, "readWrite"}

(* shouldFireBP: count the hit, then the outcomes its modifiers allow; a   *)
(* condition may hold or not.                                              *)
Up(n) == IF n < MaxHits THEN n + 1 ELSE n

(* A plausible slip: a hit is counted where it is found and where it is    *)
(* looked up.                                                              *)
CountedTwice(e) == [e EXCEPT !.hits = Up(Up(@))]

Counted(e) == [e EXCEPT !.hits = Up(@)]

Outcomes(e) ==
  IF \/ e.meta.target > 0 /\ e.hits # e.meta.target
     \/ e.meta.log
    THEN {FALSE}
    ELSE IF e.meta.cond THEN BOOLEAN ELSE {TRUE}

NoTable == [a \in Addrs |-> Absent]

Init ==
  /\ setting \in Settings
  /\ pc = Entry /\ halted = FALSE
  /\ tables = [kind \in Kinds |-> NoTable]
  /\ watch = [d \in DataAddrs |-> Absent]
  /\ brk = FALSE
  /\ landed = [a \in Addrs |-> 0]
  /\ pending = FALSE /\ hitAddr \in DataAddrs
  /\ place = "idle" /\ reason = "none"
  /\ arrived = "no" /\ due = FALSE /\ touched = {}

-------------------------------------------------------------------------------
(* Replacing a table.  The run loop may be anywhere; a budgeted run is     *)
(* between two ticks.                                                      *)

MayEdit == Engine = "budget" => place = "idle"

(* The engine has gone on to the breakpoint check at pc. *)
Landing == place \in {"check", "lookup"}

(* setInstructionBreakpoints, setFunctionBreakpoints, setBreakpoints: the  *)
(* entries of the table are made anew.  What has landed so far is what the *)
(* entry that is looked up from now on has counted; a landing the engine   *)
(* has not looked up yet will be counted by that entry.                    *)
SetBreakpoints(kind, wanted) ==
  /\ MayEdit
  /\ tables' = [tables EXCEPT ![kind] =
       [a \in Addrs |-> IF wanted[a] = Absent THEN Absent
                        ELSE [meta |-> wanted[a], hits |-> 0]]]
  /\ arrived' = "no"
  /\ UNCHANGED <<setting, cpuVars, watch, brk, pendingVars, place, reason, due,
                 touched>>
  /\ landed' = [a \in Addrs |->
       IF WithMeta(a)' = {} THEN 0
       ELSE LET hits == tables'[Winner(a)'][a].hits
            IN IF a = pc /\ Landing THEN Up(hits) ELSE hits]

SetDataBreakpoints(wanted) ==
  /\ MayEdit
  /\ watch' = [d \in DataAddrs |->
       IF wanted[d] = Absent THEN Absent
       ELSE [access |-> wanted[d].access, meta |-> wanted[d].meta, hits |-> 0]]
  /\ due' = FALSE
  /\ UNCHANGED <<setting, cpuVars, tables, brk, landed, pendingVars, place,
                 reason, arrived, touched>>

SetExceptionBreakpoints ==
  /\ MayEdit
  /\ brk' \in BOOLEAN \ {brk}
  /\ UNCHANGED <<setting, cpuVars, tables, watch, landed, pendingVars, place,
                 reason, history>>

-------------------------------------------------------------------------------
(* One cpu.Step with the access hook armed. *)

Hits == {i \in 1 .. Len(Touch[pc]) :
           Matches(watch[Touch[pc][i].addr], Touch[pc][i].kind)}

(* "checked" when the checks of CheckWatch and CheckBreakpoint follow.     *)
Execute(how) ==
  \/ /\ halted
     /\ due' = FALSE
     /\ UNCHANGED <<cpuVars, pendingVars, arrived, touched>>
  \/ /\ ~halted
     /\ \E next \in Flow[pc] : pc' = next /\ halted' = (next = pc)
     /\ pending' = (pending \/ Hits # {})
     /\ hitAddr' = IF Hits = {} THEN hitAddr
                   ELSE Touch[pc][CHOOSE i \in Hits : \A j \in Hits : j <= i].addr
     /\ touched' = touched \cup {Touch[pc][i].addr : i \in Hits}
     /\ due' = (how = "checked" /\ Hits # {} /\ watch[hitAddr'].meta = Plain)
     /\ arrived' = how

Stop(why) ==
  /\ place' = "idle" /\ reason' = why

At(where) == place = where /\ UNCHANGED tableVars

-------------------------------------------------------------------------------
(* Starting: installDirtyHook drops an old watchpoint hit; RunBudget does  *)
(* so only when it arms a hook, that is with a watchpoint set.             *)

(* A plausible slip: a hit left over from the last run is kept.            *)
StartPending ==
  /\ At("idle")
  /\ place' = "top" /\ reason' = "none"
  /\ arrived' = "no" /\ due' = FALSE /\ touched' = {}
  /\ UNCHANGED <<cpuVars, pendingVars>>

Start ==
  /\ At("idle")
  /\ pending' = IF Engine = "loop" \/ \E d \in DataAddrs : watch[d] # Absent
                  THEN FALSE ELSE pending
  /\ place' = "top" /\ reason' = "none"
  /\ arrived' = "no" /\ due' = FALSE /\ touched' = {}
  /\ UNCHANGED <<cpuVars, hitAddr>>

(* A pause request, or the end of a tick's budget. *)
Pause ==
  /\ At("top")
  /\ Stop("pause")
  /\ UNCHANGED <<cpuVars, pendingVars, history>>

AtBrk == brk /\ pc \in BrkAddrs

StopAtBrk ==
  /\ At("top") /\ AtBrk
  /\ Stop("exception")
  /\ UNCHANGED <<cpuVars, pendingVars, history>>

AfterStep ==
  \/ halted' /\ Stop("exception")
  \/ ~halted' /\ HostPredicate /\ Engine = "loop" /\ Stop("step")
  \/ ~halted' /\ place' = "watch" /\ UNCHANGED reason

StepTop ==
  /\ At("top") /\ ~AtBrk
  /\ Execute("checked")
  /\ AfterStep

(* On to the breakpoint check: what is looked up there counts this landing. *)
GoOn ==
  /\ place' = "check"
  /\ landed' = [landed EXCEPT ![pc] = IF WithMeta(pc) = {} THEN 0 ELSE Up(@)]
  /\ UNCHANGED reason

StopAtWatch == Stop("data breakpoint") /\ UNCHANGED landed

(* A plausible slip: the pending flag is cleared but not looked into. *)
DropPending ==
  /\ place = "watch"
  /\ pending' = FALSE
  /\ GoOn
  /\ UNCHANGED <<setting, cpuVars, tables, watch, brk, hitAddr, history>>

(* The data breakpoint flagged by the step just taken. *)
CheckWatch ==
  /\ place = "watch"
  /\ pending' = FALSE
  /\ LET w == watch[hitAddr]
         e == IF w = Absent \/ w.meta = Plain THEN w ELSE Counted(w)
     IN \/ ~pending /\ GoOn /\ UNCHANGED watch
        \/ /\ pending
           /\ watch' = [watch EXCEPT ![hitAddr] = e]
           /\ \E fire \in IF w = Absent \/ w.meta = Plain THEN {TRUE}
                                                          ELSE Outcomes(e) :
                IF fire THEN StopAtWatch ELSE GoOn
  /\ UNCHANGED <<setting, cpuVars, tables, brk, hitAddr, history>>

(* RunBudget's stopAt, after the breakpoint check. *)
EndOfIteration ==
  \/ place' = "top" /\ UNCHANGED reason
  \/ Engine = "budget" /\ Stop("step")

(* A plausible slip: only breakpoints with modifiers are looked at. *)
CheckModified ==
  /\ At("check")
  /\ IF WithMeta(pc) # {} THEN place' = "lookup" /\ UNCHANGED reason
                          ELSE EndOfIteration
  /\ UNCHANGED <<cpuVars, pendingVars, history>>

CheckBreakpoint ==
  /\ At("check")
  /\ IF isBreakpoint(pc) THEN place' = "lookup" /\ UNCHANGED reason
                         ELSE EndOfIteration
  /\ UNCHANGED <<cpuVars, pendingVars, history>>

(* lookupBPMeta takes bpMu a second time: the tables may be others by now. *)
LookUp ==
  /\ place = "lookup"
  /\ IF WithMeta(pc) = {}
       THEN Stop("breakpoint") /\ UNCHANGED tables
       ELSE LET e == Counted(tables[Winner(pc)][pc]) IN
            /\ tables' = [tables EXCEPT ![Winner(pc)][pc] = e]
            /\ \E fire \in Outcomes(e) :
                 IF fire THEN Stop("breakpoint")
                 ELSE IF Engine = "loop" THEN place' = "second" /\ UNCHANGED reason
                 ELSE EndOfIteration
  /\ UNCHANGED <<setting, cpuVars, watch, brk, landed, pendingVars, history>>

(* "Continue past a non-firing bp": a step with none of the checks. *)
StepPastBreakpoint ==
  /\ At("second")
  /\ Execute("unchecked")
  /\ \/ halted' /\ Stop("exception")
     \/ ~halted' /\ place' = "top" /\ UNCHANGED reason

(* The user resets the CPU (`R`) while no run is on. *)
Reset ==
  /\ At("idle")
  /\ pc' = Entry /\ halted' = FALSE
  /\ arrived' = "no" /\ due' = FALSE /\ touched' = {}
  /\ reason' = "none"
  /\ UNCHANGED <<place, pendingVars>>

-------------------------------------------------------------------------------
(* Only the source table takes log messages: the handlers of the other two *)
(* build their metas with an empty one.                                    *)
Table(all, some, values) ==
  {[a \in all |-> IF a \in some THEN f[a] ELSE Absent] :
     f \in [some -> values \cup {Absent}]}
Wanted(kind) ==
  Table(Addrs, setting.breakAt, {m \in Metas : m.log => kind = "src"})
WantedData ==
  Table(DataAddrs, setting.watchAt, [access : WatchKinds, meta : WatchMetas])

Edit ==
  \/ \E kind \in Kinds : \E wanted \in Wanted(kind) : SetBreakpoints(kind, wanted)
  \/ \E wanted \in WantedData : SetDataBreakpoints(wanted)
  \/ SetExceptionBreakpoints

Run ==
  \/ Start \/ Pause \/ StopAtBrk \/ StepTop \/ CheckWatch \/ CheckBreakpoint
  \/ LookUp \/ StepPastBreakpoint

Next == Edit \/ Run \/ Reset

Spec == Init /\ [][Next]_vars

-------------------------------------------------------------------------------
(* Properties. *)

TypeOK ==
  /\ setting \in Settings
  /\ pc \in Addrs /\ halted \in BOOLEAN
  /\ tables \in [Kinds -> [Addrs -> Entries \cup {Absent}]]
  /\ watch \in [DataAddrs -> WatchEntries \cup {Absent}]
  /\ brk \in BOOLEAN /\ landed \in [Addrs -> 0 .. MaxHits]
  /\ pending \in BOOLEAN /\ hitAddr \in DataAddrs
  /\ place \in Places /\ reason \in Reasons
  /\ arrived \in Arrivals /\ due \in BOOLEAN
  /\ touched \subseteq DataAddrs

Executes == StepTop \/ StepPastBreakpoint

(* A breakpoint none of the tables has a modifier for. *)
Unmodified(a) == isBreakpoint(a) /\ WithMeta(a) = {}

(* "runLoop free-runs the CPU until ... PC lands on a breakpoint"          *)
(* (steps.go): whatever is set or cleared meanwhile, neither engine        *)
(* executes an unmodified breakpoint that a checked step landed on.        *)
StopsAtBreakpoint ==
  [][Executes /\ arrived = "checked" /\ ~halted => ~Unmodified(pc)]_vars

(* "The run stops with reason data breakpoint after the instruction        *)
(* completes" (docs/dap.md): once a checked step has flagged a plain       *)
(* watchpoint (the last one, when an instruction touches several), no      *)
(* other instruction is executed in that run.                              *)
StopsAtWatchpoint == [][Executes => ~due]_vars

(* A run of the loop that stops for a data breakpoint touched the address  *)
(* it reports in this very run: a hit flagged by the step on which an      *)
(* earlier run halted, or stopped for its predicate, is gone.              *)
WatchStopsAreReal ==
  Engine = "loop" /\ reason = "data breakpoint" => hitAddr \in touched

(* "5" -> fire on 5th hit (bpmeta.go): the count a hit target is compared   *)
(* with for equality is the count of landings, never behind it and never   *)
(* past it.  A breakpoint with a hit target stops a run at its Nth landing *)
(* that gets to the breakpoint check since the client set it, and at no    *)
(* other; with no other modifier it is never executed at that landing,     *)
(* however the landings spread over runs and whatever other tables and     *)
(* watchpoints are replaced between the two looks at the tables.           *)
StopsOnNthHit ==
  [][WithMeta(pc) # {} =>
     LET m == tables[Winner(pc)][pc].meta
     IN m.target > 0 =>
          /\ Executes /\ arrived = "checked" /\ ~halted /\ ~m.cond /\ ~m.log =>
               landed[pc] # m.target
          /\ place = "lookup" /\ place' = "idle" /\ reason' = "breakpoint" =>
               landed[pc] = m.target]_vars
===============================================================================
