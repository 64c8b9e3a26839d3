-------------------------- MODULE BreakpointsProofs ---------------------------
(***************************************************************************)
(* Proofs about Breakpoints, for every program, every setting of the       *)
(* client and every bound on the hit counters: both engines keep the       *)
(* promises of a run, whatever the client edits while the loop is on.      *)
(***************************************************************************)
EXTENDS Breakpoints, WellFoundedInduction, TLAPS

-------------------------------------------------------------------------------
(* The inductive invariant. *)

(* A run has no reason to have stopped yet. *)
RunningHasNoReason == place # "idle" => reason = "none"

(* A hit the loop still has to look at was flagged by this very run. *)
PendingIsReal == Engine = "loop" /\ place # "idle" /\ pending => hitAddr \in touched

(* Where the engine is about to execute, the checks are behind it. *)
ChecksDone ==
  place \in {"top", "second"} /\ arrived = "checked" /\ ~halted => ~Unmodified(pc)

(* A flagged plain watchpoint is looked at before anything else happens. *)
DueIsPending ==
  /\ due => place \in {"idle", "watch"}
  /\ due /\ place = "watch" =>
       pending /\ watch[hitAddr] # Absent /\ watch[hitAddr].meta = Plain

BreakInv ==
  /\ TypeOK
  /\ RunningHasNoReason
  /\ PendingIsReal
  /\ WatchStopsAreReal
  /\ ChecksDone
  /\ DueIsPending

-------------------------------------------------------------------------------
(* Lemmas about the operators. *)

LEMMA ElementOfSeq ==
  ASSUME NEW S, NEW seq \in Seq(S), NEW i \in 1 .. Len(seq)
  PROVE  seq[i] \in S
OBVIOUS

(* A nonempty set of positions has a last one: the one that leaves the     *)
(* fewest positions behind it.                                             *)
LEMMA LastExists ==
  ASSUME NEW n \in Nat, NEW S \in SUBSET (1 .. n), S # {}
  PROVE  \E i \in S : \A j \in S : j <= i
<1> DEFINE Left == {n - i : i \in S}
<1>1. Left \subseteq Nat /\ Left # {}
  <2>1. ASSUME NEW i \in S PROVE n - i \in Nat
    <3>1. i \in Nat /\ i <= n
      OBVIOUS
    <3> QED BY <3>1
  <2> QED BY <2>1
<1>2. PICK x \in Left : \A y \in Left : ~(<<y, x>> \in OpToRel(<, Nat))
  <2> HIDE DEF Left
  <2> QED BY <1>1, NatLessThanWellFounded, WFMin
<1>3. PICK i \in S : x = n - i
  OBVIOUS
<1>4. ASSUME NEW j \in S PROVE j <= i
  <2>1. ~(<<n - j, n - i>> \in OpToRel(<, Nat))
    BY <1>2, <1>3
  <2>2. ~(n - j < n - i)
    BY <2>1, <1>1 DEF OpToRel
  <2> QED BY <2>2
<1> QED BY <1>4

(* The last access of an instruction that meets a watchpoint is one of     *)
(* those that do, and its address is watched.                              *)
LEMMA LastHit ==
  ASSUME TypeOK, Hits # {},
         NEW last, last = CHOOSE i \in Hits : \A j \in Hits : j <= i
  PROVE  /\ last \in Hits
         /\ Touch[pc][last].addr \in DataAddrs
         /\ watch[Touch[pc][last].addr] # Absent
<1>1. Touch[pc] \in Seq([addr : DataAddrs, kind : AccessKinds])
  BY BreakpointsAssumption DEF TypeOK
<1>2. Len(Touch[pc]) \in Nat /\ Hits \in SUBSET (1 .. Len(Touch[pc]))
  BY <1>1 DEF Hits
<1>3. \E i \in Hits : \A j \in Hits : j <= i
  BY <1>2, LastExists
<1>4. last \in Hits
  BY <1>3
<1>5. Touch[pc][last] \in [addr : DataAddrs, kind : AccessKinds]
  <2>1. last \in 1 .. Len(Touch[pc])
    BY <1>2, <1>4
  <2> HIDE DEF Hits
  <2> QED BY <1>1, <2>1, ElementOfSeq
<1> QED BY <1>4, <1>5 DEF Hits, Matches

(* The table that wins an address holds an entry for it, with a modifier.  *)
LEMMA WinnerPosition ==
  ASSUME NEW a, WithMeta(a) # {}
  PROVE  \E i \in WithMeta(a) : Winner(a) = KindOrder[i]
<1>1. WithMeta(a) \in SUBSET (1 .. 3)
  BY DEF WithMeta, KindOrder
<1>2. \E i \in WithMeta(a) : \A j \in WithMeta(a) : j <= i
  BY <1>1, LastExists
<1> DEFINE last == CHOOSE i \in WithMeta(a) : \A j \in WithMeta(a) : j <= i
<1>3. last \in WithMeta(a)
  BY <1>2
<1>4. Winner(a) = KindOrder[last]
  BY DEF Winner
<1> HIDE DEF last
<1> QED BY <1>3, <1>4

LEMMA NextWinnerPosition ==
  ASSUME NEW a, WithMeta(a)' # {}
  PROVE  \E i \in WithMeta(a)' : Winner(a)' = KindOrder[i]
<1>1. WithMeta(a)' \in SUBSET (1 .. 3)
  BY DEF WithMeta, KindOrder
<1>2. \E i \in WithMeta(a)' : \A j \in WithMeta(a)' : j <= i
  BY <1>1, LastExists
<1> DEFINE last == CHOOSE i \in WithMeta(a)' : \A j \in WithMeta(a)' : j <= i
<1>3. last \in WithMeta(a)'
  BY <1>2
<1>4. Winner(a)' = KindOrder[last]
  BY DEF Winner
<1> HIDE DEF last
<1> QED BY <1>3, <1>4

LEMMA WinnerIsSet ==
  ASSUME TypeOK, NEW a \in Addrs, WithMeta(a) # {}
  PROVE  /\ Winner(a) \in Kinds
         /\ tables[Winner(a)][a] \in Entries
         /\ tables[Winner(a)][a] # Absent
<1>1. PICK i \in WithMeta(a) : Winner(a) = KindOrder[i]
  BY WinnerPosition
<1>2. Winner(a) \in Kinds /\ tables[Winner(a)][a] # Absent
  BY <1>1 DEF WithMeta, Set
<1> QED BY <1>2 DEF TypeOK

(* Counting a hit changes nothing else, and stays within the bound. *)
LEMMA CountedEntry ==
  ASSUME NEW e, NEW F, e \in [meta : F, hits : 0 .. MaxHits]
  PROVE  /\ Counted(e) \in [meta : F, hits : 0 .. MaxHits]
         /\ Counted(e).meta = e.meta
         /\ e.hits < MaxHits => Counted(e).hits = e.hits + 1
         /\ e.hits = MaxHits => Counted(e).hits = MaxHits
  BY BreakpointsAssumption DEF Counted, Up

LEMMA CountedWatch ==
  ASSUME NEW w \in WatchEntries
  PROVE  Counted(w) \in WatchEntries /\ Counted(w).meta = w.meta
<1>1. w \in [access : WatchKinds, meta : WatchMetas, hits : 0 .. MaxHits]
  BY DEF WatchEntries
<1>2. w.hits \in 0 .. MaxHits /\ MaxHits \in Nat
  BY <1>1, BreakpointsAssumption
<1> DEFINE h == Up(w.hits)
<1>3. h \in 0 .. MaxHits
  BY <1>2 DEF Up
<1>4. Counted(w) = [w EXCEPT !.hits = h]
  BY DEF Counted
<1> HIDE DEF h
<1> QED BY <1>1, <1>3, <1>4 DEF WatchEntries

(* What the client may ask for, read address by address. *)
LEMMA TableEntries ==
  ASSUME NEW all, NEW some, NEW values, NEW wanted \in Table(all, some, values),
         NEW a \in all
  PROVE  wanted[a] \in values \cup {Absent}
  BY DEF Table

(* Counting a hit of a breakpoint leaves every table in its type, and the  *)
(* breakpoint has a modifier still.                                        *)
LEMMA CountingKeepsMetas ==
  ASSUME TypeOK, WithMeta(pc) # {}, UNCHANGED <<setting, pc>>,
         tables' = [tables EXCEPT ![Winner(pc)][pc] =
                      Counted(tables[Winner(pc)][pc])]
  PROVE  /\ tables' \in [Kinds -> [Addrs -> Entries \cup {Absent}]]
         /\ WithMeta(pc)' # {}
<1> DEFINE w == Winner(pc)
           e == Counted(tables[w][pc])
<1>1. /\ w \in Kinds /\ pc \in Addrs
      /\ tables[w][pc] \in Entries /\ tables[w][pc] # Absent
  BY WinnerIsSet DEF TypeOK
<1>2. e \in Entries /\ e.meta = tables[w][pc].meta
  BY <1>1, CountedEntry DEF Entries
<1>3. tables \in [Kinds -> [Addrs -> Entries \cup {Absent}]]
  BY DEF TypeOK
<1>4. tables' = [tables EXCEPT ![w][pc] = e]
  OBVIOUS
<1> HIDE DEF e
<1>5. tables' \in [Kinds -> [Addrs -> Entries \cup {Absent}]]
  <2> HIDE DEF w
  <2>1. [tables[w] EXCEPT ![pc] = e] \in [Addrs -> Entries \cup {Absent}]
    BY <1>1, <1>2, <1>3
  <2>2. tables' = [tables EXCEPT ![w] = [tables[w] EXCEPT ![pc] = e]]
    BY <1>4
  <2> QED BY <1>1, <1>3, <2>1, <2>2
<1>6. PICK i \in WithMeta(pc) : w = KindOrder[i]
  BY WinnerPosition DEF TypeOK
<1>7. Kinds' = Kinds /\ tables'[w][pc] = e
  <2> HIDE DEF w
  <2> QED BY <1>1, <1>3, <1>4 DEF Kinds
<1>8. e # Absent
  BY <1>2, BreakpointsAssumption DEF TypeOK, Entries, Metas, Setting
<1>9. i \in WithMeta(pc)'
  <2> HIDE DEF w
  <2>1. i \in 1 .. Len(KindOrder) /\ tables[w][pc].meta # Plain
    BY <1>6 DEF WithMeta
  <2> QED BY <1>1, <1>2, <1>6, <1>7, <1>8, <2>1 DEF WithMeta, Set
<1> QED BY <1>5, <1>9

(* One instruction: what it leaves in the watchpoint variables.            *)
LEMMA ExecuteEffect ==
  ASSUME BreakInv, UNCHANGED tableVars, NEW how \in {"checked", "unchecked"},
         Execute(how)
  PROVE  /\ pc' \in Addrs /\ halted' \in BOOLEAN
         /\ pending' \in BOOLEAN /\ hitAddr' \in DataAddrs
         /\ arrived' \in Arrivals /\ due' \in BOOLEAN
         /\ touched' \subseteq DataAddrs
         /\ ~halted' => arrived' = how
         /\ (pending => hitAddr \in touched) => (pending' => hitAddr' \in touched')
         /\ due' => /\ how = "checked" /\ pending'
                    /\ watch'[hitAddr'] # Absent
                    /\ watch'[hitAddr'].meta = Plain
<1>1. CASE halted
  <2>1. /\ due' = FALSE
        /\ UNCHANGED <<pc, halted, pending, hitAddr, arrived, touched>>
    BY <1>1 DEF Execute, cpuVars, pendingVars
  <2> QED BY <1>1, <2>1 DEF BreakInv, TypeOK
<1>2. CASE ~halted
  <2> DEFINE last == CHOOSE i \in Hits : \A j \in Hits : j <= i
  <2>1. /\ \E next \in Flow[pc] : pc' = next /\ halted' = (next = pc)
        /\ pending' = (pending \/ Hits # {})
        /\ hitAddr' = IF Hits = {} THEN hitAddr ELSE Touch[pc][last].addr
        /\ touched' = touched \cup {Touch[pc][i].addr : i \in Hits}
        /\ due' = (how = "checked" /\ Hits # {} /\ watch[hitAddr'].meta = Plain)
        /\ arrived' = how
    BY <1>2 DEF Execute
  <2>2. Hits # {} => /\ last \in Hits
                    /\ Touch[pc][last].addr \in DataAddrs
                    /\ watch[Touch[pc][last].addr] # Absent
    BY LastHit DEF BreakInv
  <2>3. pc' \in Addrs /\ halted' \in BOOLEAN
    BY <2>1, BreakpointsAssumption DEF BreakInv, TypeOK
  <2>4. \A i \in Hits : Touch[pc][i].addr \in DataAddrs
    <3>1. Touch[pc] \in Seq([addr : DataAddrs, kind : AccessKinds])
      BY BreakpointsAssumption DEF BreakInv, TypeOK
    <3>2. ASSUME NEW i \in Hits PROVE Touch[pc][i] \in [addr : DataAddrs, kind : AccessKinds]
      <4>1. i \in 1 .. Len(Touch[pc])
        BY DEF Hits
      <4> QED BY <3>1, <4>1, ElementOfSeq
    <3> QED BY <3>2
  <2> HIDE DEF last
  <2>5. touched' \subseteq DataAddrs /\ hitAddr' \in DataAddrs
    BY <2>1, <2>2, <2>4 DEF BreakInv, TypeOK
  <2>6. Hits # {} => hitAddr' \in touched'
    BY <2>1, <2>2
  <2>7. watch' = watch
    BY DEF tableVars
  <2> QED
    BY <2>1, <2>2, <2>3, <2>5, <2>6, <2>7 DEF BreakInv, TypeOK, Arrivals
<1> QED BY <1>1, <1>2

(* What a replaced table makes of the landings stays within the bound.     *)
LEMMA RebasedType ==
  ASSUME BreakInv, UNCHANGED <<setting, pc>>,
         tables' \in [Kinds -> [Addrs -> Entries \cup {Absent}]],
         NEW kind, NEW wanted, SetBreakpoints(kind, wanted)
  PROVE  landed' \in [Addrs -> 0 .. MaxHits]
<1>1. ASSUME NEW a \in Addrs, WithMeta(a)' # {}
      PROVE  tables'[Winner(a)'][a].hits \in 0 .. MaxHits
  <2>1. PICK i \in WithMeta(a)' : Winner(a)' = KindOrder[i]
    BY <1>1, NextWinnerPosition
  <2>2. Winner(a)' \in Kinds /\ tables'[Winner(a)'][a] # Absent
    BY <2>1 DEF WithMeta, Set, Kinds
  <2>3. tables'[Winner(a)'][a] \in Entries
    BY <2>2
  <2> QED BY <2>3 DEF Entries
<1>2. \A n \in 0 .. MaxHits : Up(n) \in 0 .. MaxHits
  BY BreakpointsAssumption DEF Up
<1>3. 0 \in 0 .. MaxHits
  BY BreakpointsAssumption
<1>4. landed' = [a \in Addrs |->
        IF WithMeta(a)' = {} THEN 0
        ELSE IF a = pc /\ Landing THEN Up(tables'[Winner(a)'][a].hits)
             ELSE tables'[Winner(a)'][a].hits]
  BY DEF SetBreakpoints
<1> QED BY <1>1, <1>2, <1>3, <1>4

(* Going on to the breakpoint check counts one landing, or none.           *)
LEMMA LandedType ==
  ASSUME BreakInv, GoOn \/ UNCHANGED landed
  PROVE  landed' \in [Addrs -> 0 .. MaxHits]
<1>1. landed \in [Addrs -> 0 .. MaxHits] /\ pc \in Addrs
  BY DEF BreakInv, TypeOK
<1>2. \A n \in 0 .. MaxHits : Up(n) \in 0 .. MaxHits
  BY BreakpointsAssumption DEF Up
<1>3. 0 \in 0 .. MaxHits
  BY BreakpointsAssumption
<1> QED BY <1>1, <1>2, <1>3 DEF GoOn

-------------------------------------------------------------------------------
(* The invariant holds at the start and every step keeps it. *)

LEMMA InitInv == Init => BreakInv
<1> SUFFICES ASSUME Init PROVE BreakInv
  OBVIOUS
<1>1. tables \in [Kinds -> [Addrs -> Entries \cup {Absent}]]
  BY DEF Init, NoTable
<1>2. /\ watch \in [DataAddrs -> WatchEntries \cup {Absent}]
      /\ landed \in [Addrs -> 0 .. MaxHits]
  BY BreakpointsAssumption DEF Init
<1>3. TypeOK
  BY <1>1, <1>2, BreakpointsAssumption DEF Init, TypeOK, Places, Reasons, Arrivals
<1> QED
  BY <1>3 DEF Init, BreakInv, RunningHasNoReason, PendingIsReal,
              WatchStopsAreReal, ChecksDone, DueIsPending

LEMMA SetBreakpointsInv ==
  ASSUME BreakInv, NEW kind \in Kinds, NEW wanted \in Wanted(kind),
         SetBreakpoints(kind, wanted)
  PROVE  BreakInv'
<1> DEFINE new == [a \in Addrs |-> IF wanted[a] = Absent THEN Absent
                                  ELSE [meta |-> wanted[a], hits |-> 0]]
<1>1. new \in [Addrs -> Entries \cup {Absent}]
  <2>1. ASSUME NEW a \in Addrs, wanted[a] # Absent PROVE wanted[a] \in Metas
    <3>1. wanted[a] \in {m \in Metas : m.log => kind = "src"} \cup {Absent}
      BY TableEntries DEF Wanted
    <3> QED BY <2>1, <3>1
  <2>2. 0 \in 0 .. MaxHits
    BY BreakpointsAssumption
  <2> QED BY <2>1, <2>2 DEF Entries
<1>2. tables' = [tables EXCEPT ![kind] = new]
  BY DEF SetBreakpoints
<1> HIDE DEF new
<1>3. tables' \in [Kinds -> [Addrs -> Entries \cup {Absent}]]
  BY <1>1, <1>2 DEF BreakInv, TypeOK
<1>4. /\ arrived' = "no"
      /\ UNCHANGED <<setting, pc, halted, watch, brk, pending, hitAddr, place,
                     reason, due, touched>>
  BY DEF SetBreakpoints, cpuVars, pendingVars
<1>5. landed' \in [Addrs -> 0 .. MaxHits]
  BY <1>3, <1>4, RebasedType
<1>6. TypeOK'
  BY <1>3, <1>4, <1>5 DEF BreakInv, TypeOK, Arrivals, Kinds, Metas, WatchKinds,
                    WatchMetas, Entries, WatchEntries
<1> QED
  BY <1>4, <1>6 DEF BreakInv, RunningHasNoReason, PendingIsReal,
                    WatchStopsAreReal, ChecksDone, DueIsPending, Engine

LEMMA SetDataBreakpointsInv ==
  ASSUME BreakInv, NEW wanted \in WantedData, SetDataBreakpoints(wanted)
  PROVE  BreakInv'
<1>1. watch' \in [DataAddrs -> WatchEntries \cup {Absent}]
  <2>1. ASSUME NEW d \in DataAddrs, wanted[d] # Absent
        PROVE  wanted[d] \in [access : WatchKinds, meta : WatchMetas]
    <3>1. wanted[d] \in [access : WatchKinds, meta : WatchMetas] \cup {Absent}
      BY TableEntries DEF WantedData
    <3> QED BY <2>1, <3>1
  <2>2. 0 \in 0 .. MaxHits
    BY BreakpointsAssumption
  <2>3. ASSUME NEW d \in DataAddrs
        PROVE  (IF wanted[d] = Absent THEN Absent
                ELSE [access |-> wanted[d].access, meta |-> wanted[d].meta,
                      hits |-> 0]) \in WatchEntries \cup {Absent}
    BY <2>1, <2>2 DEF WatchEntries
  <2> QED BY <2>3 DEF SetDataBreakpoints
<1>2. /\ due' = FALSE
      /\ UNCHANGED <<setting, pc, halted, tables, brk, landed, pending, hitAddr,
                     place, reason, arrived, touched>>
  BY DEF SetDataBreakpoints, cpuVars, pendingVars
<1>3. TypeOK'
  BY <1>1, <1>2 DEF BreakInv, TypeOK, Kinds, Metas, WatchKinds, WatchMetas,
                    Entries, WatchEntries
<1> QED
  BY <1>2, <1>3 DEF BreakInv, RunningHasNoReason, PendingIsReal,
                    WatchStopsAreReal, ChecksDone, DueIsPending, Engine,
                    Unmodified, isBreakpoint, WithMeta, Set, Kinds

(* The steps of the engine that leave the tables and the CPU alone.        *)
LEMMA QuietInv ==
  ASSUME BreakInv, UNCHANGED <<tableVars, cpuVars, history>>,
         pending' \in BOOLEAN, hitAddr' = hitAddr, pending' => pending,
         place' \in Places, reason' \in Reasons,
         RunningHasNoReason', WatchStopsAreReal', ChecksDone', DueIsPending',
         place' # "idle" => place # "idle"
  PROVE  BreakInv'
<1>1. UNCHANGED <<setting, tables, watch, brk, landed, pc, halted, arrived, due,
                  touched>>
  BY DEF tableVars, cpuVars, history
<1>2. TypeOK'
  BY <1>1 DEF BreakInv, TypeOK, Kinds, Metas, WatchKinds, WatchMetas, Entries,
              WatchEntries
<1> QED
  BY <1>1, <1>2 DEF BreakInv, PendingIsReal, Engine

LEMMA StartInv == ASSUME BreakInv, Start PROVE BreakInv'
<1>1. /\ UNCHANGED <<setting, tables, watch, brk, landed, pc, halted, hitAddr>>
      /\ place' = "top" /\ reason' = "none" /\ arrived' = "no"
      /\ due' = FALSE /\ touched' = {}
      /\ pending' \in BOOLEAN /\ (Engine = "loop" => pending' = FALSE)
  BY DEF Start, At, tableVars, cpuVars, BreakInv, TypeOK
<1>2. TypeOK'
  BY <1>1 DEF BreakInv, TypeOK, Kinds, Metas, WatchKinds, WatchMetas, Entries,
              WatchEntries, Places, Reasons, Arrivals
<1> QED
  BY <1>1, <1>2 DEF BreakInv, RunningHasNoReason, PendingIsReal,
                    WatchStopsAreReal, ChecksDone, DueIsPending, Engine

LEMMA ResetInv == ASSUME BreakInv, Reset PROVE BreakInv'
<1>1. /\ UNCHANGED <<setting, tables, watch, brk, landed, place, pending, hitAddr>>
      /\ pc' = Entry /\ halted' = FALSE /\ place = "idle"
      /\ reason' = "none" /\ arrived' = "no" /\ due' = FALSE /\ touched' = {}
  BY DEF Reset, At, tableVars, pendingVars
<1>2. TypeOK'
  BY <1>1, BreakpointsAssumption
     DEF BreakInv, TypeOK, Kinds, Metas, WatchKinds, WatchMetas, Entries,
         WatchEntries, Places, Reasons, Arrivals
<1> QED
  BY <1>1, <1>2 DEF BreakInv, RunningHasNoReason, PendingIsReal,
                    WatchStopsAreReal, ChecksDone, DueIsPending

(* An executed instruction, with the checks to follow or not.              *)
LEMMA StepInv ==
  ASSUME BreakInv, UNCHANGED tableVars, place \in {"top", "second"},
         NEW how \in {"checked", "unchecked"}, Execute(how),
         \/ place' = "idle" /\ reason' \in {"exception", "step"}
         \/ place' = "watch" /\ reason' = reason
         \/ place' = "top" /\ reason' = reason /\ how = "unchecked" /\ ~halted'
  PROVE  BreakInv'
<1>1. /\ pc' \in Addrs /\ halted' \in BOOLEAN
      /\ pending' \in BOOLEAN /\ hitAddr' \in DataAddrs
      /\ arrived' \in Arrivals /\ due' \in BOOLEAN
      /\ touched' \subseteq DataAddrs
  BY ExecuteEffect
<1>2. UNCHANGED <<setting, tables, watch, brk, landed>>
  BY DEF tableVars
<1>3. TypeOK'
  BY <1>1, <1>2 DEF BreakInv, TypeOK, Kinds, Metas, WatchKinds, WatchMetas,
                    Entries, WatchEntries, Places, Reasons
<1>4. RunningHasNoReason' /\ WatchStopsAreReal'
  BY DEF BreakInv, RunningHasNoReason, WatchStopsAreReal
<1>5. PendingIsReal'
  BY <1>2, ExecuteEffect DEF BreakInv, PendingIsReal, Engine
<1>6. ChecksDone'
  BY ExecuteEffect DEF ChecksDone
<1>7. DueIsPending'
  BY ExecuteEffect DEF DueIsPending
<1> QED BY <1>3, <1>4, <1>5, <1>6, <1>7 DEF BreakInv

LEMMA StepTopInv == ASSUME BreakInv, StepTop PROVE BreakInv'
  BY StepInv DEF StepTop, AfterStep, Stop, At

LEMMA StepPastInv == ASSUME BreakInv, StepPastBreakpoint PROVE BreakInv'
  BY StepInv DEF StepPastBreakpoint, Stop, At

LEMMA StopInv ==
  ASSUME BreakInv, Pause \/ StopAtBrk PROVE BreakInv'
<1>1. /\ UNCHANGED <<tableVars, cpuVars, history, pendingVars>>
      /\ place = "top" /\ place' = "idle" /\ reason' \in {"pause", "exception"}
  BY DEF Pause, StopAtBrk, At, Stop
<1>2. /\ UNCHANGED <<pending, hitAddr, due>>
      /\ pending \in BOOLEAN
  BY <1>1 DEF pendingVars, history, BreakInv, TypeOK
<1>3. place' \in Places /\ reason' \in Reasons
  BY <1>1 DEF Places, Reasons
<1>4. /\ RunningHasNoReason' /\ WatchStopsAreReal' /\ ChecksDone'
      /\ DueIsPending'
  BY <1>1, <1>2 DEF BreakInv, RunningHasNoReason, WatchStopsAreReal, ChecksDone,
                    DueIsPending
<1> QED BY <1>1, <1>2, <1>3, <1>4, QuietInv

(* EndOfIteration after a check that found the address no plain breakpoint. *)
LEMMA CheckBreakpointInv == ASSUME BreakInv, CheckBreakpoint PROVE BreakInv'
<1>1. /\ UNCHANGED <<tableVars, cpuVars, history, pendingVars>>
      /\ place = "check"
      /\ \/ place' = "lookup" /\ reason' = reason
         \/ place' = "top" /\ reason' = reason /\ ~isBreakpoint(pc)
         \/ place' = "idle" /\ reason' = "step"
  BY DEF CheckBreakpoint, At, EndOfIteration, Stop
<1>2. /\ UNCHANGED <<pending, hitAddr, due, tables, setting, pc>>
      /\ pending \in BOOLEAN
  BY <1>1 DEF pendingVars, history, tableVars, cpuVars, BreakInv, TypeOK
<1>3. place' \in Places /\ reason' \in Reasons
  BY <1>1 DEF Places, Reasons, BreakInv, TypeOK
<1>4. RunningHasNoReason' /\ WatchStopsAreReal'
  BY <1>1 DEF BreakInv, RunningHasNoReason, WatchStopsAreReal
<1>5. ChecksDone'
  BY <1>1, <1>2 DEF ChecksDone, Unmodified, isBreakpoint, Set, Kinds
<1>6. DueIsPending'
  BY <1>1, <1>2 DEF BreakInv, DueIsPending
<1> QED BY <1>1, <1>2, <1>3, <1>4, <1>5, <1>6, QuietInv

LEMMA CheckWatchInv == ASSUME BreakInv, CheckWatch PROVE BreakInv'
<1> DEFINE w == watch[hitAddr]
           e == IF w = Absent \/ w.meta = Plain THEN w ELSE Counted(w)
<1>1. /\ UNCHANGED <<setting, pc, halted, tables, brk, hitAddr, arrived, due,
                     touched>>
      /\ place = "watch" /\ pending' = FALSE
      /\ landed' \in [Addrs -> 0 .. MaxHits]
      /\ \/ ~pending /\ place' = "check" /\ UNCHANGED <<watch, reason>>
         \/ /\ pending /\ watch' = [watch EXCEPT ![hitAddr] = e]
            /\ \/ place' = "idle" /\ reason' = "data breakpoint"
               \/ /\ place' = "check" /\ reason' = reason
                  /\ ~(w = Absent \/ w.meta = Plain)
  BY LandedType DEF CheckWatch, GoOn, StopAtWatch, Stop, cpuVars, history
<1>2. e \in WatchEntries \cup {Absent}
  BY CountedWatch DEF BreakInv, TypeOK
<1> HIDE DEF e
<1>3. watch' \in [DataAddrs -> WatchEntries \cup {Absent}]
  BY <1>1, <1>2 DEF BreakInv, TypeOK
<1>4. TypeOK'
  BY <1>1, <1>3 DEF BreakInv, TypeOK, Kinds, Metas, WatchKinds, WatchMetas,
                    Entries, WatchEntries, Places, Reasons
<1>5. RunningHasNoReason' /\ PendingIsReal' /\ ChecksDone'
  BY <1>1 DEF BreakInv, RunningHasNoReason, PendingIsReal, ChecksDone
<1>6. WatchStopsAreReal'
  BY <1>1 DEF BreakInv, PendingIsReal, WatchStopsAreReal, Engine,
              RunningHasNoReason
<1>7. DueIsPending'
  BY <1>1 DEF BreakInv, DueIsPending
<1> QED BY <1>4, <1>5, <1>6, <1>7 DEF BreakInv

LEMMA LookUpInv == ASSUME BreakInv, LookUp PROVE BreakInv'
<1>1. /\ UNCHANGED <<setting, pc, halted, watch, brk, landed, pending, hitAddr,
                     arrived, due, touched>>
      /\ place = "lookup"
  BY DEF LookUp, cpuVars, pendingVars, history
<1>2. /\ place' \in {"idle", "top", "second"}
      /\ place' # "idle" => reason' = reason
      /\ place' = "idle" => reason' \in {"breakpoint", "step"}
      /\ place' # "idle" => WithMeta(pc) # {}
  <2>1. CASE WithMeta(pc) = {}
    BY <2>1 DEF LookUp, Stop
  <2>2. CASE WithMeta(pc) # {}
    <3>1. PICK fire \in Outcomes(Counted(tables[Winner(pc)][pc])) :
             IF fire THEN Stop("breakpoint")
             ELSE IF Engine = "loop" THEN place' = "second" /\ UNCHANGED reason
             ELSE EndOfIteration
      BY <2>2 DEF LookUp
    <3> QED BY <2>2, <3>1 DEF Stop, EndOfIteration
  <2> QED BY <2>1, <2>2
<1>3. /\ tables' \in [Kinds -> [Addrs -> Entries \cup {Absent}]]
      /\ WithMeta(pc) # {} => WithMeta(pc)' # {}
  <2>1. CASE WithMeta(pc) = {}
    BY <2>1 DEF LookUp, BreakInv, TypeOK
  <2>2. CASE WithMeta(pc) # {}
    BY <1>1, <2>2, CountingKeepsMetas DEF LookUp, BreakInv
  <2> QED BY <2>1, <2>2
<1>4. TypeOK'
  BY <1>1, <1>2, <1>3
     DEF BreakInv, TypeOK, Kinds, Metas, WatchKinds, WatchMetas, Entries,
         WatchEntries, Places, Reasons
<1>5. RunningHasNoReason' /\ PendingIsReal' /\ WatchStopsAreReal'
  BY <1>1, <1>2 DEF BreakInv, RunningHasNoReason, PendingIsReal,
                    WatchStopsAreReal, Engine
<1>6. ChecksDone'
  BY <1>2, <1>3 DEF ChecksDone, Unmodified
<1>7. DueIsPending'
  BY <1>1, <1>2 DEF BreakInv, DueIsPending
<1> QED BY <1>4, <1>5, <1>6, <1>7 DEF BreakInv

LEMMA ExceptionInv == ASSUME BreakInv, SetExceptionBreakpoints PROVE BreakInv'
<1>1. /\ brk' \in BOOLEAN
      /\ UNCHANGED <<setting, pc, halted, tables, watch, landed, pending, hitAddr,
                     place, reason, arrived, due, touched>>
  BY DEF SetExceptionBreakpoints, cpuVars, pendingVars, history
<1>2. TypeOK'
  BY <1>1 DEF BreakInv, TypeOK, Kinds, Metas, WatchKinds, WatchMetas, Entries,
              WatchEntries
<1> QED
  BY <1>1, <1>2 DEF BreakInv, RunningHasNoReason, PendingIsReal,
                    WatchStopsAreReal, ChecksDone, DueIsPending, Engine,
                    Unmodified, isBreakpoint, WithMeta, Set, Kinds

LEMMA StutterInv == ASSUME BreakInv, UNCHANGED vars PROVE BreakInv'
<1>1. UNCHANGED <<setting, pc, halted, tables, watch, brk, landed, pending,
                  hitAddr, place, reason, arrived, due, touched>>
  BY DEF vars, cpuVars, tableVars, pendingVars, history
<1>2. TypeOK'
  BY <1>1 DEF BreakInv, TypeOK, Kinds, Metas, WatchKinds, WatchMetas, Entries,
              WatchEntries
<1> QED
  BY <1>1, <1>2 DEF BreakInv, RunningHasNoReason, PendingIsReal,
                    WatchStopsAreReal, ChecksDone, DueIsPending, Engine,
                    Unmodified, isBreakpoint, WithMeta, Set, Kinds

LEMMA NextInv == BreakInv /\ [Next]_vars => BreakInv'
<1> SUFFICES ASSUME BreakInv, [Next]_vars PROVE BreakInv'
  OBVIOUS
<1>1. CASE Edit
  BY <1>1, SetBreakpointsInv, SetDataBreakpointsInv, ExceptionInv DEF Edit
<1>2. CASE Start
  BY <1>2, StartInv
<1>3. CASE Pause \/ StopAtBrk
  BY <1>3, StopInv
<1>4. CASE StepTop
  BY <1>4, StepTopInv
<1>5. CASE CheckWatch
  BY <1>5, CheckWatchInv
<1>6. CASE CheckBreakpoint
  BY <1>6, CheckBreakpointInv
<1>7. CASE LookUp
  BY <1>7, LookUpInv
<1>8. CASE StepPastBreakpoint
  BY <1>8, StepPastInv
<1>9. CASE Reset
  BY <1>9, ResetInv
<1>10. CASE UNCHANGED vars
  BY <1>10, StutterInv
<1> QED
  BY <1>1, <1>2, <1>3, <1>4, <1>5, <1>6, <1>7, <1>8, <1>9, <1>10 DEF Next, Run

-------------------------------------------------------------------------------
(* Hit counts.  Between two looks at an address its entry has counted every *)
(* landing; between the landing and the look it is one behind.             *)

Count(a) == tables[Winner(a)][a].hits

LandingsCounted ==
  \A a \in Addrs : WithMeta(a) # {} =>
    landed[a] = IF a = pc /\ Landing THEN Up(Count(a)) ELSE Count(a)

(* A breakpoint whose only modifier is a hit target. *)
HitOnly(a) ==
  /\ WithMeta(a) # {}
  /\ LET m == tables[Winner(a)][a].meta IN m.target > 0 /\ ~m.cond /\ ~m.log

(* Where the engine is about to execute, the Nth landing is behind it. *)
NthDone ==
  place \in {"top", "second"} /\ arrived = "checked" /\ ~halted /\ HitOnly(pc)
    => landed[pc] # tables[Winner(pc)][pc].meta.target

HitInv == BreakInv /\ LandingsCounted /\ NthDone

LEMMA SameTables ==
  ASSUME UNCHANGED <<setting, tables>>, NEW a
  PROVE  /\ WithMeta(a)' = WithMeta(a) /\ Winner(a)' = Winner(a)
         /\ Count(a)' = Count(a)
  BY DEF WithMeta, Winner, Set, Kinds, Count

(* The steps that look at no breakpoint and go on to none.                 *)
LEMMA QuietLandings ==
  ASSUME LandingsCounted, UNCHANGED <<setting, tables, landed>>,
         \/ ~Landing /\ ~Landing'
         \/ pc' = pc /\ Landing' = Landing
  PROVE  LandingsCounted'
<1> SUFFICES ASSUME NEW a \in Addrs, WithMeta(a)' # {}
             PROVE  landed'[a] = IF a = pc' /\ Landing' THEN Up(Count(a)')
                                                        ELSE Count(a)'
  BY DEF LandingsCounted, Up
<1>1. WithMeta(a) # {} /\ Count(a)' = Count(a)
  BY SameTables
<1> QED BY <1>1 DEF LandingsCounted

LEMMA GoOnLandings ==
  ASSUME HitInv, UNCHANGED <<setting, tables, pc>>, place = "watch", GoOn
  PROVE  LandingsCounted'
<1>1. landed \in [Addrs -> 0 .. MaxHits] /\ ~Landing /\ Landing'
  BY DEF HitInv, BreakInv, TypeOK, Landing, GoOn
<1> SUFFICES ASSUME NEW a \in Addrs, WithMeta(a)' # {}
             PROVE  landed'[a] = IF a = pc' /\ Landing' THEN Up(Count(a)')
                                                        ELSE Count(a)'
  BY DEF LandingsCounted, Up
<1>2. WithMeta(a) # {} /\ Count(a)' = Count(a)
  BY SameTables
<1>3. landed[a] = Count(a)
  BY <1>1, <1>2 DEF HitInv, LandingsCounted
<1>4. landed'[a] = IF a = pc THEN Up(landed[a]) ELSE landed[a]
  BY <1>1, <1>2 DEF GoOn
<1> QED BY <1>1, <1>2, <1>3, <1>4

(* Looking a breakpoint up catches up with the landing. *)
LEMMA LookUpHit == ASSUME HitInv, LookUp PROVE LandingsCounted' /\ NthDone'
<1>1. /\ place = "lookup" /\ Landing
      /\ UNCHANGED <<setting, pc, halted, landed, arrived>>
  BY DEF LookUp, Landing, cpuVars, history
<1>2. CASE WithMeta(pc) = {}
  <2>1. place' = "idle" /\ tables' = tables
    BY <1>2 DEF LookUp, Stop
  <2>2. NthDone'
    BY <2>1 DEF NthDone
  <2>3. ASSUME NEW a \in Addrs, WithMeta(a)' # {}
        PROVE  landed'[a] = IF a = pc' /\ Landing' THEN Up(Count(a)')
                                                   ELSE Count(a)'
    <3>1. WithMeta(a)' = WithMeta(a) /\ Count(a)' = Count(a)
      BY <1>1, <2>1, SameTables
    <3>2. a # pc
      BY <1>2, <2>3, <3>1
    <3>3. ~Landing'
      BY <2>1 DEF Landing
    <3> QED BY <1>1, <2>3, <3>1, <3>2, <3>3 DEF HitInv, LandingsCounted
  <2> QED BY <2>2, <2>3 DEF LandingsCounted, Up
<1>3. CASE WithMeta(pc) # {}
  <2> DEFINE old == tables[Winner(pc)][pc]
             new == Counted(old)
  <2>1. PICK fire \in Outcomes(new) :
           IF fire THEN Stop("breakpoint")
           ELSE IF Engine = "loop" THEN place' = "second" /\ UNCHANGED reason
           ELSE EndOfIteration
    BY <1>3 DEF LookUp
  <2>2. tables' = [tables EXCEPT ![Winner(pc)][pc] = new]
    BY <1>3 DEF LookUp
  <2>3. ~Landing' /\ (place' # "idle" => FALSE \in Outcomes(new))
    BY <2>1 DEF Stop, EndOfIteration, Landing, Outcomes
  <2>4. /\ pc \in Addrs /\ Winner(pc) \in Kinds
        /\ tables \in [Kinds -> [Addrs -> Entries \cup {Absent}]]
        /\ old \in [meta : Metas, hits : 0 .. MaxHits]
    BY <1>3, WinnerIsSet DEF HitInv, BreakInv, TypeOK, Entries
  <2>5. new.meta = old.meta /\ new.hits = Up(old.hits)
    BY <2>4 DEF Counted
  <2>6. old # Absent /\ new # Absent
    <3>1. old \in Entries /\ new \in Entries
      BY <2>4, CountedEntry DEF Entries
    <3> QED BY <3>1, BreakpointsAssumption
            DEF Entries, Metas, Setting, HitInv, BreakInv, TypeOK
  <2>7. \A kind, a : kind \in Kinds /\ a \in Addrs =>
          tables'[kind][a] = IF kind = Winner(pc) /\ a = pc THEN new
                                                           ELSE tables[kind][a]
    <3> HIDE DEF new, old
    <3> QED BY <2>2, <2>4
  <2> HIDE DEF new
  <2>8. ASSUME NEW a \in Addrs
        PROVE  WithMeta(a)' = WithMeta(a) /\ Winner(a)' = Winner(a)
    <3>1. ASSUME NEW i \in 1 .. Len(KindOrder)
          PROVE  (/\ Set(KindOrder[i], a)'
                  /\ tables'[KindOrder[i]][a].meta # Plain)
                 <=> (/\ Set(KindOrder[i], a)
                      /\ tables[KindOrder[i]][a].meta # Plain)
      BY <1>1, <2>5, <2>6, <2>7 DEF Set, Kinds
    <3>2. WithMeta(a)' = WithMeta(a)
      BY <3>1 DEF WithMeta
    <3> QED BY <3>2 DEF Winner
  <2>9. ASSUME NEW a \in Addrs, WithMeta(a)' # {}
        PROVE  landed'[a] = Count(a)'
    <3>1. WithMeta(a) # {} /\ Winner(a)' = Winner(a) /\ Winner(a) \in Kinds
      BY <2>8, <2>9, WinnerIsSet DEF HitInv, BreakInv
    <3>2. landed[a] = IF a = pc THEN Up(Count(a)) ELSE Count(a)
      BY <1>1, <3>1 DEF HitInv, LandingsCounted
    <3>3. Count(a)' = IF a = pc THEN new.hits ELSE Count(a)
      BY <2>7, <3>1 DEF Count
    <3> QED BY <1>1, <2>5, <3>2, <3>3 DEF Count
  <2>10. LandingsCounted'
    BY <2>3, <2>9 DEF LandingsCounted, Count, Up
  <2>11. ASSUME place' # "idle", HitOnly(pc)'
         PROVE  landed'[pc'] # tables'[Winner(pc)'][pc'].meta.target
    <3>1. tables'[Winner(pc)'][pc'] = new
      BY <1>1, <2>4, <2>7, <2>8
    <3>2. new.hits # new.meta.target
      BY <2>3, <2>11, <3>1 DEF HitOnly, Outcomes
    <3>3. WithMeta(pc)' # {} /\ pc' \in Addrs
      BY <1>1, <2>4, <2>11 DEF HitOnly
    <3>4. landed'[pc'] = new.hits
      BY <1>1, <2>9, <3>1, <3>3 DEF Count
    <3> QED BY <3>1, <3>2, <3>4
  <2>12. NthDone'
    BY <2>11 DEF NthDone
  <2> QED BY <2>10, <2>12
<1> QED BY <1>2, <1>3

(* An executed instruction: it leaves the tables and what has landed.      *)
LEMMA StepHit ==
  ASSUME HitInv, StepTop \/ StepPastBreakpoint PROVE LandingsCounted' /\ NthDone'
<1>1. UNCHANGED <<setting, tables, landed>> /\ ~Landing /\ ~Landing'
  BY DEF StepTop, StepPastBreakpoint, AfterStep, At, Stop, tableVars, Landing
<1>2. LandingsCounted'
  BY <1>1, QuietLandings DEF HitInv
<1>3. CASE StepTop
  BY <1>2, <1>3 DEF StepTop, AfterStep, Stop, NthDone
<1>4. CASE StepPastBreakpoint
  <2>1. ~halted' => arrived' = "unchecked"
    BY <1>4, ExecuteEffect DEF StepPastBreakpoint, At, HitInv
  <2> QED BY <1>2, <2>1 DEF NthDone
<1> QED BY <1>2, <1>3, <1>4

LEMMA SetBreakpointsHit ==
  ASSUME HitInv, NEW kind, NEW wanted, SetBreakpoints(kind, wanted)
  PROVE  LandingsCounted' /\ NthDone'
<1>1. /\ arrived' = "no" /\ pc' = pc /\ place' = place
      /\ landed' = [a \in Addrs |->
           IF WithMeta(a)' = {} THEN 0
           ELSE IF a = pc /\ Landing THEN Up(tables'[Winner(a)'][a].hits)
                ELSE tables'[Winner(a)'][a].hits]
  BY DEF SetBreakpoints, cpuVars
<1>2. Landing' = Landing
  BY <1>1 DEF Landing
<1> QED BY <1>1, <1>2 DEF LandingsCounted, NthDone, Count, Up

LEMMA CheckHit ==
  ASSUME HitInv, CheckWatch \/ CheckBreakpoint
  PROVE  LandingsCounted' /\ NthDone'
<1>1. CASE CheckWatch
  <2>1. /\ UNCHANGED <<setting, tables, pc>> /\ place = "watch"
        /\ GoOn \/ (place' = "idle" /\ UNCHANGED landed)
    BY <1>1 DEF CheckWatch, StopAtWatch, Stop, cpuVars
  <2>2. place' # "top" /\ place' # "second"
    BY <2>1 DEF GoOn
  <2>3. LandingsCounted'
    <3>1. CASE GoOn
      BY <2>1, <3>1, GoOnLandings
    <3>2. CASE place' = "idle" /\ UNCHANGED landed
      BY <2>1, <3>2, QuietLandings DEF HitInv, Landing
    <3> QED BY <2>1, <3>1, <3>2
  <2> QED BY <2>2, <2>3 DEF NthDone
<1>2. CASE CheckBreakpoint
  <2>1. /\ UNCHANGED <<setting, tables, landed, pc>> /\ place = "check"
        /\ \/ place' = "lookup"
           \/ place' \in {"top", "idle"} /\ ~isBreakpoint(pc)
    BY <1>2 DEF CheckBreakpoint, At, EndOfIteration, Stop, cpuVars, tableVars
  <2>2. ~isBreakpoint(pc) => WithMeta(pc) = {}
    BY <1>2, WinnerIsSet DEF isBreakpoint, Set, HitInv, BreakInv, TypeOK
  <2>3. NthDone'
    BY <2>1, <2>2, SameTables DEF NthDone, HitOnly
  <2>4. LandingsCounted'
    <3> SUFFICES ASSUME NEW a \in Addrs, WithMeta(a)' # {}
                 PROVE  landed'[a] = IF a = pc' /\ Landing' THEN Up(Count(a)')
                                                            ELSE Count(a)'
      BY DEF LandingsCounted, Up
    <3>1. WithMeta(a)' = WithMeta(a) /\ Count(a)' = Count(a)
      BY <2>1, SameTables
    <3>2. Landing /\ (a = pc => Landing')
      BY <2>1, <2>2, <3>1 DEF Landing
    <3> QED BY <2>1, <3>1, <3>2 DEF HitInv, LandingsCounted
  <2> QED BY <2>3, <2>4
<1> QED BY <1>1, <1>2

LEMMA NextHit == HitInv /\ [Next]_vars => HitInv'
<1> SUFFICES ASSUME HitInv, [Next]_vars PROVE LandingsCounted' /\ NthDone'
  BY NextInv DEF HitInv
<1>1. CASE \E kind \in Kinds : \E wanted \in Wanted(kind) :
                SetBreakpoints(kind, wanted)
  BY <1>1, SetBreakpointsHit
<1>2. CASE \/ \E wanted \in WantedData : SetDataBreakpoints(wanted)
           \/ SetExceptionBreakpoints
           \/ UNCHANGED vars
  <2>1. UNCHANGED <<setting, tables, landed, pc, halted, place>>
        /\ arrived' = arrived
    BY <1>2 DEF SetDataBreakpoints, SetExceptionBreakpoints, vars, cpuVars,
                tableVars, history
  <2>2. LandingsCounted'
    BY <2>1, QuietLandings DEF HitInv, Landing
  <2>3. WithMeta(pc)' = WithMeta(pc) /\ Winner(pc)' = Winner(pc)
    BY <2>1 DEF WithMeta, Winner, Set, Kinds
  <2> QED BY <2>1, <2>2, <2>3 DEF HitInv, NthDone, HitOnly
<1>3. CASE Start \/ Pause \/ StopAtBrk \/ Reset
  <2>1. /\ UNCHANGED <<setting, tables, landed>> /\ ~Landing /\ ~Landing'
        /\ place' = "idle" \/ arrived' = "no"
    BY <1>3 DEF Start, Pause, StopAtBrk, Reset, At, Stop, Landing, tableVars
  <2>2. LandingsCounted'
    BY <2>1, QuietLandings DEF HitInv
  <2> QED BY <2>1, <2>2 DEF NthDone
<1>4. CASE StepTop \/ StepPastBreakpoint
  BY <1>4, StepHit
<1>5. CASE CheckWatch \/ CheckBreakpoint
  BY <1>5, CheckHit
<1>6. CASE LookUp
  BY <1>6, LookUpHit
<1> QED BY <1>1, <1>2, <1>3, <1>4, <1>5, <1>6 DEF Next, Edit, Run

LEMMA InitHit == Init => HitInv
<1> SUFFICES ASSUME Init PROVE LandingsCounted /\ NthDone
  BY InitInv DEF HitInv
<1>1. \A a \in Addrs : WithMeta(a) = {}
  <2>1. ASSUME NEW a \in Addrs, NEW kind \in Kinds PROVE ~Set(kind, a)
    BY DEF Init, Set, NoTable
  <2> QED BY <2>1 DEF WithMeta, Set
<1> QED BY <1>1 DEF Init, LandingsCounted, NthDone

-------------------------------------------------------------------------------
(* The theorems. *)

(* Whatever the client sets and clears, and wherever the engine is, every  *)
(* variable keeps its type and the inductive invariant holds.              *)
THEOREM Invariant == Spec => []BreakInv
  BY InitInv, NextInv, PTL DEF Spec

THEOREM TypeCorrect == Spec => []TypeOK
<1>1. BreakInv => TypeOK
  BY DEF BreakInv
<1> QED BY <1>1, Invariant, PTL

(* A data breakpoint stop of the run loop names an address this run        *)
(* touched.                                                                *)
THEOREM WatchStopsReal == Spec => []WatchStopsAreReal
<1>1. BreakInv => WatchStopsAreReal
  BY DEF BreakInv
<1> QED BY <1>1, Invariant, PTL

(* Neither engine executes an unmodified breakpoint a checked step landed  *)
(* on, whatever is set or cleared meanwhile.                               *)
THEOREM BreakpointsStop == Spec => StopsAtBreakpoint
<1>1. BreakInv /\ [Next]_vars =>
        [Executes /\ arrived = "checked" /\ ~halted => ~Unmodified(pc)]_vars
  BY DEF BreakInv, ChecksDone, Executes, StepTop, StepPastBreakpoint, At
<1> QED BY <1>1, Invariant, PTL DEF Spec, StopsAtBreakpoint

(* Once a checked step has flagged a plain watchpoint, no other            *)
(* instruction is executed in that run.                                    *)
THEOREM WatchpointsStop == Spec => StopsAtWatchpoint
<1>1. BreakInv /\ [Next]_vars => [Executes => ~due]_vars
  BY DEF BreakInv, DueIsPending, Executes, StepTop, StepPastBreakpoint, At
<1> QED BY <1>1, Invariant, PTL DEF Spec, StopsAtWatchpoint

(* A breakpoint with a hit target stops a run at its Nth landing past the  *)
(* checks that come before it and at no other, and with no other modifier  *)
(* it is never executed at that landing: for every hit target, program,    *)
(* mix of tables and order of edits the equality is never overshot.        *)
THEOREM NthHitStops == Spec => StopsOnNthHit
<1> DEFINE m == tables[Winner(pc)][pc].meta
           NthHit ==
             WithMeta(pc) # {} =>
             (m.target > 0 =>
               /\ Executes /\ arrived = "checked" /\ ~halted /\ ~m.cond /\ ~m.log =>
                    landed[pc] # m.target
               /\ place = "lookup" /\ place' = "idle" /\ reason' = "breakpoint" =>
                    landed[pc] = m.target)
<1>1. ASSUME HitInv, Next, WithMeta(pc) # {}, m.target > 0,
             Executes, arrived = "checked", ~halted, ~m.cond, ~m.log
      PROVE  landed[pc] # m.target
  <2>1. place \in {"top", "second"}
    BY <1>1 DEF Executes, StepTop, StepPastBreakpoint, At
  <2> QED BY <1>1, <2>1 DEF HitInv, NthDone, HitOnly
<1>2. ASSUME HitInv, Next, WithMeta(pc) # {}, m.target > 0,
             place = "lookup", place' = "idle", reason' = "breakpoint"
      PROVE  landed[pc] = m.target
  <2>1. LookUp
    BY <1>2 DEF Next, Edit, Run, SetBreakpoints, SetDataBreakpoints,
                SetExceptionBreakpoints, Start, Pause, StopAtBrk, StepTop,
                CheckWatch, CheckBreakpoint, StepPastBreakpoint, Reset, At
  <2> DEFINE old == tables[Winner(pc)][pc]
             new == Counted(old)
  <2>2. PICK fire \in Outcomes(new) :
           IF fire THEN Stop("breakpoint")
           ELSE IF Engine = "loop" THEN place' = "second" /\ UNCHANGED reason
           ELSE EndOfIteration
    BY <1>2, <2>1 DEF LookUp
  <2>3. TRUE \in Outcomes(new)
    BY <1>2, <2>2 DEF Stop, EndOfIteration, Outcomes
  <2>4. pc \in Addrs /\ old \in [meta : Metas, hits : 0 .. MaxHits]
    BY <1>2, WinnerIsSet DEF HitInv, BreakInv, TypeOK, Entries
  <2>5. new.meta = old.meta /\ new.hits = Up(Count(pc))
    BY <2>4 DEF Counted, Count
  <2>6. new.hits = m.target
    BY <1>2, <2>3, <2>5 DEF Outcomes
  <2>7. landed[pc] = Up(Count(pc))
    BY <1>2, <2>4 DEF HitInv, LandingsCounted, Landing
  <2> QED BY <2>5, <2>6, <2>7
<1>3. HitInv /\ [Next]_vars => [NthHit]_vars
  <2> SUFFICES ASSUME HitInv, Next PROVE NthHit
    OBVIOUS
  <2> QED BY <1>1, <1>2
<1> QED BY <1>3, InitHit, NextHit, PTL DEF Spec, StopsOnNthHit
===============================================================================
