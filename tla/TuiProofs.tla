------------------------------ MODULE TuiProofs -------------------------------
(***************************************************************************)
(* Proofs about Tui, for every program, every session and every speed: a   *)
(* run goes past nothing the panels promised, the next session shows what  *)
(* the last edit left, and a throttled run keeps its pace.                 *)
(***************************************************************************)
EXTENDS Tui, WellFoundedInduction, TLAPS

-------------------------------------------------------------------------------
(* The inductive invariant. *)

InstTables == [Addrs -> Kinds \cup {"spent", Absent}]
StateFiles == SavedFiles \cup ArrayFiles \cup {Absent, Torn, Newer}
PaceRecords ==
  [given : Int, clock : Int, calls : Int, backs : Int, exact : BOOLEAN]

TypeInv ==
  /\ session \in Sessions
  /\ pc \in Addrs
  /\ bps \in BPMaps /\ memBPs \in MemMaps
  /\ inst \in InstTables /\ data \in MemMaps
  /\ file \in StateFiles
  /\ hz \in Int /\ timed \in BOOLEAN /\ debt \in Int
  /\ pace \in PaceRecords

(* What was promised is in the tables the server runs with. *)
InTables(x, table, watches) ==
  \/ \E a \in Addrs : x = Spot(a) /\ table[a] = "plain"
  \/ \E d \in DataAddrs, k \in AccessKinds : x = <<d, k>> /\ k \in Accesses(watches[d])
PromisesInTables == \A x \in promised : InTables(x, inst, data)

(* What the last edit left is in the file, or was loaded from it. *)
KeptIsFiled ==
  \/ \E known \in BOOLEAN :
       kept.bps \in LoadedBPs(file, known) /\ kept.memBPs = LoadedMemBPs(file)
  \/ /\ kept.bps \in BPMaps /\ kept.memBPs \in MemMaps
     /\ \E speed \in Int : file = Saved(kept.bps, kept.memBPs, speed)

(* Before the first tick at a speed nothing was given and nothing is owed. *)
FreshPace == hz > 0 /\ ~timed => pace = NoPace /\ debt = 0

TuiInv ==
  /\ TypeInv
  /\ PromisesInTables
  /\ ShownBreakpointsStop
  /\ KeptIsFiled
  /\ FreshPace
  /\ PaceKept

-------------------------------------------------------------------------------
(* Arithmetic. *)

LEMMA MaxTwo ==
  ASSUME NEW a \in Int, NEW b \in Int
  PROVE  /\ Max({a, b}) = IF a >= b THEN a ELSE b
         /\ Min({a, b}) = IF a <= b THEN a ELSE b
BY DEF Max, Min

LEMMA DivFloor ==
  ASSUME NEW n \in Int, NEW d \in Nat \ {0}
  PROVE  /\ n \div d \in Int
         /\ (n \div d) * d <= n
         /\ n - (n \div d) * d <= d
         /\ n >= 0 => n \div d >= 0
OBVIOUS

LEMMA Distribute ==
  ASSUME NEW a \in Int, NEW b \in Int, NEW c \in Int
  PROVE  (a + b) * c = a * c + b * c /\ a * (b + c) = a * b + a * c
OBVIOUS

(* A nonempty set of naturals has a least one. *)
LEMMA LeastExists ==
  ASSUME NEW S \in SUBSET Nat, S # {}
  PROVE  \E n \in S : \A m \in S : n <= m
<1>1. PICK n \in S : \A m \in S : ~(<<m, n>> \in OpToRel(<, Nat))
  BY NatLessThanWellFounded, WFMin
<1>2. ASSUME NEW m \in S PROVE n <= m
  <2>1. ~(<<m, n>> \in OpToRel(<, Nat))
    BY <1>1
  <2>2. m \in Nat /\ n \in Nat
    OBVIOUS
  <2>3. ~(m < n)
    BY <2>1, <2>2 DEF OpToRel
  <2> QED BY <2>2, <2>3
<1> QED BY <1>2

-------------------------------------------------------------------------------
(* Runs. *)

LEMMA Steps ==
  ASSUME NEW a \in Addrs
  PROVE  Flow[a] \in Addrs /\ Touch[a] \subseteq DataAddrs \X AccessKinds
  BY TuiAssumption

(* The walk of a run is defined, and stays in the program.                 *)
LEMMA WalkExists ==
  ASSUME pc \in Addrs, NEW budget \in Nat
  PROVE  \E f \in [0 .. budget -> Addrs] :
           f = [i \in 0 .. budget |-> IF i = 0 THEN pc ELSE Flow[f[i - 1]]]
<1> DEFINE Walk(f, n) ==
             /\ f \in [0 .. n -> Addrs]
             /\ \A i \in 0 .. n : f[i] = IF i = 0 THEN pc ELSE Flow[f[i - 1]]
           Short == {n \in Nat : ~\E f : Walk(f, n)}
<1>1. Short = {}
  <2> SUFFICES ASSUME Short # {} PROVE FALSE
    OBVIOUS
  <2>1. PICK n \in Short : \A m \in Short : n <= m
    BY LeastExists
  <2>2. CASE n = 0
    <3>1. Walk([i \in 0 .. 0 |-> pc], 0)
      OBVIOUS
    <3> QED BY <2>2, <3>1
  <2>3. CASE n # 0
    <3>1. n - 1 \in Nat /\ n - 1 \notin Short
      <4>1. n \in Nat
        OBVIOUS
      <4> HIDE DEF Short
      <4> QED BY <2>1, <2>3, <4>1
    <3>2. PICK f : Walk(f, n - 1)
      BY <3>1
    <3> DEFINE g == [i \in 0 .. n |-> IF i = n THEN Flow[f[n - 1]] ELSE f[i]]
    <3>3. Flow[f[n - 1]] \in Addrs
      BY <3>1, <3>2, Steps
    <3>4. g \in [0 .. n -> Addrs]
      BY <2>1, <2>3, <3>2, <3>3
    <3>5. ASSUME NEW i \in 0 .. n
          PROVE  g[i] = IF i = 0 THEN pc ELSE Flow[g[i - 1]]
      <4>1. CASE i = n
        BY <2>1, <2>3, <4>1
      <4>2. CASE i # n
        BY <2>1, <2>3, <3>2, <4>2
      <4> QED BY <4>1, <4>2
    <3>6. Walk(g, n)
      BY <3>4, <3>5
    <3> QED BY <2>1, <3>6
  <2> QED BY <2>2, <2>3
<1>2. PICK f : Walk(f, budget)
  BY <1>1
<1>3. f = [i \in 0 .. budget |-> IF i = 0 THEN pc ELSE Flow[f[i - 1]]]
  BY <1>2
<1> QED BY <1>2, <1>3

LEMMA WalkStays ==
  ASSUME pc \in Addrs, NEW budget \in Nat
  PROVE  LET at[i \in 0 .. budget] == IF i = 0 THEN pc ELSE Flow[at[i - 1]]
         IN  \A i \in 0 .. budget : at[i] \in Addrs
<1> DEFINE at[i \in 0 .. budget] == IF i = 0 THEN pc ELSE Flow[at[i - 1]]
<1>1. at = [i \in 0 .. budget |-> IF i = 0 THEN pc ELSE Flow[at[i - 1]]]
  BY WalkExists
<1> HIDE DEF at
<1> DEFINE Off == {i \in 0 .. budget : at[i] \notin Addrs}
<1>2. Off = {}
  <2> SUFFICES ASSUME Off # {} PROVE FALSE
    OBVIOUS
  <2>1. PICK n \in Off : \A m \in Off : n <= m
    <3>1. Off \in SUBSET Nat
      OBVIOUS
    <3> HIDE DEF Off
    <3> QED BY <3>1, LeastExists
  <2>2. n # 0 /\ n \in 0 .. budget /\ at[n] = Flow[at[n - 1]] /\ at[n] \notin Addrs
    BY <1>1
  <2>3. n - 1 \in 0 .. budget /\ n - 1 \notin Off
    <3> HIDE DEF Off
    <3> QED BY <2>1, <2>2
  <2> QED BY <2>2, <2>3, Steps
<1>3. \A i \in 0 .. budget : at[i] \in Addrs
  BY <1>2
<1> QED BY <1>3 DEF at

(* A run over tables goes past nothing that is in them, and leaves the     *)
(* plain breakpoints in place.                                             *)
LEMMA RunBudgetOK ==
  ASSUME pc \in Addrs, NEW table \in InstTables, NEW watches, NEW budget \in Nat,
         NEW stopAt, NEW stopped \in BOOLEAN,
         RunBudget(table, watches, budget, stopAt, stopped)
  PROVE  /\ pc' \in Addrs /\ inst' \in InstTables
         /\ \A a \in Addrs : table[a] = "plain" => inst'[a] = "plain"
         /\ \A x \in passed' : ~InTables(x, table, watches)
<1> DEFINE at[i \in 0 .. budget] == IF i = 0 THEN pc ELSE Flow[at[i - 1]]
           touched(i) == Touch[at[i - 1]]
           watched(i) == \E t \in touched(i) : t[2] \in Accesses(watches[t[1]])
           must(i) == watched(i) \/ table[at[i]] \in {"plain", "once"} \/ at[i] \in stopAt
           may(i) == must(i) \/ table[at[i]] \in {"cond", "hits"}
<1>1. \A i \in 0 .. budget : at[i] \in Addrs
  BY WalkStays
<1> HIDE DEF at
<1>2. PICK last \in 0 .. budget :
        /\ \A i \in 1 .. last - 1 : ~must(i)
        /\ IF stopped THEN last > 0 /\ may(last)
                      ELSE last = budget /\ (last > 0 => ~must(last))
        /\ pc' = at[last]
        /\ inst' = IF stopped /\ ~watched(last) /\ table[at[last]] = "once"
                     THEN [table EXCEPT ![at[last]] = "spent"] ELSE table
        /\ passed' = UNION {{Spot(at[i])} \cup touched(i) :
                              i \in 1 .. IF stopped THEN last - 1 ELSE last}
  BY DEF RunBudget, at
<1>3. pc' \in Addrs /\ at[last] \in Addrs
  BY <1>1, <1>2
<1>4. inst' \in InstTables /\ \A a \in Addrs : table[a] = "plain" => inst'[a] = "plain"
  <2>1. CASE inst' = table
    BY <2>1
  <2>2. CASE inst' = [table EXCEPT ![at[last]] = "spent"] /\ table[at[last]] = "once"
    BY <1>3, <2>2 DEF InstTables
  <2> QED BY <1>2, <2>1, <2>2
<1>5. ASSUME NEW i \in 1 .. (IF stopped THEN last - 1 ELSE last)
      PROVE  /\ i \in 0 .. budget /\ i - 1 \in 0 .. budget /\ ~must(i)
             /\ at[i] \in Addrs /\ at[i - 1] \in Addrs
  <2>1. i \in 0 .. budget /\ i - 1 \in 0 .. budget
    OBVIOUS
  <2>2. ~must(i)
    <3> HIDE DEF must
    <3>1. CASE stopped
      BY <1>2, <3>1
    <3>2. CASE ~stopped
      BY <1>2, <3>2
    <3> QED BY <3>1, <3>2
  <2> QED BY <1>1, <2>1, <2>2
<1>6. ASSUME NEW x \in passed' PROVE ~InTables(x, table, watches)
  <2>1. PICK i \in 1 .. (IF stopped THEN last - 1 ELSE last) :
          x \in {Spot(at[i])} \cup touched(i)
    BY <1>2
  <2>2. /\ ~watched(i) /\ table[at[i]] # "plain"
        /\ touched(i) \subseteq DataAddrs \X AccessKinds
    BY <1>5, Steps
  <2>3. CASE x = Spot(at[i])
    BY <2>2, <2>3, TuiAssumption DEF InTables, Spot
  <2>4. CASE x \in touched(i)
    <3>1. x \in DataAddrs \X AccessKinds /\ x[2] \notin Accesses(watches[x[1]])
      BY <2>2, <2>4
    <3> QED BY <3>1, TuiAssumption DEF InTables, Spot
  <2> QED BY <2>1, <2>3, <2>4
<1> QED BY <1>3, <1>4, <1>6

-------------------------------------------------------------------------------
(* Panels and tables. *)

(* Forwarding a set of breakpoints brings all it shows into the table.     *)
LEMMA Forwarded ==
  ASSUME NEW m \in BPMaps
  PROVE  /\ Instructions(m) \in InstTables
         /\ \A a \in Addrs : Spot(a) \in ShownSpots(m) =>
              Instructions(m)[a] = "plain"
<1>1. \A a \in Addrs : m[a] \in Breakpoint \cup {Absent}
  BY DEF BPMaps
<1>2. ASSUME NEW a \in Addrs PROVE Sent(m[a]) \in Kinds \cup {"spent", Absent}
  BY <1>1 DEF Sent, Stopping, Breakpoint, Kinds
<1>3. ASSUME NEW a \in Addrs, Spot(a) \in ShownSpots(m) PROVE Sent(m[a]) = "plain"
  BY <1>3 DEF ShownSpots, Spot, Sent, Stopping
<1> QED BY <1>2, <1>3 DEF Instructions, InstTables

(* What is shown is an address or a watched access, never both.            *)
LEMMA ShownIs ==
  ASSUME NEW m, NEW w \in MemMaps, NEW x \in Shown(m, w)
  PROVE  \/ \E a \in Addrs : x = Spot(a) /\ x \in ShownSpots(m)
         \/ \E d \in DataAddrs, k \in AccessKinds : x = <<d, k>> /\ k \in Accesses(w[d])
<1>1. CASE x \in ShownSpots(m)
  BY <1>1 DEF ShownSpots
<1>2. CASE x \in ShownWatches(w)
  <2>1. PICK d \in DataAddrs : x \in {d} \X Accesses(w[d])
    BY <1>2 DEF ShownWatches
  <2>2. Accesses(w[d]) \subseteq AccessKinds
    BY DEF Accesses, MemMaps, MemKinds, AccessKinds
  <2> QED BY <2>1, <2>2
<1> QED BY <1>1, <1>2 DEF Shown

(* An access that is promised is no address. *)
LEMMA AccessIsNoSpot ==
  ASSUME NEW d \in DataAddrs, NEW k, NEW a
  PROVE  <<d, k>> # Spot(a)
  BY TuiAssumption DEF Spot

(* With both sets forwarded, all that is shown is in the tables.           *)
LEMMA AllForwarded ==
  ASSUME NEW m \in BPMaps, NEW w \in MemMaps, NEW x \in Shown(m, w)
  PROVE  InTables(x, Instructions(m), w)
  BY Forwarded, ShownIs DEF InTables

(* With the breakpoints forwarded, what was promised and is shown still is *)
(* in the tables, and so is every address shown.                           *)
LEMMA SpotsForwarded ==
  ASSUME NEW m \in BPMaps, NEW w \in MemMaps, NEW x \in Shown(m, w), NEW table,
         NEW watches,
         \/ InTables(x, table, watches)
         \/ \E a \in Addrs : x = Spot(a)
  PROVE  InTables(x, Instructions(m), watches)
<1>1. CASE \E a \in Addrs : x = Spot(a)
  <2>1. PICK a \in Addrs : x = Spot(a)
    BY <1>1
  <2>2. x \in ShownSpots(m)
    BY <2>1, ShownIs, AccessIsNoSpot
  <2> QED BY <2>1, <2>2, Forwarded DEF InTables
<1>2. CASE ~\E a \in Addrs : x = Spot(a)
  BY <1>2 DEF InTables
<1> QED BY <1>1, <1>2

-------------------------------------------------------------------------------
(* Files. *)

(* A file the program wrote is neither missing, torn nor of another schema. *)
LEMMA SavedIsRead ==
  ASSUME NEW m \in BPMaps, NEW w \in MemMaps, NEW speed \in Int
  PROVE  LET f == Saved(m, w, speed)
         IN  /\ f \in SavedFiles /\ f \notin Unreadable /\ ~Legacy(f)
             /\ f.bps = m /\ f.memBPs = w /\ f.hz = speed
<1> DEFINE f == Saved(m, w, speed)
<1>1. f \in SavedFiles /\ DOMAIN f = {"bps", "memBPs", "hz"}
  BY DEF Saved, SavedFiles
<1>2. f \notin Unreadable
  BY <1>1, TuiAssumption DEF Unreadable
<1>3. "addrs" \notin DOMAIN f
  BY <1>1
<1> QED BY <1>1, <1>2, <1>3 DEF Legacy, Saved

(* Only one breakpoint has a given address other than zero, the one that   *)
(* is kept under it.                                                       *)
LEMMA OneWriter ==
  ASSUME NEW m \in BPMaps, NEW a \in Addrs, a # Zero
  PROVE  Writers(m, a) = IF m[a] # Absent /\ m[a].addr = a THEN {a} ELSE {}
  BY DEF BPMaps, Keyed, Writers

(* Compiling a condition again may reject a breakpoint, no more. *)
LEMMA Recompiling ==
  ASSUME NEW bp \in Breakpoint, NEW known \in BOOLEAN
  PROVE  /\ Recompiled(bp, known) \in Breakpoint
         /\ Recompiled(bp, known).addr = bp.addr
         /\ Recompiled(bp, known).kind = bp.kind
         /\ ~Recompiled(bp, known).rejected =>
              Recompiled(bp, known) = bp /\ ~bp.rejected
         /\ ~bp.rejected =>
              \/ Recompiled(bp, known) = bp
              \/ Recompiled(bp, known) = [bp EXCEPT !.rejected = TRUE] /\ bp.kind = "cond"
  BY DEF Recompiled, Breakpoint

(* What a saved file loads as: under each address one of the breakpoints   *)
(* that had it.                                                            *)
LEMMA LoadedSaved ==
  ASSUME NEW f \in SavedFiles, NEW known \in BOOLEAN, NEW m \in LoadedBPs(f, known)
  PROVE  \A a \in Addrs :
           IF Writers(f.bps, a) = {} THEN m[a] = Absent
           ELSE \E k \in Writers(f.bps, a) :
                  /\ f.bps[k] \in Breakpoint /\ f.bps[k].addr = a
                  /\ m[a] = Recompiled(f.bps[k], known)
                  /\ m[a] \in Breakpoint /\ m[a].addr = a
<1>1. f \notin Unreadable /\ ~Legacy(f) /\ f.bps \in BPMaps
  <2>1. f \notin Unreadable
    BY TuiAssumption DEF Unreadable
  <2>2. DOMAIN f = {"bps", "memBPs", "hz"} /\ f.bps \in BPMaps
    BY DEF SavedFiles
  <2> QED BY <2>1, <2>2 DEF Legacy
<1>2. PICK order \in Orders(f.bps) :
        m = [a \in Addrs |-> IF Writers(f.bps, a) = {} THEN Absent
                             ELSE Recompiled(f.bps[order[a]], known)]
  BY <1>1 DEF LoadedBPs
<1>3. ASSUME NEW a \in Addrs, Writers(f.bps, a) # {}
      PROVE  /\ order[a] \in Writers(f.bps, a)
             /\ f.bps[order[a]] \in Breakpoint /\ f.bps[order[a]].addr = a
  <2>1. order[a] \in Writers(f.bps, a)
    BY <1>3 DEF Orders
  <2> QED BY <1>1, <2>1 DEF Writers, BPMaps
<1>4. ASSUME NEW a \in Addrs, Writers(f.bps, a) # {}
      PROVE  /\ m[a] = Recompiled(f.bps[order[a]], known)
             /\ m[a] \in Breakpoint /\ m[a].addr = a
  BY <1>2, <1>3, <1>4, Recompiling
<1>5. ASSUME NEW a \in Addrs, Writers(f.bps, a) = {} PROVE m[a] = Absent
  BY <1>2, <1>5
<1> QED BY <1>3, <1>4, <1>5

(* A file is loaded whole or not at all, and always as a state. *)
LEMMA LoadedOK ==
  ASSUME NEW f \in StateFiles
  PROVE  /\ \A known \in BOOLEAN : LoadedBPs(f, known) \subseteq BPMaps
         /\ LoadedMemBPs(f) \in MemMaps
         /\ LoadedHz(f) \in Int
<1>1. NoBPs \in BPMaps /\ NoWatch \in MemMaps
  BY DEF NoBPs, NoWatch, BPMaps, Keyed, MemMaps
<1>2. CASE f \in Unreadable
  BY <1>1, <1>2 DEF LoadedBPs, LoadedMemBPs, LoadedHz
<1>3. CASE f \in ArrayFiles
  <2>1. f \notin Unreadable /\ Legacy(f) /\ f.addrs \subseteq Addrs /\ f.hz \in Int
    BY <1>3, TuiAssumption DEF Unreadable, Legacy, ArrayFiles
  <2>2. [a \in Addrs |-> IF a \in f.addrs THEN newBP(a, "plain") ELSE Absent] \in BPMaps
    BY DEF newBP, BPMaps, Keyed, Breakpoint, Kinds
  <2> QED BY <1>1, <2>1, <2>2 DEF LoadedBPs, LoadedMemBPs, LoadedHz
<1>4. CASE f \in SavedFiles
  <2>1. f \notin Unreadable /\ ~Legacy(f) /\ f.memBPs \in MemMaps /\ f.hz \in Int
    <3>1. f \notin Unreadable
      BY <1>4, TuiAssumption DEF Unreadable
    <3>2. DOMAIN f = {"bps", "memBPs", "hz"} /\ f.memBPs \in MemMaps /\ f.hz \in Int
      BY <1>4 DEF SavedFiles
    <3> QED BY <3>1, <3>2 DEF Legacy
  <2>2. ASSUME NEW known \in BOOLEAN, NEW m \in LoadedBPs(f, known)
        PROVE  m \in BPMaps
    <3>1. m = [a \in Addrs |-> m[a]]
      BY <2>1 DEF LoadedBPs
    <3>2. \A a \in Addrs : m[a] = Absent \/ (m[a] \in Breakpoint /\ m[a].addr = a)
      BY <1>4, LoadedSaved
    <3> QED BY <3>1, <3>2 DEF BPMaps, Keyed
  <2> QED BY <2>1, <2>2 DEF LoadedMemBPs, LoadedHz
<1> QED BY <1>2, <1>3, <1>4 DEF StateFiles, Unreadable

-------------------------------------------------------------------------------
(* Steps that keep the invariant. *)

(* The maps of an edit.                                                    *)
LEMMA Entered ==
  ASSUME NEW m \in BPMaps, NEW a \in Addrs, NEW bp \in Breakpoint \cup {Absent},
         bp # Absent => bp.addr = a \/ (bp.addr = Zero /\ bp.rejected)
  PROVE  [m EXCEPT ![a] = bp] \in BPMaps
  BY DEF BPMaps, Keyed

LEMMA NewIsKeyed ==
  ASSUME NEW a \in Addrs, NEW kind \in Kinds
  PROVE  newBP(a, kind) \in Breakpoint /\ newBP(a, kind).addr = a
  BY DEF newBP, Breakpoint

LEMMA WatchEntered ==
  ASSUME NEW w \in MemMaps, NEW d \in DataAddrs, NEW kind \in MemKinds \cup {Absent}
  PROVE  [w EXCEPT ![d] = kind] \in MemMaps
  BY DEF MemMaps

LEMMA SpeedIsFixed ==
  ASSUME FreshPace, PaceKept, UNCHANGED pacing
  PROVE  FreshPace' /\ PaceKept'
<1>1. hz' = hz /\ timed' = timed /\ debt' = debt /\ pace' = pace
  BY DEF pacing
<1> QED BY <1>1 DEF FreshPace, PaceKept

(* An edit saves what it leaves; what it forwards is in the tables, and    *)
(* what it does not forward it only takes back.                            *)
LEMMA EditOK ==
  ASSUME TuiInv, NEW spots, Unmoved, UNCHANGED session, Edited(spots), saveState,
         bps' \in BPMaps, memBPs' \in MemMaps,
         \/ UNCHANGED tables /\ spots = {}
         \/ /\ syncSourceBreakpoints /\ UNCHANGED data
            /\ \E a \in Addrs : spots \subseteq {Spot(a)}
  PROVE  TuiInv'
<1>1. /\ session' = session /\ pc' = pc /\ data' = data
      /\ hz' = hz /\ timed' = timed /\ debt' = debt /\ pace' = pace
  BY DEF Unmoved, pacing, tables
<1>2. inst' \in InstTables /\ \A x \in promised' : InTables(x, inst', data')
  <2>1. CASE UNCHANGED tables /\ spots = {}
    <3>1. promised' \subseteq promised /\ inst' = inst /\ data' = data
      BY <2>1 DEF Edited, tables
    <3> QED BY <3>1 DEF TuiInv, TypeInv, PromisesInTables
  <2>2. CASE syncSourceBreakpoints /\ \E a \in Addrs : spots \subseteq {Spot(a)}
    <3>1. inst' = Instructions(bps')
      BY <2>2 DEF syncSourceBreakpoints
    <3>2. ASSUME NEW x \in promised' PROVE InTables(x, inst', data')
      <4>1. x \in Shown(bps', memBPs') /\ (x \in promised \/ x \in spots)
        BY DEF Edited
      <4>2. InTables(x, inst, data) \/ \E a \in Addrs : x = Spot(a)
        BY <2>2, <4>1 DEF TuiInv, PromisesInTables
      <4>3. InTables(x, Instructions(bps'), data)
        BY <4>1, <4>2, SpotsForwarded
      <4> QED BY <1>1, <3>1, <4>3
    <3> QED BY <3>1, <3>2, Forwarded
  <2> QED BY <2>1, <2>2
<1>3. PromisesInTables' /\ ShownBreakpointsStop'
  BY <1>2 DEF PromisesInTables, ShownBreakpointsStop, Edited
<1>4. file' = Saved(bps', memBPs', hz') /\ hz' \in Int
  BY <1>1 DEF saveState, TuiInv, TypeInv
<1>5. file' \in StateFiles
  BY <1>4, SavedIsRead DEF StateFiles
<1>6. TypeInv'
  BY <1>1, <1>2, <1>5 DEF TuiInv, TypeInv
<1>7. KeptIsFiled'
  <2>1. kept'.bps = bps' /\ kept'.memBPs = memBPs'
    BY DEF Edited
  <2> QED BY <1>4, <2>1 DEF KeptIsFiled
<1>8. FreshPace' /\ PaceKept'
  BY SpeedIsFixed DEF TuiInv, Unmoved
<1> QED BY <1>3, <1>6, <1>7, <1>8 DEF TuiInv

(* A session starts from what its file loads as. *)
LEMMA RestartOK ==
  ASSUME TuiInv, UNCHANGED session, file' \in StateFiles, Restart
  PROVE  TuiInv'
<1>1. PICK known \in BOOLEAN : bps' \in LoadedBPs(file', known)
  BY DEF Restart
<1>2. bps' \in BPMaps /\ memBPs' \in MemMaps /\ hz' \in Int
  BY <1>1, LoadedOK DEF Restart
<1>3. NoBPs \in InstTables /\ NoWatch \in MemMaps
  BY DEF NoBPs, NoWatch, InstTables, MemMaps
<1>4. TypeInv'
  <2>1. Entry \in Addrs
    BY TuiAssumption
  <2>2. NoPace \in PaceRecords
    BY DEF NoPace, PaceRecords
  <2>3. /\ session' = session /\ file' \in StateFiles
        /\ pc' = Entry /\ inst' = NoBPs /\ data' = NoWatch
        /\ timed' = FALSE /\ debt' = 0 /\ pace' = NoPace
    BY DEF Restart
  <2>4. debt' \in Int
    BY <2>3
  <2>5. timed' \in BOOLEAN
    BY <2>3
  <2> QED BY <1>2, <1>3, <2>1, <2>2, <2>3, <2>4, <2>5 DEF TuiInv, TypeInv
<1>5. KeptIsFiled'
  BY <1>1 DEF KeptIsFiled, Restart
<1>6. PromisesInTables' /\ ShownBreakpointsStop' /\ FreshPace' /\ PaceKept'
  BY DEF PromisesInTables, ShownBreakpointsStop, FreshPace, PaceKept, Restart
<1> QED BY <1>4, <1>5, <1>6 DEF TuiInv

(* A step the server does not watch goes past nothing.                     *)
LEMMA MoveOK ==
  ASSUME TuiInv, pc' \in Addrs, passed' = {},
         UNCHANGED <<session, maps, tables, file, pacing, promised, kept>>
  PROVE  TuiInv'
<1>1. /\ session' = session /\ bps' = bps /\ memBPs' = memBPs
      /\ inst' = inst /\ data' = data /\ file' = file
      /\ hz' = hz /\ timed' = timed /\ debt' = debt /\ pace' = pace
      /\ promised' = promised /\ kept' = kept
  BY DEF maps, tables, pacing
<1>2. TypeInv' /\ PromisesInTables' /\ ShownBreakpointsStop' /\ KeptIsFiled'
  BY <1>1 DEF TuiInv, TypeInv, PromisesInTables, ShownBreakpointsStop, KeptIsFiled
<1>3. FreshPace' /\ PaceKept'
  BY SpeedIsFixed DEF TuiInv
<1> QED BY <1>2, <1>3 DEF TuiInv

(* A run that begins with both sets forwarded can promise all it shows. *)
LEMMA AllPromised ==
  ASSUME TuiInv, PromiseAll
  PROVE  \A x \in promised' : InTables(x, Instructions(bps), memBPs)
  BY AllForwarded DEF TuiInv, TypeInv, PromiseAll

LEMMA RunOK ==
  ASSUME TuiInv, Run
  PROVE  TuiInv'
<1>1. /\ session' = session /\ pc' = pc /\ bps' = bps /\ memBPs' = memBPs
      /\ file' = file /\ kept' = kept /\ passed' = {}
      /\ hz' = hz /\ timed' = timed /\ debt' = debt /\ pace' = pace
  BY DEF Run, Offered, maps, pacing
<1>2. /\ inst' \in InstTables /\ data' \in MemMaps
      /\ \A x \in promised' : InTables(x, inst', data')
  <2>1. CASE running'
    <3>1. inst' = Instructions(bps) /\ data' = memBPs /\ PromiseAll
      BY <2>1 DEF Run
    <3> QED BY <3>1, AllPromised, Forwarded DEF TuiInv, TypeInv
  <2>2. CASE ~running'
    <3>1. inst' = inst /\ data' = data /\ promised' = promised
      BY <2>2 DEF Run, tables
    <3> QED BY <3>1 DEF TuiInv, TypeInv, PromisesInTables
  <2> QED BY <2>1, <2>2
<1>3. TypeInv' /\ PromisesInTables' /\ ShownBreakpointsStop' /\ KeptIsFiled'
  BY <1>1, <1>2
  DEF TuiInv, TypeInv, PromisesInTables, ShownBreakpointsStop, KeptIsFiled
<1>4. FreshPace' /\ PaceKept'
  BY SpeedIsFixed DEF TuiInv, Run
<1> QED BY <1>3, <1>4 DEF TuiInv

(* `:run` forwards the breakpoints, and promises no watchpoint anew. *)
LEMMA RunToOK ==
  ASSUME TuiInv, NEW a \in Addrs, RunTo(a)
  PROVE  TuiInv'
<1>1. /\ session' = session /\ pc' = pc /\ memBPs' = memBPs /\ data' = data
      /\ file' = file /\ kept' = kept /\ passed' = {}
      /\ hz' = hz /\ timed' = timed /\ debt' = debt /\ pace' = pace
  BY DEF RunTo, Offered, pacing
<1>2. bps' \in BPMaps /\ inst' = Instructions(bps')
  <2>1. newBP(a, "once") \in Breakpoint /\ newBP(a, "once").addr = a
    BY NewIsKeyed DEF Kinds
  <2> QED BY <2>1, Entered DEF RunTo, syncSourceBreakpoints, TuiInv, TypeInv
<1>3. ASSUME NEW x \in promised' PROVE InTables(x, inst', data')
  <2>1. /\ x \in Shown(bps', memBPs)
        /\ x \in promised \/ x \in ShownSpots(bps')
    BY DEF RunTo, Shown
  <2>2. InTables(x, inst, data) \/ \E b \in Addrs : x = Spot(b)
    BY <2>1 DEF TuiInv, PromisesInTables, ShownSpots
  <2>3. InTables(x, Instructions(bps'), data)
    BY <1>2, <2>1, <2>2, SpotsForwarded DEF TuiInv, TypeInv
  <2> QED BY <1>1, <1>2, <2>3
<1>4. TypeInv' /\ PromisesInTables' /\ ShownBreakpointsStop' /\ KeptIsFiled'
  BY <1>1, <1>2, <1>3, Forwarded
  DEF TuiInv, TypeInv, PromisesInTables, ShownBreakpointsStop, KeptIsFiled
<1>5. FreshPace' /\ PaceKept'
  BY SpeedIsFixed DEF TuiInv, RunTo
<1> QED BY <1>4, <1>5 DEF TuiInv

LEMMA BurstOK ==
  ASSUME TuiInv, UNCHANGED session, NEW budget \in Nat, NEW stopAt,
         Burst(budget, stopAt)
  PROVE  TuiInv'
<1>1. /\ session' = session /\ bps' = bps /\ memBPs' = memBPs /\ data' = memBPs
      /\ file' = file /\ kept' = kept /\ PromiseAll
      /\ hz' = hz /\ timed' = timed /\ debt' = debt /\ pace' = pace
  BY DEF Burst, maps, pacing
<1>2. PICK stopped \in BOOLEAN :
        RunBudget(Instructions(bps), memBPs, budget, stopAt, stopped)
  BY DEF Burst
<1>3. Instructions(bps) \in InstTables
  BY Forwarded DEF TuiInv, TypeInv
<1>4. /\ pc' \in Addrs /\ inst' \in InstTables
      /\ \A a \in Addrs : Instructions(bps)[a] = "plain" => inst'[a] = "plain"
      /\ \A x \in passed' : ~InTables(x, Instructions(bps), memBPs)
  <2>1. pc \in Addrs
    BY DEF TuiInv, TypeInv
  <2> QED BY <1>2, <1>3, <2>1, RunBudgetOK
<1>5. \A x \in promised' : InTables(x, Instructions(bps), memBPs)
  BY <1>1, AllPromised
<1>6. PromisesInTables'
  BY <1>1, <1>4, <1>5 DEF PromisesInTables, InTables
<1>7. TypeInv' /\ ShownBreakpointsStop' /\ KeptIsFiled'
  BY <1>1, <1>4, <1>5 DEF TuiInv, TypeInv, ShownBreakpointsStop, KeptIsFiled
<1>8. FreshPace' /\ PaceKept'
  BY SpeedIsFixed DEF TuiInv, Burst
<1> QED BY <1>6, <1>7, <1>8 DEF TuiInv

-------------------------------------------------------------------------------
(* The pace of a run. *)

LEMMA Positive ==
  /\ Second \in Nat \ {0} /\ FramesPerSecond \in Nat \ {0}
  /\ BurstsPerSecond \in Nat \ {0} /\ Word \in Nat \ {0}
  /\ Flat \in Nat /\ Sweep \in Nat /\ Guard \in Nat /\ MaxElapsed \in Nat
  BY TuiAssumption

(* The division of a tick drops less than one, towards zero. *)
LEMMA TruncDrops ==
  ASSUME NEW n \in Int
  PROVE  /\ Trunc(n) \in Int
         /\ Trunc(n) * Second - n <= Second
         /\ n >= 0 => Trunc(n) * Second - n <= 0
         /\ n - Trunc(n) * Second <= Second
<1> DEFINE up == n \div Second
           down == (-n) \div Second
<1>1. up \in Int /\ up * Second <= n /\ n - up * Second <= Second
  BY DivFloor, Positive
<1>2. down \in Int /\ down * Second <= -n /\ (-n) - down * Second <= Second
  BY DivFloor, Positive
<1> HIDE DEF up, down
<1>3. CASE n >= 0
  <2>1. Trunc(n) = up
    BY <1>3 DEF Trunc, up
  <2>2. up * Second \in Int
    BY <1>1, Positive
  <2> QED BY <1>1, <2>1, <2>2, Positive
<1>4. CASE n < 0
  <2>1. Trunc(n) = -down
    BY <1>4 DEF Trunc, down
  <2>2. (-down) * Second = -(down * Second) /\ down * Second \in Int
    BY <1>2, Positive
  <2> QED BY <1>2, <1>4, <2>1, <2>2, Positive
<1> QED BY <1>3, <1>4

(* What an int64 makes of a number is a number. *)
LEMMA WrapIsInt ==
  ASSUME NEW n \in Int
  PROVE  Wrap(n) \in Int
<1>1. 2 * Word \in Nat \ {0} /\ n + Word \in Int
  BY Positive
<1>2. (n + Word) % (2 * Word) \in Int
  BY <1>1
<1> QED BY <1>2, Positive DEF Wrap

(* A tick is given no negative number of steps, and a throttled one leaves *)
(* owed what it was not given of what it wanted.                           *)
LEMMA TickIsGiven ==
  ASSUME TypeInv, NEW elapsed \in Int
  PROVE  /\ runBudget(elapsed)[1] \in Nat /\ runBudget(elapsed)[2] \in Int
         /\ hz > 0 /\ timed =>
              runBudget(elapsed)[1] + runBudget(elapsed)[2] = Wanted(elapsed)
         /\ hz > 0 /\ ~timed =>
              runBudget(elapsed) = <<hz \div FramesPerSecond, debt>>
         /\ hz <= 0 => runBudget(elapsed)[2] = debt
<1>1. hz \in Int /\ debt \in Int /\ timed \in BOOLEAN
  BY DEF TypeInv
<1>2. CASE hz <= 0
  BY <1>1, <1>2, Positive DEF runBudget
<1>3. CASE hz > 0 /\ ~timed
  <2>1. hz \div FramesPerSecond \in Nat
    BY <1>1, <1>3, DivFloor, Positive
  <2> QED BY <1>1, <1>3, <2>1 DEF runBudget, Throttled
<1>4. CASE hz > 0 /\ timed
  <2> DEFINE wanted == Max({Wanted(elapsed), 0})
             given == Min({wanted, Largest(hz)})
  <2>1. Wanted(elapsed) \in Int
    <3>1. Wrap(hz * elapsed) \in Int
      BY <1>1, WrapIsInt
    <3>2. Trunc(Wrap(hz * elapsed)) \in Int
      BY <3>1, TruncDrops
    <3> QED BY <1>1, <3>2, WrapIsInt DEF Wanted
  <2>2. Largest(hz) \in Nat
    <3>1. hz \div BurstsPerSecond \in Int
      BY <1>1, DivFloor, Positive
    <3> QED BY <3>1, MaxTwo DEF Largest
  <2>3. wanted \in Nat
    <3> DEFINE due == Wanted(elapsed)
    <3>1. due \in Int
      BY <2>1
    <3> HIDE DEF due
    <3>2. Max({due, 0}) \in Nat
      BY <3>1, MaxTwo
    <3> QED BY <3>2 DEF due
  <2>4. given \in Nat
    <3> DEFINE largest == Largest(hz)
    <3>1. largest \in Nat
      BY <2>2
    <3> HIDE DEF wanted, largest
    <3>2. wanted \in Int /\ largest \in Int
      BY <2>3, <3>1
    <3>3. Min({wanted, largest}) = IF wanted <= largest THEN wanted ELSE largest
      BY <3>2, MaxTwo
    <3>4. Min({wanted, largest}) \in Nat
      BY <2>3, <3>1, <3>3
    <3> QED BY <3>4 DEF largest
  <2>5. runBudget(elapsed) = <<given, Wanted(elapsed) - given>>
    BY <1>1, <1>4 DEF runBudget, Throttled
  <2> HIDE DEF given
  <2> QED BY <1>1, <1>4, <2>1, <2>4, <2>5
<1> QED BY <1>1, <1>2, <1>3, <1>4

(* What is due grows by what the time that passed is worth, but for less   *)
(* than a step for each tick.                                              *)
LEMMA PaceStep ==
  ASSUME NEW speed \in Int, NEW elapsed \in Int, NEW unit \in Nat \ {0},
         NEW steps \in Int, NEW clock \in Int, NEW calls \in Int,
         NEW backs \in Int, NEW back \in {0, 1}, NEW whole \in Int,
         steps * unit - speed * clock <= unit * backs,
         speed * clock - steps * unit <= unit * calls,
         whole * unit - speed * elapsed <= unit * back,
         speed * elapsed - whole * unit <= unit
  PROVE  LET n == steps + whole
         IN  /\ n * unit - speed * (clock + elapsed) <= unit * (backs + back)
             /\ speed * (clock + elapsed) - n * unit <= unit * (calls + 1)
<1> DEFINE worth == speed * elapsed
<1>1. worth \in Int
  OBVIOUS
<1>2. whole * unit - worth <= unit * back /\ worth - whole * unit <= unit
  OBVIOUS
<1>3. speed * (clock + elapsed) = speed * clock + worth
  BY Distribute
<1>4. /\ unit * (calls + 1) = unit * calls + unit
      /\ unit * (backs + back) = unit * backs + unit * back
  BY Distribute
<1> HIDE DEF worth
<1>5. (steps + whole) * unit = steps * unit + whole * unit
  BY Distribute
<1>6. /\ steps * unit \in Int /\ speed * clock \in Int /\ unit * calls \in Int
      /\ whole * unit \in Int /\ unit * backs \in Int /\ unit * back \in Int
  OBVIOUS
<1> QED BY <1>1, <1>2, <1>3, <1>4, <1>5, <1>6

(* A tick keeps the pace, if no number in it is more than an int64 holds:  *)
(* the first has nothing to keep, and each one after is given or left owed *)
(* what the time since the last is worth.                                  *)
LEMMA TickKeepsPace ==
  ASSUME TypeInv, FreshPace, PaceKept, NEW elapsed \in Int, Tick(elapsed)
  PROVE  FreshPace' /\ PaceKept'
<1> DEFINE budget == runBudget(elapsed)
           first  == hz \div FramesPerSecond
           back   == IF elapsed < 0 THEN 1 ELSE 0
<1>1. /\ hz' = hz /\ debt' = budget[2] /\ timed' = (timed \/ hz > 0)
      /\ hz \in Int /\ debt \in Int
      /\ pace' = IF hz <= 0 THEN pace
                 ELSE [given |-> pace.given + budget[1], clock |-> pace.clock + elapsed,
                       calls |-> pace.calls + 1,
                       backs |-> IF elapsed < 0 THEN pace.backs + 1 ELSE pace.backs,
                       exact |-> pace.exact /\ (timed => Fits(elapsed))]
  BY DEF Tick, TypeInv
<1>2. /\ pace.given \in Int /\ pace.clock \in Int /\ pace.calls \in Int
      /\ pace.backs \in Int
  BY DEF TypeInv, PaceRecords
<1>3. CASE hz <= 0
  BY <1>1, <1>3 DEF FreshPace, PaceKept
<1>4. CASE hz > 0
  <2>1. /\ pace'.given = pace.given + budget[1] /\ pace'.clock = pace.clock + elapsed
        /\ pace'.calls = pace.calls + 1 /\ pace'.backs = pace.backs + back
        /\ pace'.exact = (pace.exact /\ (timed => Fits(elapsed)))
        /\ timed' = TRUE /\ FreshPace'
    <3> HIDE DEF budget
    <3>1. timed' = TRUE
      BY <1>1, <1>4
    <3>2. FreshPace'
      BY <3>1 DEF FreshPace
    <3>3. pace'.backs = IF elapsed < 0 THEN pace.backs + 1 ELSE pace.backs
      BY <1>1, <1>4
    <3> QED BY <1>1, <1>2, <1>4, <3>1, <3>2, <3>3
  <2>2. first \in Int /\ budget[1] \in Int /\ budget[2] \in Int
    BY <1>1, DivFloor, Positive, TickIsGiven
  <2> DEFINE steps == pace'.given + debt' - first
  <2>3. CASE ~timed
    <3>1. pace = NoPace /\ debt = 0 /\ elapsed = 0 /\ budget = <<first, 0>>
      BY <1>1, <1>4, <2>3, TickIsGiven DEF FreshPace, Tick
    <3>2. steps = 0 /\ pace'.clock = 0 /\ pace'.calls = 1 /\ pace'.backs = 0
      BY <1>1, <2>1, <2>2, <3>1 DEF NoPace
    <3>3. /\ steps * Second - hz * pace'.clock <= Second * pace'.backs
          /\ hz * pace'.clock - steps * Second <= Second * pace'.calls
      <4> HIDE DEF steps
      <4>1. /\ steps * Second = 0 /\ hz * pace'.clock = 0
            /\ Second * pace'.calls = Second /\ Second * pace'.backs = 0
        BY <1>1, <3>2, Positive
      <4> QED BY <4>1, Positive
    <3> QED BY <1>1, <2>1, <3>3 DEF PaceKept
  <2>4. CASE timed /\ pace.exact /\ Fits(elapsed)
    <3> DEFINE before == pace.given + debt - first
               worth  == Trunc(hz * elapsed)
    <3>1. /\ before * Second - hz * pace.clock <= Second * pace.backs
          /\ hz * pace.clock - before * Second <= Second * pace.calls
      BY <1>4, <2>4 DEF PaceKept
    <3>2. /\ worth \in Int /\ worth * Second - hz * elapsed <= Second * back
          /\ hz * elapsed - worth * Second <= Second
      <4>1. hz * elapsed \in Int /\ (elapsed >= 0 => hz * elapsed >= 0)
        BY <1>1, <1>4
      <4>2. CASE elapsed < 0
        BY <4>1, <4>2, TruncDrops, Positive
      <4>3. CASE elapsed >= 0
        BY <4>1, <4>3, TruncDrops, Positive
      <4> QED BY <4>2, <4>3
    <3>3. budget[1] + budget[2] = worth + debt
      BY <1>4, <2>4, TickIsGiven DEF Fits
    <3>4. before \in Int /\ steps = before + worth
      <4> HIDE DEF first, budget, worth
      <4>1. pace'.given = pace.given + budget[1] /\ debt' = budget[2]
        BY <1>1, <2>1
      <4>2. steps = (pace.given + budget[1]) + budget[2] - first
        BY <4>1
      <4>3. before \in Int
        BY <1>1, <1>2, <2>2
      <4>4. steps = (pace.given + debt - first) + worth
        <5> HIDE DEF steps, before
        <5>1. debt \in Int /\ worth \in Int
          BY <1>1, <3>2
        <5> QED BY <1>2, <2>2, <3>3, <4>2, <5>1
      <4> QED BY <4>3, <4>4
    <3>5. back \in {0, 1}
      OBVIOUS
    <3> HIDE DEF before, worth, back
    <3>6. /\ (before + worth) * Second - hz * (pace.clock + elapsed)
               <= Second * (pace.backs + back)
          /\ hz * (pace.clock + elapsed) - (before + worth) * Second
               <= Second * (pace.calls + 1)
      BY <1>1, <1>2, <3>1, <3>2, <3>4, <3>5, PaceStep, Positive
    <3>7. /\ steps * Second - hz * pace'.clock <= Second * pace'.backs
          /\ hz * pace'.clock - steps * Second <= Second * pace'.calls
      <4> HIDE DEF steps
      <4> QED BY <2>1, <3>4, <3>6
    <3> QED BY <1>1, <2>1, <3>7 DEF PaceKept
  <2>5. CASE timed /\ ~(pace.exact /\ Fits(elapsed))
    BY <2>1, <2>5 DEF PaceKept
  <2> QED BY <2>1, <2>3, <2>4, <2>5
<1> QED BY <1>1, <1>3, <1>4

LEMMA TickOK ==
  ASSUME TuiInv, NEW elapsed \in -MaxElapsed .. MaxElapsed, Tick(elapsed)
  PROVE  TuiInv'
<1>1. elapsed \in Int /\ TypeInv
  BY Positive DEF TuiInv
<1>2. /\ session' = session /\ bps' = bps /\ memBPs' = memBPs /\ data' = data
      /\ file' = file /\ hz' = hz /\ promised' = promised /\ kept' = kept
  BY DEF Tick, Offered, maps
<1>3. FreshPace' /\ PaceKept'
  BY <1>1, TickKeepsPace DEF TuiInv
<1>4. runBudget(elapsed)[1] \in Nat /\ runBudget(elapsed)[2] \in Int
  BY <1>1, TickIsGiven
<1>5. PICK stopped \in BOOLEAN :
        RunBudget(inst, data, runBudget(elapsed)[1], {}, stopped)
  BY DEF Tick
<1>6. /\ pc' \in Addrs /\ inst' \in InstTables
      /\ \A a \in Addrs : inst[a] = "plain" => inst'[a] = "plain"
      /\ \A x \in passed' : ~InTables(x, inst, data)
  BY <1>1, <1>4, <1>5, RunBudgetOK DEF TypeInv
<1>7. PromisesInTables' /\ ShownBreakpointsStop'
  <2>1. \A x \in promised : InTables(x, inst, data)
    BY DEF TuiInv, PromisesInTables
  <2>2. PromisesInTables'
    BY <1>2, <1>6, <2>1 DEF PromisesInTables, InTables
  <2>3. ShownBreakpointsStop'
    BY <1>2, <1>6, <2>1 DEF ShownBreakpointsStop
  <2> QED BY <2>2, <2>3
<1>8. /\ debt' \in Int /\ timed' \in BOOLEAN
      /\ pace' \in PaceRecords
  <2> DEFINE budget == runBudget(elapsed)
  <2>1. /\ debt' = budget[2] /\ timed' = (timed \/ hz > 0)
        /\ pace' = IF hz <= 0 THEN pace
                   ELSE [given |-> pace.given + budget[1], clock |-> pace.clock + elapsed,
                         calls |-> pace.calls + 1,
                         backs |-> IF elapsed < 0 THEN pace.backs + 1 ELSE pace.backs,
                         exact |-> pace.exact /\ (timed => Fits(elapsed))]
    BY DEF Tick
  <2>2. timed' \in BOOLEAN
    BY <2>1
  <2>3. debt' \in Int
    BY <1>4, <2>1
  <2>4. pace' \in PaceRecords
    <3>1. budget[1] \in Int /\ elapsed \in Int
      BY <1>1, <1>4
    <3>2. pace \in PaceRecords
      BY <1>1 DEF TypeInv
    <3>3. Fits(elapsed) \in BOOLEAN /\ timed \in BOOLEAN
      BY <1>1 DEF Fits, TypeInv
    <3> HIDE DEF budget
    <3>4. (pace.exact /\ (timed => Fits(elapsed))) \in BOOLEAN
      BY <3>2 DEF PaceRecords
    <3> QED BY <2>1, <3>1, <3>2, <3>4 DEF PaceRecords
  <2> QED BY <2>2, <2>3, <2>4
<1>9. TypeInv' /\ KeptIsFiled'
  BY <1>2, <1>6, <1>8 DEF TuiInv, TypeInv, KeptIsFiled
<1> QED BY <1>3, <1>7, <1>9 DEF TuiInv

(* A change of speed starts the pace anew. *)
LEMMA SpeedOK ==
  ASSUME TuiInv, NEW speed \in Int, Speed(speed), passed' = {},
         UNCHANGED <<session, pc, maps, tables, file, promised, kept>>
  PROVE  TuiInv'
<1>1. /\ session' = session /\ pc' = pc /\ bps' = bps /\ memBPs' = memBPs
      /\ inst' = inst /\ data' = data /\ file' = file
      /\ promised' = promised /\ kept' = kept
  BY DEF maps, tables
<1>2. hz' = speed /\ timed' = FALSE /\ debt' = 0 /\ pace' = NoPace
  BY DEF Speed
<1>3. pace' \in PaceRecords /\ debt' \in Int
  BY <1>2 DEF NoPace, PaceRecords
<1>4. timed' \in BOOLEAN /\ hz' \in Int
  BY <1>2
<1>5. TypeInv' /\ PromisesInTables' /\ ShownBreakpointsStop' /\ KeptIsFiled'
  BY <1>1, <1>3, <1>4
  DEF TuiInv, TypeInv, PromisesInTables, ShownBreakpointsStop, KeptIsFiled
<1>6. FreshPace' /\ PaceKept'
  BY <1>2 DEF FreshPace, PaceKept
<1> QED BY <1>5, <1>6 DEF TuiInv

(* The keys that walk through the presets stay among them. *)
LEMMA PresetIsKnown ==
  ASSUME NEW dir \in {-1, 1}
  PROVE  Presets[Max({1, Min({Current + dir, Cardinality(DOMAIN Presets)})})] \in Int
<1> DEFINE n == Cardinality(DOMAIN Presets)
           below == Min({Current + dir, n})
<1>1. n \in Nat \ {0} /\ Presets \in [1 .. n -> Nat]
  BY TuiAssumption
<1> HIDE DEF n
<1>2. Current \in Int
  <2>1. CASE Preset = {}
    BY <2>1 DEF Current
  <2>2. CASE Preset # {}
    <3>1. Preset \in SUBSET Nat
      BY <1>1 DEF Preset
    <3>2. \E i \in Preset : \A j \in Preset : i <= j
      BY <2>2, <3>1, LeastExists
    <3>3. Min(Preset) \in Preset
      BY <3>2 DEF Min
    <3>4. Current = Min(Preset)
      BY <2>2 DEF Current
    <3>5. Current \in Nat
      BY <3>1, <3>3, <3>4
    <3> QED BY <3>5
  <2> QED BY <2>1, <2>2
<1>3. Current + dir \in Int
  BY <1>2
<1>4. below \in Int /\ below <= n
  <2> DEFINE next == Current + dir
  <2>1. next \in Int
    BY <1>3
  <2> HIDE DEF next
  <2>2. n \in Int
    BY <1>1
  <2>3. Min({next, n}) = IF next <= n THEN next ELSE n
    BY <2>1, <2>2, MaxTwo
  <2>4. Min({next, n}) \in Int /\ Min({next, n}) <= n
    BY <2>1, <2>2, <2>3
  <2> QED BY <2>4 DEF next
<1> HIDE DEF below
<1>5. Max({1, below}) \in 1 .. n
  BY <1>1, <1>4, MaxTwo
<1> QED BY <1>1, <1>5 DEF below, n

LEMMA InitOK ==
  ASSUME Init
  PROVE  TuiInv
<1>1. session \in Sessions /\ file \in StateFiles
  <2>1. session \in Sessions /\ file \in session.files
    BY DEF Init
  <2> QED BY <2>1, TuiAssumption DEF StateFiles
<1>2. PICK known \in BOOLEAN : bps \in LoadedBPs(file, known)
  BY DEF Init
<1>3. /\ memBPs = LoadedMemBPs(file) /\ hz = LoadedHz(file)
      /\ pc = Entry /\ inst = NoBPs /\ data = NoWatch
      /\ timed = FALSE /\ debt = 0 /\ pace = NoPace
      /\ promised = {} /\ passed = {} /\ kept = [bps |-> bps, memBPs |-> memBPs]
  BY DEF Init
<1>4. bps \in BPMaps /\ memBPs \in MemMaps /\ hz \in Int
  BY <1>1, <1>2, <1>3, LoadedOK
<1>5. NoBPs \in InstTables /\ NoWatch \in MemMaps
  BY DEF NoBPs, NoWatch, InstTables, MemMaps
<1>6. pc \in Addrs /\ debt \in Int /\ pace \in PaceRecords
  <2>1. Entry \in Addrs
    BY TuiAssumption
  <2> QED BY <1>3, <2>1 DEF NoPace, PaceRecords
<1>7. timed \in BOOLEAN
  BY <1>3
<1>8. TypeInv
  BY <1>1, <1>3, <1>4, <1>5, <1>6, <1>7 DEF TypeInv
<1>9. KeptIsFiled
  BY <1>2, <1>3 DEF KeptIsFiled
<1>10. PromisesInTables /\ ShownBreakpointsStop /\ FreshPace /\ PaceKept
  BY <1>3 DEF PromisesInTables, ShownBreakpointsStop, FreshPace, PaceKept
<1> QED BY <1>8, <1>9, <1>10 DEF TuiInv

-------------------------------------------------------------------------------
(* Every key, command and tick. *)

LEMMA ToggleOK ==
  ASSUME TuiInv, UNCHANGED session, NEW a \in Addrs, Toggle(a)
  PROVE  TuiInv'
<1>1. newBP(a, "plain") \in Breakpoint /\ newBP(a, "plain").addr = a
  BY NewIsKeyed DEF Kinds
<1>2. bps \in BPMaps /\ memBPs \in MemMaps
  BY DEF TuiInv, TypeInv
<1>3. bps' = [bps EXCEPT ![a] = IF bps[a] = Absent THEN newBP(a, "plain") ELSE Absent]
  BY DEF Toggle, Toggled
<1>4. bps' \in BPMaps /\ memBPs' \in MemMaps
  <2>1. bps' \in BPMaps
    BY <1>1, <1>2, <1>3, Entered
  <2> QED BY <1>2, <2>1 DEF Toggle
<1> QED BY <1>4, EditOK DEF Toggle

LEMMA EditKeeps ==
  ASSUME TuiInv, Edit
  PROVE  TuiInv'
<1>1. /\ bps \in BPMaps /\ memBPs \in MemMaps /\ pc \in Addrs
      /\ \A a \in Addrs : bps[a] \in Breakpoint \cup {Absent}
      /\ session.where \subseteq Addrs /\ session.kinds \subseteq Kinds
      /\ session.watched \subseteq DataAddrs
  <2>1. bps \in BPMaps /\ memBPs \in MemMaps /\ pc \in Addrs /\ session \in Sessions
    BY DEF TuiInv, TypeInv
  <2> QED BY <2>1, TuiAssumption DEF BPMaps
<1>2. CASE ToggleHere
  BY <1>1, <1>2, ToggleOK DEF ToggleHere, Offered
<1>3. CASE cmdBPMiss
  <2> DEFINE miss == [addr |-> Zero, enabled |-> FALSE, kind |-> "plain", rejected |-> TRUE]
  <2>1. miss \in Breakpoint /\ MissKey \in Addrs
    BY TuiAssumption DEF Breakpoint, Kinds
  <2>2. bps' \in BPMaps
    BY <1>1, <1>3, <2>1, Entered DEF cmdBPMiss
  <2> QED BY <1>1, <1>3, <2>2, EditOK DEF cmdBPMiss, Offered
<1>4. ASSUME NEW a \in session.where, ToggleSymbol(a) PROVE TuiInv'
  BY <1>1, <1>4, ToggleOK DEF ToggleSymbol, Offered
<1>5. ASSUME NEW a \in session.where, NEW kind \in session.kinds, cmdBP(a, kind)
      PROVE  TuiInv'
  <2>1. CASE kind = "plain" /\ Toggle(a)
    BY <1>1, <1>5, <2>1, ToggleOK DEF cmdBP, Offered
  <2>2. CASE ~(kind = "plain" /\ Toggle(a))
    <3>1. newBP(a, kind) \in Breakpoint /\ newBP(a, kind).addr = a
      BY <1>1, NewIsKeyed
    <3>2. /\ bps' = [bps EXCEPT ![a] = newBP(a, kind)] /\ UNCHANGED <<memBPs, data, session>>
          /\ Unmoved /\ syncSourceBreakpoints /\ Edited({Spot(a)}) /\ saveState
      BY <1>5, <2>2 DEF cmdBP, Offered
    <3>3. bps' \in BPMaps
      BY <1>1, <3>1, <3>2, Entered
    <3>4. a \in Addrs
      BY <1>1
    <3> QED BY <1>1, <3>2, <3>3, <3>4, EditOK
  <2> QED BY <2>1, <2>2
<1>6. ASSUME NEW a \in Addrs, ManagerDelete(a) PROVE TuiInv'
  <2>1. bps' \in BPMaps
    BY <1>1, <1>6, Entered DEF ManagerDelete
  <2> QED BY <1>1, <1>6, <2>1, EditOK DEF ManagerDelete, Offered
<1>7. ASSUME NEW a \in Addrs, ManagerEnable(a) PROVE TuiInv'
  <2>1. bps' = [bps EXCEPT ![a] = [bps[a] EXCEPT !.enabled = ~@]] /\ bps[a] # Absent
    BY <1>7 DEF ManagerEnable
  <2> DEFINE bp == [bps[a] EXCEPT !.enabled = ~@]
  <2>2. bp \in Breakpoint /\ bp.addr = bps[a].addr /\ bp.rejected = bps[a].rejected
    BY <1>1, <2>1 DEF Breakpoint
  <2>3. bp.addr = a \/ (bp.addr = Zero /\ bp.rejected)
    BY <1>1, <2>1, <2>2 DEF BPMaps, Keyed
  <2>4. bps' \in BPMaps
    <3> HIDE DEF bp
    <3>1. [bps EXCEPT ![a] = bp] \in BPMaps
      BY <1>1, <2>2, <2>3, Entered
    <3> QED BY <2>1, <3>1 DEF bp
  <2> QED BY <1>1, <1>7, <2>4, EditOK DEF ManagerEnable, Offered
<1>8. ASSUME NEW a \in Addrs, ManagerGo(a) PROVE TuiInv'
  BY <1>8, MoveOK DEF ManagerGo, Offered
<1>9. ASSUME NEW d \in session.watched, RemoveMemBP(d) PROVE TuiInv'
  <2>1. memBPs' \in MemMaps
    BY <1>1, <1>9, WatchEntered DEF RemoveMemBP
  <2> QED BY <1>1, <1>9, <2>1, EditOK DEF RemoveMemBP, Offered
<1>10. ASSUME NEW d \in session.watched, NEW kind \in MemKinds, cmdMemBP(d, kind)
       PROVE  TuiInv'
  <2>1. memBPs' = [memBPs EXCEPT ![d] = IF memBPs[d] = kind THEN Absent ELSE kind]
    BY <1>10 DEF cmdMemBP
  <2>2. memBPs' \in MemMaps
    BY <1>1, <2>1, WatchEntered
  <2> QED BY <1>1, <1>10, <2>2, EditOK DEF cmdMemBP, Offered
<1> QED BY <1>2, <1>3, <1>4, <1>5, <1>6, <1>7, <1>8, <1>9, <1>10 DEF Edit

LEMMA GoKeeps ==
  ASSUME TuiInv, Go
  PROVE  TuiInv'
<1>1. /\ pc \in Addrs /\ Flow[pc] \in Addrs /\ Entry \in Addrs
      /\ session.where \subseteq Addrs /\ session.speeds \subseteq Int
  <2>1. pc \in Addrs /\ session \in Sessions
    BY DEF TuiInv, TypeInv
  <2> QED BY <2>1, TuiAssumption
<1>2. CASE Run
  BY <1>2, RunOK
<1>3. ASSUME Single, UNCHANGED session PROVE TuiInv'
  BY <1>1, <1>3, MoveOK DEF Single
<1>4. CASE Step
  BY <1>3, <1>4 DEF Step, Offered
<1>5. CASE StepSweep
  BY <1>5, BurstOK, Positive DEF StepSweep, Offered
<1>6. CASE stepOver
  BY <1>3, <1>6, BurstOK, Positive DEF stepOver, Offered
<1>7. CASE runToNextLine
  BY <1>3, <1>7, BurstOK, Positive DEF runToNextLine, Offered
<1>8. CASE ResetKey
  BY <1>1, <1>8, MoveOK DEF ResetKey, Offered
<1>9. ASSUME NEW a \in session.where, RunTo(a) PROVE TuiInv'
  BY <1>1, <1>9, RunToOK
<1>10. ASSUME NEW a \in session.where, SetPC(a) PROVE TuiInv'
  BY <1>1, <1>10, MoveOK DEF SetPC, Offered
<1>11. ASSUME NEW elapsed \in -MaxElapsed .. MaxElapsed, Tick(elapsed) PROVE TuiInv'
  BY <1>11, TickOK
<1>12. ASSUME NEW dir \in {-1, 1}, bumpSpeed(dir) PROVE TuiInv'
  BY <1>12, PresetIsKnown, SpeedOK DEF bumpSpeed, Offered
<1>13. ASSUME NEW speed \in session.speeds, SetSpeed(speed) PROVE TuiInv'
  BY <1>1, <1>13, SpeedOK DEF SetSpeed, Offered
<1> QED BY <1>2, <1>4, <1>5, <1>6, <1>7, <1>8, <1>9, <1>10, <1>11, <1>12, <1>13
        DEF Go

LEMMA LeaveKeeps ==
  ASSUME TuiInv, Leave
  PROVE  TuiInv'
<1>1. UNCHANGED session /\ Restart
  BY DEF Leave, Quit, Abandon, CrashInSave, Offered
<1>2. file' \in StateFiles
  <2>1. Saved(bps, memBPs, hz) \in SavedFiles /\ file \in StateFiles
    BY SavedIsRead DEF TuiInv, TypeInv
  <2> QED BY <2>1 DEF Leave, Quit, Abandon, CrashInSave, StateFiles
<1> QED BY <1>1, <1>2, RestartOK
-------------------------------------------------------------------------------
(* The next session. *)

(* What a session left, saved, comes back: under each address but zero the *)
(* breakpoint that was kept there, at most rejected.                       *)
LEMMA SavedComesBack ==
  ASSUME NEW m \in BPMaps, NEW w \in MemMaps, NEW speed \in Int,
         file' = Saved(m, w, speed), Restart
  PROVE  Restored(m, w)
<1>1. /\ file' \in SavedFiles /\ file' \notin Unreadable /\ ~Legacy(file')
      /\ file'.bps = m /\ file'.memBPs = w
  BY SavedIsRead
<1>2. PICK known \in BOOLEAN : bps' \in LoadedBPs(file', known)
  BY DEF Restart
<1>3. \A a \in Addrs :
        IF Writers(m, a) = {} THEN bps'[a] = Absent
        ELSE \E k \in Writers(m, a) :
               /\ m[k] \in Breakpoint /\ m[k].addr = a
               /\ bps'[a] = Recompiled(m[k], known)
               /\ bps'[a] \in Breakpoint /\ bps'[a].addr = a
  BY <1>1, <1>2, LoadedSaved
<1>4. ASSUME NEW a \in Addrs \ {Zero}, m[a] # Absent, ~m[a].rejected
      PROVE  /\ bps'[a] # Absent
             /\ \/ bps'[a] = m[a]
                \/ bps'[a] = [m[a] EXCEPT !.rejected = TRUE] /\ m[a].kind = "cond"
  <2>1. m[a].addr = a
    BY <1>4 DEF BPMaps, Keyed
  <2>2. Writers(m, a) = {a}
    BY <1>4, <2>1, OneWriter
  <2>3. m[a] \in Breakpoint /\ bps'[a] = Recompiled(m[a], known) /\ bps'[a] \in Breakpoint
    BY <1>3, <2>2
  <2>4. bps'[a] # Absent
    BY <2>3, TuiAssumption
  <2> QED BY <1>4, <2>3, <2>4, Recompiling
<1>5. \A a \in Addrs : bps'[a] # Absent => Writers(m, a) # {}
  BY <1>3
<1>6. memBPs' = w
  BY <1>1 DEF Restart, LoadedMemBPs
<1> QED BY <1>4, <1>5, <1>6 DEF Restored

(* A file that is loaded twice shows the same breakpoints twice, whatever  *)
(* symbols each session knows.                                             *)
LEMMA LoadedTwice ==
  ASSUME NEW f \in StateFiles, NEW known \in BOOLEAN, NEW m \in LoadedBPs(f, known),
         file' = f, Restart
  PROVE  Restored(m, LoadedMemBPs(f))
<1>1. PICK again \in BOOLEAN : bps' \in LoadedBPs(f, again)
  BY DEF Restart
<1>2. m \in BPMaps /\ memBPs' = LoadedMemBPs(f)
  BY LoadedOK DEF Restart
<1>3. CASE f \in Unreadable \/ Legacy(f)
  <2>1. bps' = m
    BY <1>1, <1>3 DEF LoadedBPs
  <2>2. \A a \in Addrs : m[a] # Absent => a \in Writers(m, a)
    <3>1. CASE f \in Unreadable
      BY <3>1 DEF LoadedBPs, NoBPs
    <3>2. CASE f \notin Unreadable /\ Legacy(f)
      <4>1. m = [a \in Addrs |-> IF a \in f.addrs THEN newBP(a, "plain") ELSE Absent]
        BY <3>2 DEF LoadedBPs
      <4> QED BY <4>1 DEF newBP, Writers
    <3> QED BY <1>3, <3>1, <3>2
  <2> QED BY <1>2, <2>1, <2>2 DEF Restored
<1>4. CASE ~(f \in Unreadable \/ Legacy(f))
  <2>1. f \in SavedFiles /\ f.bps \in BPMaps
    BY <1>4 DEF StateFiles, Unreadable, Legacy, SavedFiles, ArrayFiles
  <2>2. ASSUME NEW a \in Addrs \ {Zero}, m[a] # Absent, ~m[a].rejected
        PROVE  /\ bps'[a] # Absent
               /\ \/ bps'[a] = m[a]
                  \/ bps'[a] = [m[a] EXCEPT !.rejected = TRUE] /\ m[a].kind = "cond"
    <3>1. Writers(f.bps, a) = {a}
      <4>1. Writers(f.bps, a) # {}
        BY <2>1, <2>2, LoadedSaved
      <4> QED BY <2>1, <4>1, OneWriter
    <3>2. f.bps[a] \in Breakpoint /\ m[a] = Recompiled(f.bps[a], known)
      BY <2>1, <3>1, LoadedSaved
    <3>3. bps'[a] = Recompiled(f.bps[a], again) /\ bps'[a] \in Breakpoint
      BY <1>1, <2>1, <3>1, LoadedSaved
    <3>4. m[a] = f.bps[a] /\ ~f.bps[a].rejected
      BY <2>2, <3>2, Recompiling
    <3>5. bps'[a] # Absent
      BY <3>3, TuiAssumption
    <3> QED BY <3>2, <3>3, <3>4, <3>5, Recompiling
  <2>3. ASSUME NEW a \in Addrs, bps'[a] # Absent PROVE Writers(m, a) # {}
    <3>1. Writers(f.bps, a) # {}
      BY <1>1, <2>1, <2>3, LoadedSaved
    <3>2. m[a] \in Breakpoint /\ m[a].addr = a
      BY <2>1, <3>1, LoadedSaved
    <3>3. m[a] # Absent
      BY <3>2, TuiAssumption
    <3> QED BY <3>2, <3>3 DEF Writers
  <2> QED BY <1>2, <2>2, <2>3 DEF Restored
<1> QED BY <1>3, <1>4

LEMMA LeaveRestores ==
  ASSUME TuiInv
  PROVE  /\ Quit => Restored(bps, memBPs)
         /\ Abandon => Restored(kept.bps, kept.memBPs)
<1>1. ASSUME Quit PROVE Restored(bps, memBPs)
  BY <1>1, SavedComesBack DEF Quit, TuiInv, TypeInv
<1>2. ASSUME Abandon PROVE Restored(kept.bps, kept.memBPs)
  <2>1. file' = file /\ Restart /\ file \in StateFiles
    BY <1>2 DEF Abandon, TuiInv, TypeInv
  <2>2. CASE \E known \in BOOLEAN :
               kept.bps \in LoadedBPs(file, known) /\ kept.memBPs = LoadedMemBPs(file)
    BY <2>1, <2>2, LoadedTwice
  <2>3. CASE /\ kept.bps \in BPMaps /\ kept.memBPs \in MemMaps
             /\ \E speed \in Int : file = Saved(kept.bps, kept.memBPs, speed)
    BY <2>1, <2>3, SavedComesBack
  <2> QED BY <2>2, <2>3 DEF TuiInv, KeptIsFiled
<1> QED BY <1>1, <1>2

-------------------------------------------------------------------------------
(* The theorems. *)

(* The invariant holds: what the panels promised is in the tables the      *)
(* server runs with, what the last edit left is what the state file loads  *)
(* as, and what a throttled run was given and is owed adds up.             *)
THEOREM Invariant == Spec => []TuiInv
<1>1. Init => TuiInv
  BY InitOK
<1>2. TuiInv /\ [Next]_vars => TuiInv'
  <2> SUFFICES ASSUME TuiInv, [Next]_vars PROVE TuiInv'
    OBVIOUS
  <2>1. CASE Edit
    BY <2>1, EditKeeps
  <2>2. CASE Go
    BY <2>2, GoKeeps
  <2>3. CASE Leave
    BY <2>3, LeaveKeeps
  <2>4. CASE UNCHANGED vars
    <3>1. /\ session' = session /\ pc' = pc /\ bps' = bps /\ memBPs' = memBPs
          /\ inst' = inst /\ data' = data /\ file' = file
          /\ hz' = hz /\ timed' = timed /\ debt' = debt /\ pace' = pace
          /\ promised' = promised /\ passed' = passed /\ kept' = kept
      BY <2>4 DEF vars, maps, tables, pacing
    <3>2. UNCHANGED pacing
      BY <3>1 DEF pacing
    <3>3. FreshPace' /\ PaceKept'
      BY <3>2, SpeedIsFixed DEF TuiInv
    <3> QED BY <3>1, <3>3
            DEF TuiInv, TypeInv, PromisesInTables, ShownBreakpointsStop, KeptIsFiled
  <2> QED BY <2>1, <2>2, <2>3, <2>4 DEF Next
<1> QED BY <1>1, <1>2, PTL DEF Spec

(* syncSourceBPsAll and RunBudget: whatever the program, the breakpoints   *)
(* and the order of edits, runs and restarts, no run goes past what the    *)
(* panels promised when it began and show since.                           *)
THEOREM PromisesKept == Spec => []ShownBreakpointsStop
<1>1. TuiInv => ShownBreakpointsStop
  BY DEF TuiInv
<1> QED BY <1>1, Invariant, PTL

(* runBudget: for every speed, every burst length and every gap between    *)
(* ticks, a throttled run is given or owed what the time is worth, less    *)
(* the fractions its divisions drop.                                       *)
THEOREM PaceHolds == Spec => []PaceKept
<1>1. TuiInv => PaceKept
  BY DEF TuiInv
<1> QED BY <1>1, Invariant, PTL

(* saveState and loadState: the session after `q` shows what was shown,    *)
(* and the session after any other end but a torn write what the last edit *)
(* left, whatever the file held before and whatever symbols are known.     *)
THEOREM EditsSurvive == Spec => RestartRestores
<1>1. TuiInv /\ [Next]_vars =>
        [/\ Quit => Restored(bps, memBPs)
         /\ Abandon => Restored(kept.bps, kept.memBPs)]_vars
  BY LeaveRestores
<1> QED BY <1>1, Invariant, PTL DEF Spec, RestartRestores
===============================================================================
