--------------------------- MODULE InterruptsProofs ---------------------------
(***************************************************************************)
(* The IRQ line and the ACIA agree, for every program, queue and ring.     *)
(***************************************************************************)
EXTENDS Interrupts, SequenceTheorems, TLAPS

(***************************************************************************)
(* The inductive invariant                                                 *)
(***************************************************************************)
(* What the line says of one state of the ACIA and the CPU.                *)
Agree(a, c) == c.irqLine <=> (a.irqFlag \/ "" \in c.irqSources)

(* The CPU's set of sources has the ACIA exactly while its flag is up.     *)
(* Undo breaks this, because Restore leaves the set alone.                 *)
Tracks(a, c) == "acia" \in c.irqSources <=> a.irqFlag

IInv ==
  /\ TypeOK
  /\ Agree(acia, cpu)
  /\ setting.host \/ "" \notin cpu.irqSources
  /\ setting.undo \/ (Tracks(acia, cpu) /\ undo = <<>>)
  /\ \A i \in DOMAIN undo : undo[i].irqLine <=> undo[i].acia.irqFlag

(***************************************************************************)
(* One access to the ACIA                                                  *)
(***************************************************************************)
(* What an access may do to the pair of ACIA and CPU.                      *)
Sound(a, c, r) ==
  /\ r.acia \in Acia /\ r.cpu \in Cpu
  /\ Agree(r.acia, r.cpu)
  /\ Tracks(a, c) => Tracks(r.acia, r.cpu)
  /\ "" \in r.cpu.irqSources <=> "" \in c.irqSources

(* clearIRQ lets the line go unless another source holds it.               *)
LEMMA ClearIRQSound ==
  ASSUME NEW a \in Acia, NEW c \in Cpu, Agree(a, c)
  PROVE  Sound(a, c, ClearIRQ(a, c))
BY DEF Sound, Agree, Tracks, ClearIRQ, ClearIRQSource, Acia, Cpu, Sources

(* raiseRX asserts it. *)
LEMMA RaiseRXSound ==
  ASSUME NEW a \in Acia, NEW c \in Cpu, Agree(a, c)
  PROVE  Sound(a, c, RaiseRX(a, c))
BY DEF Sound, Agree, Tracks, RaiseRX, AssertIRQSource, Acia, Cpu, Sources

(* A change of the ACIA that leaves its flag alone changes nothing. *)
LEMMA SoundFromSameFlag ==
  ASSUME NEW a \in Acia, NEW c \in Cpu, Agree(a, c),
         NEW b \in Acia, b.irqFlag = a.irqFlag
  PROVE  /\ Agree(b, c)
         /\ Sound(a, c, [acia |-> b, cpu |-> c])
         /\ \A r : Sound(b, c, r) => Sound(a, c, r)
BY DEF Sound, Agree, Tracks

(* Receive keeps the pair in step. *)
LEMMA ReceivedSound ==
  ASSUME NEW a \in Acia, NEW c \in Cpu, Agree(a, c), a.rxq < MaxQueue
  PROVE  Sound(a, c, Received(a, c))
<1> DEFINE queued == [a EXCEPT !.rxq = @ + 1]
<1>1. queued \in Acia /\ queued.irqFlag = a.irqFlag
  BY InterruptsAssumption DEF Acia
<1>2. Agree(queued, c) /\ Sound(a, c, [acia |-> queued, cpu |-> c])
  BY <1>1, SoundFromSameFlag
<1>3. Sound(a, c, RaiseRX(queued, c))
  <2>1. Sound(queued, c, RaiseRX(queued, c))
    BY <1>1, <1>2, RaiseRXSound
  <2> QED BY <1>1, <2>1, SoundFromSameFlag
<1> QED BY <1>2, <1>3 DEF Received

(* The DATA read. *)
LEMMA DataReadSound ==
  ASSUME NEW a \in Acia, NEW c \in Cpu, Agree(a, c)
  PROVE  Sound(a, c, DataRead(a, c))
<1> DEFINE taken == [a EXCEPT !.rxq = IF @ > 0 THEN @ - 1 ELSE 0]
<1>1. taken \in Acia /\ taken.irqFlag = a.irqFlag
  BY InterruptsAssumption DEF Acia
<1>2. Agree(taken, c) /\ Sound(a, c, [acia |-> taken, cpu |-> c])
  BY <1>1, SoundFromSameFlag
<1>3. Sound(a, c, ClearIRQ(taken, c))
  <2>1. Sound(taken, c, ClearIRQ(taken, c))
    BY <1>1, <1>2, ClearIRQSound
  <2> QED BY <1>1, <2>1, SoundFromSameFlag
<1> QED BY <1>2, <1>3 DEF DataRead

(* Every register access of the program. *)
LEMMA AccessedSound ==
  ASSUME NEW i \in Instructions, NEW a \in Acia, NEW c \in Cpu, Agree(a, c)
  PROVE  Sound(a, c, Accessed(i, a, c))
<1> DEFINE on  == [a EXCEPT !.rxEnabled = TRUE]
           off == [a EXCEPT !.rxEnabled = FALSE]
<1>1. on \in Acia /\ on.irqFlag = a.irqFlag
  BY DEF Acia
<1>2. off \in Acia /\ off.irqFlag = a.irqFlag
  BY DEF Acia
<1>3. /\ Agree(on, c) /\ Sound(a, c, [acia |-> on, cpu |-> c])
      /\ \A r : Sound(on, c, r) => Sound(a, c, r)
  BY <1>1, SoundFromSameFlag
<1>4. Agree(off, c) /\ \A r : Sound(off, c, r) => Sound(a, c, r)
  BY <1>2, SoundFromSameFlag
<1>5. Sound(a, c, [acia |-> a, cpu |-> c])
  BY SoundFromSameFlag
<1>6. Sound(a, c, ClearIRQ(a, c))
  BY ClearIRQSound
<1>7. Sound(a, c, ClearIRQ(on, c)) /\ Sound(a, c, RaiseRX(on, c))
  BY <1>1, <1>3, ClearIRQSound, RaiseRXSound
<1>8. Sound(a, c, ClearIRQ(off, c))
  BY <1>2, <1>4, ClearIRQSound
<1>9. Sound(a, c, DataRead(a, c))
  BY DataReadSound
<1> QED BY <1>3, <1>5, <1>6, <1>7, <1>8, <1>9, Zenon DEF Accessed

(***************************************************************************)
(* The steps                                                               *)
(***************************************************************************)
(* What a step makes of the pair.                                          *)
NextPair == [acia |-> acia', cpu |-> cpu']

(* A change of the CPU that leaves line and sources alone. *)
LEMMA SoundFromSameLine ==
  ASSUME NEW a \in Acia, NEW c \in Cpu, Agree(a, c), NEW d \in Cpu,
         d.irqLine = c.irqLine, d.irqSources = c.irqSources
  PROVE  /\ Agree(a, d)
         /\ Sound(a, c, [acia |-> a, cpu |-> d])
         /\ \A r : Sound(a, d, r) => Sound(a, c, r)
BY DEF Sound, Agree, Tracks

(* Whatever Step decides, the pair stays sound. *)
LEMMA StepSound ==
  ASSUME TypeOK, Agree(acia, cpu), Step
  PROVE  Sound(acia, cpu, NextPair) /\ told' \in BOOLEAN
<1> USE DEF TypeOK
<1>1. /\ Woken \in Cpu
      /\ Woken.irqLine = cpu.irqLine /\ Woken.irqSources = cpu.irqSources
  BY DEF Woken, Cpu
<1>2. ASSUME UNCHANGED <<cpu, acia, told>>
      PROVE  Sound(acia, cpu, NextPair) /\ told' \in BOOLEAN
  BY <1>2, SoundFromSameFlag DEF NextPair
<1>3. CASE StepStopped
  BY <1>2, <1>3 DEF StepStopped
<1>4. CASE StepHalted
  BY <1>2, <1>4 DEF StepHalted
<1>5. CASE StepAbort \/ StepNmi \/ StepIrq
  <2>1. /\ cpu' \in Cpu
        /\ cpu'.irqLine = cpu.irqLine /\ cpu'.irqSources = cpu.irqSources
        /\ UNCHANGED <<acia, told>>
    BY <1>1, <1>5 DEF StepAbort, StepNmi, StepIrq, Dispatched, Cpu
  <2> QED BY <2>1, SoundFromSameLine DEF NextPair
<1>6. CASE StepInstruction
  <2>1. PICK i \in setting.ops : \E flag \in FlagAfter(i) :
          /\ cpu' = Accessed(i, acia, Executed(i, flag)).cpu
          /\ acia' = Accessed(i, acia, Executed(i, flag)).acia
          /\ told' = (told \/ i \in {"readStatus", "writeStatus"})
    BY <1>6 DEF StepInstruction
  <2>2. PICK flag \in FlagAfter(i) :
          /\ cpu' = Accessed(i, acia, Executed(i, flag)).cpu
          /\ acia' = Accessed(i, acia, Executed(i, flag)).acia
          /\ told' = (told \/ i \in {"readStatus", "writeStatus"})
    BY <2>1
  <2>3. i \in Instructions
    BY InterruptsAssumption DEF Setting
  <2>4. flag \in BOOLEAN
    BY DEF FlagAfter, Cpu
  <2> DEFINE done == Executed(i, flag)
  <2>5. /\ done \in Cpu
        /\ done.irqLine = cpu.irqLine /\ done.irqSources = cpu.irqSources
    <3>1. \A halted, stopped \in BOOLEAN :
            LET d == [Woken EXCEPT !.iFlag = flag, !.halted = halted,
                                   !.stopped = stopped]
            IN  /\ d \in Cpu
                /\ d.irqLine = cpu.irqLine /\ d.irqSources = cpu.irqSources
      BY <1>1, <2>4 DEF Cpu
    <3>2. (i \in {"wai", "stp", "self"}) \in BOOLEAN /\ (i = "stp") \in BOOLEAN
      OBVIOUS
    <3> QED BY <3>1, <3>2, Zenon DEF Executed
  <2>6. Agree(acia, done) /\ \A r : Sound(acia, done, r) => Sound(acia, cpu, r)
    BY <2>5, SoundFromSameLine
  <2>7. Sound(acia, done, Accessed(i, acia, done))
    BY <2>3, <2>5, <2>6, AccessedSound
  <2>8. Sound(acia, cpu, NextPair)
    BY <2>2, <2>6, <2>7 DEF NextPair, Sound
  <2> QED BY <2>2, <2>8
<1> QED BY <1>3, <1>4, <1>5, <1>6 DEF Step

(* A push keeps the ring's length and adds nothing but its entry. *)
LEMMA KeptRing ==
  ASSUME NEW ring \in Seq(Entry), Len(ring) <= MaxUndo, NEW e \in Entry
  PROVE  /\ Kept(Append(ring, e)) \in Seq(Entry)
         /\ Len(Kept(Append(ring, e))) <= MaxUndo
         /\ \A j \in DOMAIN Kept(Append(ring, e)) :
              \/ Kept(Append(ring, e))[j] = e
              \/ \E i \in DOMAIN ring : Kept(Append(ring, e))[j] = ring[i]
<1> DEFINE longer == Append(ring, e)
<1>1. /\ longer \in Seq(Entry) /\ Len(longer) = Len(ring) + 1
      /\ \A j \in DOMAIN longer :
           longer[j] = e \/ \E i \in DOMAIN ring : longer[j] = ring[i]
  OBVIOUS
<1>2. MaxUndo \in Nat \ {0}
  BY InterruptsAssumption
<1> HIDE DEF longer
<1>3. CASE Len(longer) > MaxUndo
  <2>1. /\ Tail(longer) \in Seq(Entry) /\ Len(Tail(longer)) = Len(ring)
        /\ \A j \in DOMAIN Tail(longer) :
             j + 1 \in DOMAIN longer /\ Tail(longer)[j] = longer[j + 1]
    BY <1>1, <1>2, <1>3
  <2>2. Kept(longer) = Tail(longer)
    BY <1>3 DEF Kept
  <2> QED BY <1>1, <2>1, <2>2 DEF longer
<1>4. CASE ~(Len(longer) > MaxUndo)
  <2>1. Kept(longer) = longer
    BY <1>4 DEF Kept
  <2> QED BY <1>1, <1>2, <1>4, <2>1 DEF longer
<1> QED BY <1>3, <1>4

(* In the TUI the line is the ACIA's flag, and what is recorded says so. *)
LEMMA SnapshotSound ==
  ASSUME IInv
  PROVE  /\ Snapshot \in Entry
         /\ setting.undo => (Snapshot.irqLine <=> Snapshot.acia.irqFlag)
BY InterruptsAssumption DEF IInv, TypeOK, Snapshot, Entry, Cpu, Agree, Setting

(* A recorded step keeps the invariant. *)
LEMMA RecordedStepKeeps ==
  ASSUME IInv, RecordedStep, UNCHANGED setting,
         running' \in BOOLEAN, refused' \in BOOLEAN
  PROVE  IInv'
<1>1. Sound(acia, cpu, NextPair) /\ told' \in BOOLEAN
  BY StepSound DEF IInv, RecordedStep
<1>2. /\ acia' \in Acia /\ cpu' \in Cpu /\ Agree(acia', cpu')
      /\ Tracks(acia, cpu) => Tracks(acia', cpu')
      /\ "" \in cpu'.irqSources <=> "" \in cpu.irqSources
  BY <1>1 DEF Sound, NextPair
<1>3. /\ undo' \in Seq(Entry) /\ Len(undo') <= MaxUndo
      /\ \A i \in DOMAIN undo' : undo'[i].irqLine <=> undo'[i].acia.irqFlag
      /\ setting.undo \/ undo' = undo
  <2>1. CASE setting.undo
    <3>1. undo' = Kept(Append(undo, Snapshot))
      BY <2>1 DEF RecordedStep
    <3>2. undo \in Seq(Entry) /\ Len(undo) <= MaxUndo
      BY DEF IInv, TypeOK
    <3>3. /\ undo' \in Seq(Entry) /\ Len(undo') <= MaxUndo
          /\ \A j \in DOMAIN undo' :
               undo'[j] = Snapshot \/ \E i \in DOMAIN undo : undo'[j] = undo[i]
      BY <3>1, <3>2, SnapshotSound, KeptRing
    <3> QED BY <2>1, <3>3, SnapshotSound DEF IInv
  <2>2. CASE ~setting.undo
    BY <2>2 DEF RecordedStep, IInv, TypeOK
  <2> QED BY <2>1, <2>2
<1>4. TypeOK'
  BY <1>1, <1>2, <1>3 DEF IInv, TypeOK
<1> QED BY <1>2, <1>3, <1>4 DEF IInv

(* What changes neither line nor sources, ACIA nor ring, keeps it as well. *)
LEMMA SameLineKeeps ==
  ASSUME IInv, UNCHANGED <<setting, acia, told>>, cpu' \in Cpu,
         cpu'.irqLine = cpu.irqLine, cpu'.irqSources = cpu.irqSources,
         undo' = undo \/ undo' = <<>>,
         running' \in BOOLEAN, refused' \in BOOLEAN
  PROVE  IInv'
<1>1. /\ undo' \in Seq(Entry) /\ Len(undo') <= MaxUndo
      /\ \A i \in DOMAIN undo' : undo'[i].irqLine <=> undo'[i].acia.irqFlag
  <2>1. CASE undo' = undo
    BY <2>1 DEF IInv, TypeOK
  <2>2. CASE undo' = <<>>
    <3>1. <<>> \in Seq(Entry) /\ Len(<<>>) = 0 /\ DOMAIN <<>> = {}
      OBVIOUS
    <3> QED BY <2>2, <3>1, InterruptsAssumption
  <2> QED BY <2>1, <2>2
<1> QED BY <1>1 DEF IInv, TypeOK, Agree, Tracks

(* Undo belongs to the TUI, and an entry's line is its ACIA's flag. *)
LEMMA UndoKeeps ==
  ASSUME IInv, Undo
  PROVE  IInv'
<1> DEFINE e == undo[Len(undo)]
<1>1. /\ undo \in Seq(Entry) /\ Len(undo) \in Nat \ {0}
      /\ Len(undo) \in DOMAIN undo /\ e \in Entry
  <2>1. undo \in Seq(Entry) /\ undo # <<>>
    BY DEF IInv, TypeOK, Undo
  <2>2. Len(undo) \in Nat \ {0}
    BY <2>1, EmptySeq
  <2> QED BY <2>1, <2>2
<1>2. setting.undo /\ "" \notin cpu.irqSources
  BY InterruptsAssumption DEF IInv, TypeOK, Undo, Setting
<1>3. /\ cpu' \in Cpu /\ acia' \in Acia /\ told' \in BOOLEAN
      /\ cpu'.irqLine = e.irqLine /\ cpu'.irqSources = cpu.irqSources
      /\ acia' = e.acia
  BY <1>1 DEF IInv, TypeOK, Undo, Restored, Cpu, Entry
<1>4. e.irqLine <=> e.acia.irqFlag
  BY <1>1 DEF IInv
<1>5. /\ undo' \in Seq(Entry) /\ Len(undo') <= MaxUndo
      /\ \A i \in DOMAIN undo' : i \in DOMAIN undo /\ undo'[i] = undo[i]
  <2>1. undo' = SubSeq(undo, 1, Len(undo) - 1)
    BY DEF Undo
  <2>2. MaxUndo \in Nat /\ Len(undo) <= MaxUndo
    BY InterruptsAssumption DEF IInv, TypeOK
  <2> QED BY <1>1, <2>1, <2>2
<1>6. TypeOK'
  BY <1>3, <1>5 DEF IInv, TypeOK, Undo
<1>7. Agree(acia', cpu')
  BY <1>2, <1>3, <1>4 DEF Agree
<1> QED BY <1>2, <1>3, <1>5, <1>6, <1>7 DEF IInv, Undo

(* A received byte. *)
LEMMA TypeKeeps ==
  ASSUME IInv, Type
  PROVE  IInv'
<1>1. Sound(acia, cpu, Received(acia, cpu))
  BY ReceivedSound DEF IInv, TypeOK, Type
<1>2. /\ acia' \in Acia /\ cpu' \in Cpu /\ Agree(acia', cpu')
      /\ Tracks(acia, cpu) => Tracks(acia', cpu')
      /\ "" \in cpu'.irqSources <=> "" \in cpu.irqSources
  BY <1>1 DEF Sound, Type
<1>3. TypeOK'
  BY <1>2 DEF IInv, TypeOK, Type
<1> QED BY <1>2, <1>3 DEF IInv, Type

(* AssertIRQ and ReleaseIRQ next to an ACIA that is in step. *)
LEMMA HostSourceSound ==
  ASSUME NEW a \in Acia, NEW c \in Cpu, Agree(a, c), Tracks(a, c)
  PROVE  \A d \in {AssertIRQSource(c, ""), ClearIRQSource(c, "")} :
           d \in Cpu /\ Agree(a, d) /\ Tracks(a, d)
<1>1. /\ AssertIRQSource(c, "") \in Cpu
      /\ Agree(a, AssertIRQSource(c, "")) /\ Tracks(a, AssertIRQSource(c, ""))
  BY DEF AssertIRQSource, Agree, Tracks, Acia, Cpu, Sources
<1>2. /\ ClearIRQSource(c, "") \in Cpu
      /\ Agree(a, ClearIRQSource(c, "")) /\ Tracks(a, ClearIRQSource(c, ""))
  <2>1. c.irqSources \ {""} # {} <=> "acia" \in c.irqSources
    <3>1. c.irqSources \subseteq {"acia", ""} /\ "acia" # ""
      BY DEF Cpu, Sources
    <3> DEFINE others == c.irqSources \ {""}
    <3>2. "acia" \in c.irqSources => "acia" \in others
      BY <3>1
    <3>3. "acia" \notin c.irqSources => \A x : x \notin others
      BY <3>1
    <3> HIDE DEF others
    <3>4. (\A x : x \notin others) => others = {}
      OBVIOUS
    <3> QED BY <3>2, <3>3, <3>4 DEF others
  <2> QED BY <2>1 DEF ClearIRQSource, Agree, Tracks, Acia, Cpu, Sources
<1> QED BY <1>1, <1>2

(* A host moves its own source, or triggers an NMI. *)
LEMMA HostCallKeeps ==
  ASSUME IInv, HostCall
  PROVE  IInv'
<1>1. setting.host /\ ~setting.undo /\ Tracks(acia, cpu) /\ undo = <<>>
  BY InterruptsAssumption DEF IInv, TypeOK, HostCall, Setting
<1>2. CASE cpu' = [cpu EXCEPT !.nmiPending = TRUE]
  <2>1. /\ cpu' \in Cpu
        /\ cpu'.irqLine = cpu.irqLine /\ cpu'.irqSources = cpu.irqSources
    BY <1>2 DEF IInv, TypeOK, Cpu
  <2> QED BY <2>1, SameLineKeeps DEF HostCall, IInv, TypeOK
<1>3. CASE cpu' = AssertIRQSource(cpu, "") \/ cpu' = ClearIRQSource(cpu, "")
  <2>1. cpu \in Cpu /\ acia \in Acia /\ Agree(acia, cpu)
    BY DEF IInv, TypeOK
  <2>2. cpu' \in Cpu /\ Agree(acia, cpu') /\ Tracks(acia, cpu')
    BY <1>1, <1>3, <2>1, HostSourceSound
  <2>3. UNCHANGED <<setting, acia, undo, running, told>> /\ refused' = FALSE
    BY DEF HostCall
  <2>4. TypeOK'
    BY <2>2, <2>3 DEF IInv, TypeOK
  <2> QED BY <1>1, <2>2, <2>3, <2>4 DEF IInv
<1> QED BY <1>2, <1>3 DEF HostCall

(***************************************************************************)
(* The theorems                                                            *)
(***************************************************************************)
(* The invariant holds in every reachable state, for every set of programs *)
(* and surroundings, queue bound and ring capacity.                        *)
THEOREM InterruptsInvariant == Spec => []IInv
<1>1. Init => IInv
  <2> SUFFICES ASSUME Init PROVE IInv
    OBVIOUS
  <2>1. undo \in Seq(Entry) /\ Len(undo) <= MaxUndo /\ DOMAIN undo = {}
    BY InterruptsAssumption, EmptySeq DEF Init
  <2>2. cpu \in Cpu /\ acia \in Acia
    BY InterruptsAssumption DEF Init, Cpu, Acia, Sources
  <2>3. Agree(acia, cpu) /\ Tracks(acia, cpu) /\ "" \notin cpu.irqSources
    BY DEF Init, Agree, Tracks
  <2> QED BY <2>1, <2>2, <2>3 DEF Init, IInv, TypeOK
<1>2. IInv /\ [Next]_vars => IInv'
  <2> SUFFICES ASSUME IInv, [Next]_vars PROVE IInv'
    OBVIOUS
  <2> USE DEF IInv, TypeOK
  <2>1. CASE KeyStep
    BY <2>1, RecordedStepKeeps DEF KeyStep
  <2>2. CASE Tick
    <3>1. cpu' \in Cpu
      BY <2>2, StepSound DEF Tick, RecordedStep, Sound, NextPair
    <3>2. running' \in BOOLEAN /\ refused' \in BOOLEAN
      BY <2>2, <3>1 DEF Tick, Cpu
    <3> QED BY <2>2, <3>2, RecordedStepKeeps DEF Tick
  <2>3. CASE Undo
    BY <2>3, UndoKeeps
  <2>4. CASE Type
    BY <2>4, TypeKeeps
  <2>5. CASE HostCall
    BY <2>5, HostCallKeeps
  <2>6. CASE KeyRun \/ KeyRefused
    BY <2>6, SameLineKeeps DEF KeyRun, KeyRefused
  <2>7. CASE Reset \/ SetPC \/ AssertAbort
    <3>1. /\ cpu' \in Cpu
          /\ cpu'.irqLine = cpu.irqLine /\ cpu'.irqSources = cpu.irqSources
      BY <2>7 DEF Reset, SetPC, AssertAbort, Cpu
    <3> QED BY <2>7, <3>1, SameLineKeeps DEF Reset, SetPC, AssertAbort
  <2>8. CASE UNCHANGED vars
    BY <2>8, SameLineKeeps DEF vars
  <2> QED BY <2>1, <2>2, <2>3, <2>4, <2>5, <2>6, <2>7, <2>8 DEF Next
<1> QED BY <1>1, <1>2, PTL DEF Spec

(* Every variable keeps its type; the ring never outgrows its capacity. *)
THEOREM InterruptsTyped == Spec => []TypeOK
<1>1. IInv => TypeOK
  BY DEF IInv
<1> QED BY <1>1, InterruptsInvariant, PTL

(* The CPU's line is high exactly while the ACIA's flag is up or the host  *)
(* holds it, across undo, resets and accesses of every program.            *)
THEOREM LineAgrees == Spec => []LineFollowsDevices
<1>1. IInv => LineFollowsDevices
  BY DEF IInv, TypeOK, LineFollowsDevices, Agree, Cpu, Acia
<1> QED BY <1>1, InterruptsInvariant, PTL

(***************************************************************************)
(* Waiting bytes                                                           *)
(***************************************************************************)
(* WaitingBytesAnnounced of one state of the ACIA and of what the program  *)
(* was told; undo restores both.                                           *)
Announced(a, t) == a.rxq > 0 /\ a.rxEnabled => a.irqFlag \/ t

AInv ==
  /\ Announced(acia, told)
  /\ \A i \in DOMAIN undo : Announced(undo[i].acia, undo[i].told)

(* Every access of the program leaves waiting bytes announced. *)
LEMMA AccessedAnnounced ==
  ASSUME NEW i \in Instructions, NEW a \in Acia, NEW c, NEW t,
         Announced(a, t)
  PROVE  Announced(Accessed(i, a, c).acia,
                   t \/ i \in {"readStatus", "writeStatus"})
<1>1. CASE i = "readData"
  <2>1. Announced(DataRead(a, c).acia, t)
    BY InterruptsAssumption DEF Announced, DataRead, ClearIRQ, Acia
  <2> QED BY <1>1, <2>1 DEF Accessed, Announced
<1>2. CASE i \in {"readStatus", "writeStatus"}
  BY <1>2 DEF Announced
<1>3. CASE i = "enableRx"
  BY <1>3, InterruptsAssumption DEF Accessed, Announced, RaiseRX, Acia
<1>4. CASE i = "disableRx"
  BY <1>4 DEF Accessed, Announced, ClearIRQ, Acia
<1>5. CASE i \notin {"readData", "readStatus", "writeStatus", "enableRx",
                     "disableRx"}
  <2>1. Accessed(i, a, c).acia = a
    BY <1>5 DEF Accessed
  <2> QED BY <2>1 DEF Announced
<1> QED BY <1>1, <1>2, <1>3, <1>4, <1>5

(* A received byte is announced by the line, where it may be. *)
LEMMA ReceivedAnnounced ==
  ASSUME NEW a \in Acia, NEW c
  PROVE  Announced(Received(a, c).acia, FALSE)
BY DEF Announced, Received, RaiseRX, Acia

(* A recorded step leaves bytes and entries announced. *)
LEMMA RecordedStepAnnounces ==
  ASSUME IInv, AInv, RecordedStep
  PROVE  AInv'
<1>1. Announced(acia', told')
  <2>1. CASE StepInstruction
    <3>1. PICK i \in setting.ops : \E flag \in FlagAfter(i) :
            /\ acia' = Accessed(i, acia, Executed(i, flag)).acia
            /\ told' = (told \/ i \in {"readStatus", "writeStatus"})
      BY <2>1 DEF StepInstruction
    <3>2. i \in Instructions /\ acia \in Acia
      BY InterruptsAssumption DEF IInv, TypeOK, Setting
    <3> QED BY <3>1, <3>2, AccessedAnnounced DEF AInv
  <2>2. CASE ~StepInstruction
    <3>1. UNCHANGED <<acia, told>>
      BY <2>2 DEF RecordedStep, Step, StepStopped, StepAbort, StepNmi,
                  StepIrq, StepHalted
    <3> QED BY <3>1 DEF AInv
  <2> QED BY <2>1, <2>2
<1>2. \A j \in DOMAIN undo' : Announced(undo'[j].acia, undo'[j].told)
  <2>1. undo \in Seq(Entry) /\ Len(undo) <= MaxUndo /\ Snapshot \in Entry
    BY SnapshotSound DEF IInv, TypeOK
  <2>2. Announced(Snapshot.acia, Snapshot.told)
    BY DEF AInv, Snapshot
  <2>3. \A j \in DOMAIN Kept(Append(undo, Snapshot)) :
          \/ Kept(Append(undo, Snapshot))[j] = Snapshot
          \/ \E i \in DOMAIN undo : Kept(Append(undo, Snapshot))[j] = undo[i]
    BY <2>1, KeptRing
  <2>4. undo' = undo \/ undo' = Kept(Append(undo, Snapshot))
    BY DEF RecordedStep
  <2> QED BY <2>2, <2>3, <2>4 DEF AInv
<1> QED BY <1>1, <1>2 DEF AInv

(* No received byte waits in silence, for every program, queue bound and   *)
(* ring capacity, and across undo.                                         *)
THEOREM NoByteWaitsInSilence == Spec => []WaitingBytesAnnounced
<1>1. Init => AInv
  <2> SUFFICES ASSUME Init PROVE AInv
    OBVIOUS
  <2>1. DOMAIN undo = {}
    BY DEF Init
  <2> QED BY <2>1 DEF Init, AInv, Announced
<1>2. IInv /\ AInv /\ [Next]_vars => AInv'
  <2> SUFFICES ASSUME IInv, AInv, [Next]_vars PROVE AInv'
    OBVIOUS
  <2>1. CASE KeyStep \/ Tick
    BY <2>1, RecordedStepAnnounces DEF KeyStep, Tick
  <2>2. CASE Undo
    <3>1. undo \in Seq(Entry) /\ undo # <<>> /\ Len(undo) \in Nat \ {0}
      BY <2>2, EmptySeq DEF IInv, TypeOK, Undo
    <3>2. /\ Len(undo) \in DOMAIN undo
          /\ \A i \in DOMAIN undo' : i \in DOMAIN undo /\ undo'[i] = undo[i]
      <4>1. undo' = SubSeq(undo, 1, Len(undo) - 1)
        BY <2>2 DEF Undo
      <4> QED BY <3>1, <4>1
    <3>3. /\ acia' = undo[Len(undo)].acia
          /\ told' = undo[Len(undo)].told
      BY <2>2 DEF Undo
    <3> QED BY <3>2, <3>3 DEF AInv
  <2>3. CASE Type
    <3>1. Announced(acia', told')
      BY <2>3, ReceivedAnnounced DEF IInv, TypeOK, Type
    <3> QED BY <2>3, <3>1 DEF AInv, Type
  <2>4. CASE Reset
    <3>1. DOMAIN undo' = {}
      BY <2>4 DEF Reset
    <3> QED BY <2>4, <3>1 DEF AInv, Reset
  <2>5. CASE KeyRun \/ KeyRefused \/ SetPC \/ AssertAbort \/ HostCall
             \/ UNCHANGED vars
    <3>1. UNCHANGED <<acia, told, undo>>
      BY <2>5 DEF KeyRun, KeyRefused, SetPC, AssertAbort, HostCall, vars
    <3> QED BY <3>1 DEF AInv
  <2> QED BY <2>1, <2>2, <2>3, <2>4, <2>5 DEF Next
<1>3. AInv => WaitingBytesAnnounced
  BY DEF AInv, Announced, WaitingBytesAnnounced
<1> QED BY <1>1, <1>2, <1>3, InterruptsInvariant, PTL DEF Spec
===============================================================================
