------------------------------ MODULE UndoProofs ------------------------------
(***************************************************************************)
(* For every capacity and every set of snapshots: the ring's indices stay  *)
(* in the array, a slot in use holds a pushed snapshot, and the ring       *)
(* implements the bounded history.                                         *)
(*                                                                         *)
(* For every program, memory, capacity, interval and length of a run: a    *)
(* deep rewind replays less than an interval; and, for one debugger and a  *)
(* run that changes nothing a snapshot leaves out, `<` and stepBack give   *)
(* back the machine they undo to, and `:rewind` lands where the run was.   *)
(***************************************************************************)
EXTENDS SnapshotRing, Rewind, SequenceTheorems, WellFoundedInduction, TLAPS

-------------------------------------------------------------------------------
(* Index arithmetic: at most one wrap. *)

LEMMA Wrap ==
  ASSUME NEW c \in Nat \ {0}, NEW x \in 0 .. 2 * c - 1
  PROVE  x % c = IF x < c THEN x ELSE x - c
  BY SMT

(* The slot of the i-th entry, without the modulus. *)
LEMMA SlotValue ==
  ASSUME NEW h \in Slots, NEW n \in 1 .. Capacity, NEW i \in 1 .. n
  PROVE  /\ SlotOf(h, n, i) \in Slots
         /\ SlotOf(h, n, i) = IF h - n + i - 1 < 0 THEN h - n + i - 1 + Capacity
                                                   ELSE h - n + i - 1
<1> DEFINE x == h - n + i - 1 + Capacity
<1>1. Capacity \in Nat \ {0} /\ h \in 0 .. Capacity - 1
  BY CapacityAssumption DEF Slots
<1>2. x \in 0 .. 2 * Capacity - 1
  BY <1>1
<1>3. x % Capacity = IF x < Capacity THEN x ELSE x - Capacity
  BY <1>1, <1>2, Wrap
<1>4. QED
  BY <1>1, <1>2, <1>3 DEF SlotOf, Slots

(* Where Push moves head, and where Pop moves it. *)
LEMMA HeadValue ==
  ASSUME NEW h \in Slots
  PROVE  /\ (h + 1) % Capacity = IF h + 1 < Capacity THEN h + 1 ELSE 0
         /\ (h - 1 + Capacity) % Capacity = IF h = 0 THEN Capacity - 1 ELSE h - 1
<1>1. Capacity \in Nat \ {0} /\ h \in 0 .. Capacity - 1
  BY CapacityAssumption DEF Slots
<1>2. \A x \in 0 .. 2 * Capacity - 1 :
        x % Capacity = IF x < Capacity THEN x ELSE x - Capacity
  BY <1>1, Wrap
<1>3. /\ h + 1 \in 0 .. 2 * Capacity - 1
      /\ h - 1 + Capacity \in 0 .. 2 * Capacity - 1
  BY <1>1
<1>4. QED  BY <1>1, <1>2, <1>3

(* Pushing into a ring that is not full keeps every used slot and uses the *)
(* one at head; pushing into a full ring drops the oldest.                 *)
LEMMA SlotsAfterPush ==
  ASSUME NEW h \in Slots, NEW n \in 0 .. Capacity
  PROVE  LET g == (h + 1) % Capacity IN
         /\ g \in Slots
         /\ n < Capacity =>
              /\ SlotOf(g, n + 1, n + 1) = h
              /\ \A i \in 1 .. n : /\ SlotOf(g, n + 1, i) = SlotOf(h, n, i)
                                   /\ SlotOf(h, n, i) \in Slots \ {h}
         /\ n = Capacity =>
              /\ SlotOf(g, n, n) = h
              /\ \A i \in 1 .. n - 1 : /\ SlotOf(g, n, i) = SlotOf(h, n, i + 1)
                                       /\ SlotOf(h, n, i + 1) \in Slots \ {h}
<1> DEFINE g == (h + 1) % Capacity
<1>1. Capacity \in Nat \ {0} /\ h \in 0 .. Capacity - 1
  BY CapacityAssumption DEF Slots
<1>2. g = IF h + 1 < Capacity THEN h + 1 ELSE 0
  BY HeadValue
<1>3. g \in Slots /\ g \in 0 .. Capacity - 1
  BY <1>1, <1>2 DEF Slots
<1> HIDE DEF g
<1>4. ASSUME n < Capacity
      PROVE  /\ SlotOf(g, n + 1, n + 1) = h
             /\ \A i \in 1 .. n : /\ SlotOf(g, n + 1, i) = SlotOf(h, n, i)
                                  /\ SlotOf(h, n, i) \in Slots \ {h}
  <2>1. n + 1 \in 1 .. Capacity /\ n + 1 \in 1 .. n + 1
    BY <1>1, <1>4
  <2>2. SlotOf(g, n + 1, n + 1) = h
    <3>1. SlotOf(g, n + 1, n + 1)
            = IF g - (n + 1) + (n + 1) - 1 < 0
                THEN g - (n + 1) + (n + 1) - 1 + Capacity
                ELSE g - (n + 1) + (n + 1) - 1
      BY <1>3, <2>1, SlotValue
    <3>2. QED  BY <1>1, <1>2, <3>1
  <2>3. ASSUME NEW i \in 1 .. n
        PROVE  /\ SlotOf(g, n + 1, i) = SlotOf(h, n, i)
               /\ SlotOf(h, n, i) \in Slots \ {h}
    <3>1. n \in 1 .. Capacity /\ i \in 1 .. n + 1
      BY <1>1, <1>4
    <3>2. SlotOf(g, n + 1, i)
            = IF g - (n + 1) + i - 1 < 0 THEN g - (n + 1) + i - 1 + Capacity
                                         ELSE g - (n + 1) + i - 1
      BY <1>3, <2>1, <3>1, SlotValue
    <3>3. /\ SlotOf(h, n, i) \in Slots
          /\ SlotOf(h, n, i) = IF h - n + i - 1 < 0 THEN h - n + i - 1 + Capacity
                                                    ELSE h - n + i - 1
      BY <3>1, SlotValue
    <3>4. QED  BY <1>1, <1>2, <1>4, <3>1, <3>2, <3>3
  <2>4. QED  BY <2>2, <2>3
<1>5. ASSUME n = Capacity
      PROVE  /\ SlotOf(g, n, n) = h
             /\ \A i \in 1 .. n - 1 : /\ SlotOf(g, n, i) = SlotOf(h, n, i + 1)
                                      /\ SlotOf(h, n, i + 1) \in Slots \ {h}
  <2>1. n \in 1 .. Capacity /\ n \in 1 .. n
    BY <1>1, <1>5
  <2>2. SlotOf(g, n, n) = h
    <3>1. SlotOf(g, n, n) = IF g - n + n - 1 < 0 THEN g - n + n - 1 + Capacity
                                                 ELSE g - n + n - 1
      BY <1>3, <2>1, SlotValue
    <3>2. QED  BY <1>1, <1>2, <3>1
  <2>3. ASSUME NEW i \in 1 .. n - 1
        PROVE  /\ SlotOf(g, n, i) = SlotOf(h, n, i + 1)
               /\ SlotOf(h, n, i + 1) \in Slots \ {h}
    <3>1. i \in 1 .. n /\ i + 1 \in 1 .. n
      BY <2>1
    <3>2. SlotOf(g, n, i) = IF g - n + i - 1 < 0 THEN g - n + i - 1 + Capacity
                                                 ELSE g - n + i - 1
      BY <1>3, <2>1, <3>1, SlotValue
    <3>3. /\ SlotOf(h, n, i + 1) \in Slots
          /\ SlotOf(h, n, i + 1)
               = IF h - n + (i + 1) - 1 < 0 THEN h - n + (i + 1) - 1 + Capacity
                                            ELSE h - n + (i + 1) - 1
      BY <2>1, <3>1, SlotValue
    <3>4. QED  BY <1>1, <1>2, <1>5, <3>1, <3>2, <3>3
  <2>4. QED  BY <2>2, <2>3
<1>6. QED
  BY <1>3, <1>4, <1>5 DEF g

(* Popping lands head on the newest used slot and keeps the others. *)
LEMMA SlotsAfterPop ==
  ASSUME NEW h \in Slots, NEW n \in 1 .. Capacity
  PROVE  LET g == (h - 1 + Capacity) % Capacity IN
         /\ g \in Slots
         /\ g = SlotOf(h, n, n)
         /\ \A i \in 1 .. n - 1 : SlotOf(g, n - 1, i) = SlotOf(h, n, i)
<1> DEFINE g == (h - 1 + Capacity) % Capacity
<1>1. Capacity \in Nat \ {0} /\ h \in 0 .. Capacity - 1 /\ n \in 1 .. n
  BY CapacityAssumption DEF Slots
<1>2. g = IF h = 0 THEN Capacity - 1 ELSE h - 1
  BY HeadValue
<1>3. g \in Slots /\ g \in 0 .. Capacity - 1
  BY <1>1, <1>2 DEF Slots
<1> HIDE DEF g
<1>4. g = SlotOf(h, n, n)
  <2>1. SlotOf(h, n, n) = IF h - n + n - 1 < 0 THEN h - n + n - 1 + Capacity
                                               ELSE h - n + n - 1
    BY <1>1, SlotValue
  <2>2. QED  BY <1>1, <1>2, <2>1
<1>5. ASSUME NEW i \in 1 .. n - 1
      PROVE  SlotOf(g, n - 1, i) = SlotOf(h, n, i)
  <2>1. n - 1 \in 1 .. Capacity /\ i \in 1 .. n
    BY <1>1
  <2>2. SlotOf(g, n - 1, i)
          = IF g - (n - 1) + i - 1 < 0 THEN g - (n - 1) + i - 1 + Capacity
                                       ELSE g - (n - 1) + i - 1
    BY <1>3, <2>1, SlotValue
  <2>3. SlotOf(h, n, i) = IF h - n + i - 1 < 0 THEN h - n + i - 1 + Capacity
                                               ELSE h - n + i - 1
    BY <2>1, SlotValue
  <2>4. QED  BY <1>1, <1>2, <2>2, <2>3
<1>6. QED
  BY <1>3, <1>4, <1>5 DEF g

-------------------------------------------------------------------------------
(* The inductive invariant: Pop answers with a pushed snapshot only        *)
(* because every used slot holds one, so the two parts go together.        *)
RingInv == RingTypeOK /\ UsedSlotsHoldSnapshots

(* The parts of RingTypeOK one at a time. *)
LEMMA RingParts ==
  ASSUME RingTypeOK
  PROVE  /\ Capacity \in Nat \ {0}
         /\ head \in Slots
         /\ size \in 0 .. Capacity
         /\ buf \in [Slots -> Snapshots \cup {Zero}]
         /\ result \in Snapshots \cup {None}
  BY CapacityAssumption DEF RingTypeOK

(* A fresh ring has no used slot. *)
LEMMA InitInvariant == RingInit => RingInv
<1> SUFFICES ASSUME RingInit PROVE RingInv
  OBVIOUS
<1>1. RingTypeOK
  BY CapacityAssumption DEF RingInit, RingTypeOK, Slots
<1>2. UsedSlotsHoldSnapshots
  BY DEF RingInit, UsedSlotsHoldSnapshots
<1>3. QED  BY <1>1, <1>2 DEF RingInv

(* Push fills the slot at head with a snapshot and keeps the other used    *)
(* ones.                                                                   *)
LEMMA PushInvariant ==
  ASSUME RingInv, NEW s \in Snapshots, Push(s)
  PROVE  RingInv'
<1>1. /\ Capacity \in Nat \ {0}
      /\ head \in Slots
      /\ size \in 0 .. Capacity
      /\ buf \in [Slots -> Snapshots \cup {Zero}]
      /\ result \in Snapshots \cup {None}
  BY RingParts DEF RingInv
<1>2. /\ buf' = [buf EXCEPT ![head] = s]
      /\ head' = (head + 1) % Capacity
      /\ size' = IF size < Capacity THEN size + 1 ELSE size
      /\ result' = result
  BY DEF Push
<1>3. head' \in Slots
  BY <1>1, <1>2, SlotsAfterPush
<1>4. size' \in 0 .. Capacity
  BY <1>1, <1>2
<1>5. RingTypeOK'
  BY <1>1, <1>2, <1>3, <1>4 DEF RingTypeOK
<1>6. ASSUME NEW i \in 1 .. size'
      PROVE  buf'[SlotOf(head', size', i)] \in Snapshots
  <2>1. CASE size < Capacity
    <3>1. CASE i = size + 1
      <4>1. size' = size + 1 /\ SlotOf(head', size + 1, size + 1) = head
        BY <1>1, <1>2, <2>1, SlotsAfterPush
      <4>2. QED  BY <1>1, <1>2, <3>1, <4>1
    <3>2. CASE i \in 1 .. size
      <4>1. SlotOf(head', size', i) = SlotOf(head, size, i)
            /\ SlotOf(head, size, i) \in Slots \ {head}
        BY <1>1, <1>2, <2>1, <3>2, SlotsAfterPush
      <4>2. buf[SlotOf(head, size, i)] \in Snapshots
        BY <3>2 DEF RingInv, UsedSlotsHoldSnapshots
      <4>3. QED  BY <1>1, <1>2, <4>1, <4>2
    <3>3. QED  BY <1>1, <1>2, <2>1, <3>1, <3>2
  <2>2. CASE size = Capacity
    <3>1. CASE i = size
      BY <1>1, <1>2, <2>2, <3>1, SlotsAfterPush
    <3>2. CASE i \in 1 .. size - 1
      <4>1. SlotOf(head', size', i) = SlotOf(head, size, i + 1)
            /\ SlotOf(head, size, i + 1) \in Slots \ {head}
        BY <1>1, <1>2, <2>2, <3>2, SlotsAfterPush
      <4>2. buf[SlotOf(head, size, i + 1)] \in Snapshots
        <5>1. i + 1 \in 1 .. size  BY <1>1, <3>2
        <5>2. QED  BY <5>1 DEF RingInv, UsedSlotsHoldSnapshots
      <4>3. QED  BY <1>1, <1>2, <4>1, <4>2
    <3>3. QED  BY <1>1, <1>2, <2>2, <3>1, <3>2
  <2>3. QED  BY <1>1, <2>1, <2>2
<1>7. UsedSlotsHoldSnapshots'
  BY <1>6 DEF UsedSlotsHoldSnapshots
<1>8. QED  BY <1>5, <1>7 DEF RingInv

(* Pop returns the snapshot in the newest used slot and frees it. *)
LEMMA PopInvariant ==
  ASSUME RingInv, PopNewest
  PROVE  RingInv'
<1>1. /\ Capacity \in Nat \ {0}
      /\ head \in Slots
      /\ size \in 1 .. Capacity
      /\ buf \in [Slots -> Snapshots \cup {Zero}]
      /\ result \in Snapshots \cup {None}
  BY RingParts DEF RingInv, PopNewest
<1>2. /\ head' = (head - 1 + Capacity) % Capacity
      /\ result' = buf[(head - 1 + Capacity) % Capacity]
      /\ size' = size - 1
      /\ buf' = buf
  BY DEF PopNewest
<1>3. /\ head' \in Slots
      /\ head' = SlotOf(head, size, size)
      /\ \A i \in 1 .. size - 1 :
           SlotOf(head', size - 1, i) = SlotOf(head, size, i)
  BY <1>1, <1>2, SlotsAfterPop
<1>4. \A i \in 1 .. size : buf[SlotOf(head, size, i)] \in Snapshots
  BY DEF RingInv, UsedSlotsHoldSnapshots
<1>5. RingTypeOK'
  <2>1. result' \in Snapshots
    <3>1. size \in 1 .. size  BY <1>1
    <3>2. QED  BY <1>2, <1>3, <1>4, <3>1
  <2>2. size' \in 0 .. Capacity  BY <1>1, <1>2
  <2>3. QED  BY <1>1, <1>2, <1>3, <2>1, <2>2 DEF RingTypeOK
<1>6. UsedSlotsHoldSnapshots'
  <2>1. ASSUME NEW i \in 1 .. size - 1
        PROVE  buf[SlotOf(head', size - 1, i)] \in Snapshots
    <3>1. i \in 1 .. size  BY <1>1
    <3>2. QED  BY <1>3, <1>4, <3>1
  <2>2. QED  BY <1>2, <2>1 DEF UsedSlotsHoldSnapshots
<1>7. QED  BY <1>5, <1>6 DEF RingInv

(* Every operation keeps the invariant. *)
LEMMA StepInvariant == RingInv /\ [RingNext]_ringVars => RingInv'
<1> SUFFICES ASSUME RingInv, [RingNext]_ringVars PROVE RingInv'
  OBVIOUS
<1>1. CASE \E s \in Snapshots : Push(s)
  BY <1>1, PushInvariant
<1>2. CASE PopEmpty
  <2>1. RingTypeOK'
    BY <1>2, RingParts DEF RingInv, PopEmpty, RingTypeOK
  <2>2. UsedSlotsHoldSnapshots'
    BY <1>2 DEF RingInv, PopEmpty, UsedSlotsHoldSnapshots
  <2>3. QED  BY <2>1, <2>2 DEF RingInv
<1>3. CASE PopNewest
  BY <1>3, PopInvariant
<1>4. CASE RingReset
  <2>1. RingTypeOK'
    BY <1>4, RingParts DEF RingInv, RingReset, RingTypeOK, Slots
  <2>2. UsedSlotsHoldSnapshots'
    BY <1>4 DEF RingReset, UsedSlotsHoldSnapshots
  <2>3. QED  BY <2>1, <2>2 DEF RingInv
<1>5. CASE UNCHANGED ringVars
  BY <1>5 DEF RingInv, ringVars, RingTypeOK, UsedSlotsHoldSnapshots
<1>6. QED  BY <1>1, <1>2, <1>3, <1>4, <1>5 DEF RingNext

(* Indices in range and every used slot filled: the two parts of RingInv   *)
(* hold together in every state of the ring.                               *)
THEOREM RingInvariant == RingSpec => []RingInv
  BY InitInvariant, StepInvariant, PTL DEF RingSpec

(* The write index stays in the array and the count within it, for every   *)
(* capacity (the indices Push and Pop compute in snapshot_ring.go).        *)
THEOREM RingTyped == RingSpec => []RingTypeOK
<1>1. RingInv => RingTypeOK  BY DEF RingInv
<1>2. QED  BY <1>1, RingInvariant, PTL

(* No Pop ever hands out the zero Snapshot of a fresh slot. *)
THEOREM PopsArePushed == RingSpec => []UsedSlotsHoldSnapshots
<1>1. RingInv => UsedSlotsHoldSnapshots  BY DEF RingInv
<1>2. QED  BY <1>1, RingInvariant, PTL

-------------------------------------------------------------------------------
(* Refinement: the ring, read from the oldest used slot to the newest, is  *)
(* the stack of BoundedHistory.                                            *)

(* A function tabulated over 1 .. n is a sequence of length n. *)
LEMMA Tabulated ==
  ASSUME NEW b, NEW h, NEW n \in Nat,
         \A i \in 1 .. n : b[SlotOf(h, n, i)] \in Snapshots
  PROVE  LET q == [i \in 1 .. n |-> b[SlotOf(h, n, i)]] IN
         /\ q \in Seq(Snapshots)
         /\ Len(q) = n
         /\ \A i \in 1 .. n : q[i] = b[SlotOf(h, n, i)]
<1> DEFINE q == [i \in 1 .. n |-> b[SlotOf(h, n, i)]]
<1>1. q \in [1 .. n -> Snapshots]
  OBVIOUS
<1>2. q \in Seq(Snapshots)
  BY <1>1, SeqDef
<1>3. Len(q) = n
  BY <1>1, <1>2, LenProperties
<1>4. QED  BY <1>2, <1>3

(* What the abstract stack is, slot by slot. *)
LEMMA StackIs ==
  ASSUME RingInv
  PROVE  /\ stack \in Seq(Snapshots)
         /\ Len(stack) = size
         /\ \A i \in 1 .. size : stack[i] = buf[SlotOf(head, size, i)]
<1>1. size \in Nat
  BY RingParts DEF RingInv
<1>2. \A i \in 1 .. size : buf[SlotOf(head, size, i)] \in Snapshots
  BY DEF RingInv, UsedSlotsHoldSnapshots
<1>3. QED  BY <1>1, <1>2, Tabulated DEF stack

(* The same for the next state. *)
LEMMA StackIsNext ==
  ASSUME RingInv'
  PROVE  /\ stack' \in Seq(Snapshots)
         /\ Len(stack') = size'
         /\ \A i \in 1 .. size' : stack'[i] = buf'[SlotOf(head', size', i)]
<1>1. size' \in Nat
  BY CapacityAssumption DEF RingInv, RingTypeOK
<1>2. \A i \in 1 .. size' : buf'[SlotOf(head', size', i)] \in Snapshots
  BY DEF RingInv, UsedSlotsHoldSnapshots
<1>3. QED  BY <1>1, <1>2, Tabulated DEF stack

(* Push appends to the stack and, on a full ring, forgets its oldest       *)
(* entry.                                                                  *)
LEMMA PushRefines ==
  ASSUME RingInv, RingInv', NEW s \in Snapshots, Push(s)
  PROVE  History!Push(s)
<1>1. /\ Capacity \in Nat \ {0}
      /\ head \in Slots
      /\ size \in 0 .. Capacity
      /\ buf \in [Slots -> Snapshots \cup {Zero}]
  BY RingParts DEF RingInv
<1>2. /\ buf' = [buf EXCEPT ![head] = s]
      /\ head' = (head + 1) % Capacity
      /\ size' = IF size < Capacity THEN size + 1 ELSE size
      /\ result' = result
  BY DEF Push
<1>3. /\ stack \in Seq(Snapshots)
      /\ Len(stack) = size
      /\ \A i \in 1 .. size : stack[i] = buf[SlotOf(head, size, i)]
  BY StackIs
<1>4. /\ stack' \in Seq(Snapshots)
      /\ Len(stack') = size'
      /\ \A i \in 1 .. size' : stack'[i] = buf'[SlotOf(head', size', i)]
  BY StackIsNext
<1> DEFINE pushed == Append(stack, s)
<1>5. /\ pushed \in Seq(Snapshots)
      /\ Len(pushed) = size + 1
      /\ \A i \in 1 .. size : pushed[i] = stack[i]
      /\ pushed[size + 1] = s
  BY <1>1, <1>3
<1> HIDE DEF pushed
<1>6. CASE size < Capacity
  <2>1. \A i \in 1 .. size + 1 : stack'[i] = pushed[i]
    <3>1. stack'[size + 1] = pushed[size + 1]
      <4>1. SlotOf(head', size', size + 1) = head /\ size + 1 \in 1 .. size'
        BY <1>1, <1>2, <1>6, SlotsAfterPush
      <4>2. stack'[size + 1] = buf'[head]
        BY <1>4, <4>1
      <4>3. QED  BY <1>1, <1>2, <1>5, <4>2
    <3>2. ASSUME NEW i \in 1 .. size PROVE stack'[i] = pushed[i]
      <4>1. /\ SlotOf(head', size', i) = SlotOf(head, size, i)
            /\ SlotOf(head, size, i) \in Slots \ {head}
        BY <1>1, <1>2, <1>6, SlotsAfterPush
      <4>2. i \in 1 .. size'  BY <1>1, <1>2, <1>6
      <4>3. QED  BY <1>1, <1>2, <1>3, <1>4, <1>5, <4>1, <4>2
    <3>3. QED  BY <1>1, <3>1, <3>2
  <2>2. stack' = pushed
    BY <1>1, <1>2, <1>4, <1>5, <1>6, <2>1, SeqEqual
  <2>3. ~(Len(pushed) > Capacity)
    BY <1>1, <1>5, <1>6
  <2>4. QED
    BY <1>2, <2>2, <2>3 DEF History!Push, History!Forget, pushed
<1>7. CASE size = Capacity
  <2>1. /\ pushed # <<>>
        /\ Tail(pushed) \in Seq(Snapshots)
        /\ Len(Tail(pushed)) = size
        /\ \A i \in 1 .. size : Tail(pushed)[i] = pushed[i + 1]
    BY <1>1, <1>5, HeadTailProperties
  <2>2. \A i \in 1 .. size : stack'[i] = Tail(pushed)[i]
    <3>1. stack'[size] = Tail(pushed)[size]
      BY <1>1, <1>2, <1>4, <1>5, <1>7, <2>1, SlotsAfterPush
    <3>2. ASSUME NEW i \in 1 .. size - 1 PROVE stack'[i] = Tail(pushed)[i]
      <4>1. /\ SlotOf(head', size', i) = SlotOf(head, size, i + 1)
            /\ SlotOf(head, size, i + 1) \in Slots \ {head}
        BY <1>1, <1>2, <1>7, SlotsAfterPush
      <4>2. i \in 1 .. size' /\ i + 1 \in 1 .. size /\ i \in 1 .. size
        BY <1>1, <1>2, <1>7
      <4>3. QED  BY <1>1, <1>2, <1>3, <1>4, <1>5, <2>1, <4>1, <4>2
    <3>3. \A i \in 1 .. size : i = size \/ i \in 1 .. size - 1
      BY <1>1
    <3>4. QED  BY <3>1, <3>2, <3>3
  <2>3. stack' = Tail(pushed)
    BY <1>1, <1>2, <1>4, <1>7, <2>1, <2>2, SeqEqual
  <2>4. Len(pushed) > Capacity
    BY <1>1, <1>5, <1>7
  <2>5. QED
    BY <1>2, <2>3, <2>4 DEF History!Push, History!Forget, pushed
<1>8. QED  BY <1>1, <1>6, <1>7

(* Pop answers the last entry of the stack and removes it. *)
LEMMA PopRefines ==
  ASSUME RingInv, RingInv', PopNewest
  PROVE  History!Pop
<1>1. /\ Capacity \in Nat \ {0}
      /\ head \in Slots
      /\ size \in 1 .. Capacity
      /\ size \in 1 .. size
  BY RingParts DEF RingInv, PopNewest
<1>2. /\ head' = (head - 1 + Capacity) % Capacity
      /\ result' = buf[(head - 1 + Capacity) % Capacity]
      /\ size' = size - 1
      /\ buf' = buf
  BY DEF PopNewest
<1>3. /\ stack \in Seq(Snapshots)
      /\ Len(stack) = size
      /\ \A i \in 1 .. size : stack[i] = buf[SlotOf(head, size, i)]
  BY StackIs
<1>4. /\ stack' \in Seq(Snapshots)
      /\ Len(stack') = size'
      /\ \A i \in 1 .. size' : stack'[i] = buf'[SlotOf(head', size', i)]
  BY StackIsNext
<1>5. /\ head' = SlotOf(head, size, size)
      /\ \A i \in 1 .. size - 1 :
           SlotOf(head', size - 1, i) = SlotOf(head, size, i)
  BY <1>1, <1>2, SlotsAfterPop
<1>6. stack # <<>>
  BY <1>1, <1>3, EmptySeq
<1>7. result' = stack[Len(stack)]
  BY <1>1, <1>2, <1>3, <1>5
<1>8. stack' = SubSeq(stack, 1, Len(stack) - 1)
  <2>1. /\ SubSeq(stack, 1, size - 1) \in Seq(Snapshots)
        /\ Len(SubSeq(stack, 1, size - 1)) = size - 1
        /\ \A i \in 1 .. size - 1 : SubSeq(stack, 1, size - 1)[i] = stack[i]
    BY <1>1, <1>3
  <2>2. ASSUME NEW i \in 1 .. size - 1 PROVE stack'[i] = stack[i]
    <3>1. i \in 1 .. size' /\ i \in 1 .. size  BY <1>1, <1>2
    <3>2. QED  BY <1>2, <1>3, <1>4, <1>5, <3>1
  <2>3. QED
    BY <1>1, <1>2, <1>3, <1>4, <2>1, <2>2, SeqEqual
<1>9. QED  BY <1>6, <1>7, <1>8 DEF History!Pop

(* The ring is empty exactly when the stack is. *)
LEMMA EmptyStack ==
  ASSUME RingInv
  PROVE  size = 0 <=> stack = <<>>
  BY StackIs, EmptySeq, RingParts DEF RingInv

(* Every step of the ring is a step of the bounded history, or none. *)
LEMMA StepRefines ==
  ASSUME RingInv, RingInv', [RingNext]_ringVars
  PROVE  [History!Next]_(History!vars)
<1>0. /\ size = 0 <=> stack = <<>>
      /\ size' = 0 <=> stack' = <<>>
  <2>1. size' \in Nat  BY CapacityAssumption DEF RingInv, RingTypeOK
  <2>2. QED  BY <2>1, EmptyStack, StackIsNext, EmptySeq
<1>1. CASE \E s \in Snapshots : Push(s)
  BY <1>1, PushRefines DEF History!Next
<1>2. CASE PopEmpty
  <2>1. stack' = stack  BY <1>2 DEF PopEmpty, stack
  <2>2. QED  BY <1>0, <1>2, <2>1 DEF PopEmpty, History!Next, History!Pop
<1>3. CASE PopNewest
  BY <1>3, PopRefines DEF History!Next
<1>4. CASE RingReset
  BY <1>0, <1>4 DEF RingReset, History!Next, History!Reset
<1>5. CASE UNCHANGED ringVars
  BY <1>5 DEF ringVars, stack, History!vars
<1>6. QED  BY <1>1, <1>2, <1>3, <1>4, <1>5 DEF RingNext

(* The ring implements the bounded history, for every capacity: what `<`   *)
(* and stepBack pop is the newest snapshot not yet popped, and what a full *)
(* ring overwrites is the oldest.                                          *)
THEOREM RingImplementsHistory == RingSpec => IsBoundedHistory
<1>1. RingInit => History!Init
  <2> SUFFICES ASSUME RingInit PROVE History!Init
    OBVIOUS
  <2>1. stack = <<>>
    BY InitInvariant, EmptyStack DEF RingInit
  <2>2. QED  BY <2>1 DEF RingInit, History!Init
<1>2. RingInv /\ RingInv' /\ [RingNext]_ringVars => [History!Next]_(History!vars)
  BY StepRefines
<1>3. QED
  BY <1>1, <1>2, RingInvariant, PTL DEF RingSpec, IsBoundedHistory, History!Spec

-------------------------------------------------------------------------------
(* Counting. *)

(* A set of positions that holds the first and with each the next holds    *)
(* them all.                                                               *)
LEMMA Climb ==
  ASSUME NEW n \in Nat, NEW T \in SUBSET (0 .. n), 0 \in T,
         \A i \in 1 .. n : i - 1 \in T => i \in T
  PROVE  T = 0 .. n
<1> DEFINE Missing == (0 .. n) \ T
<1>1. Missing = {}
  <2> SUFFICES ASSUME Missing # {} PROVE FALSE
    OBVIOUS
  <2>1. Missing \subseteq Nat
    OBVIOUS
  <2>2. PICK i \in Missing : \A j \in Missing : ~(<<j, i>> \in OpToRel(<, Nat))
    <3> HIDE DEF Missing
    <3> QED BY <2>1, NatLessThanWellFounded, WFMin
  <2>3. i # 0 /\ i \in 1 .. n /\ i - 1 \notin Missing
    <3>1. i \in 1 .. n
      OBVIOUS
    <3>2. <<i - 1, i>> \in OpToRel(<, Nat)
      BY <3>1 DEF OpToRel
    <3>3. i - 1 \notin Missing
      BY <2>2, <3>2
    <3> HIDE DEF Missing
    <3> QED BY <3>1, <3>3
  <2>4. i - 1 \in T
    BY <2>3
  <2> QED BY <2>3, <2>4
<1> QED BY <1>1

(* The last of a nonempty set of positions. *)
LEMMA LastPosition ==
  ASSUME NEW n \in Nat, NEW S \in SUBSET (1 .. n), S # {}
  PROVE  \E i \in S : \A j \in S : j <= i
<1> DEFINE T == {i \in 0 .. n : \A j \in S : j <= n - i}
<1> SUFFICES ASSUME \A i \in S : \E j \in S : i < j PROVE FALSE
  OBVIOUS
<1>1. 0 \in T
  OBVIOUS
<1>2. ASSUME NEW i \in 1 .. n, i - 1 \in T PROVE i \in T
  <2>1. ASSUME NEW j \in S PROVE j <= n - i
    <3>1. PICK k \in S : j < k
      OBVIOUS
    <3>2. k <= n - (i - 1) /\ j \in 1 .. n /\ k \in 1 .. n
      BY <1>2
    <3> QED BY <3>1, <3>2
  <2> QED BY <2>1
<1>3. T = 0 .. n
  <2>1. T \in SUBSET (0 .. n)
    OBVIOUS
  <2> HIDE DEF T
  <2> QED BY <1>1, <1>2, <2>1, Climb
<1>4. \A j \in S : j <= n - n
  <2>1. n \in T
    <3> HIDE DEF T
    <3> QED BY <1>3
  <2> QED BY <2>1
<1>5. PICK j \in S : TRUE
  OBVIOUS
<1>6. j \in 1 .. n /\ j <= 0
  BY <1>4
<1> QED BY <1>6

(* The states of a machine that starts in x and whose i-th step is F[i].   *)
IsPath(f, S, n, x, F) ==
  /\ f \in [0 .. n -> S]
  /\ f[0] = x /\ \A i \in 1 .. n : f[i] = F[i][f[i - 1]]

LEMMA Iteration ==
  ASSUME NEW S, NEW n \in Nat, NEW x \in S, NEW F \in [1 .. n -> [S -> S]]
  PROVE  \E f : IsPath(f, S, n, x, F)
<1> DEFINE Path(f, k) ==
             /\ f \in [0 .. k -> S]
             /\ \A i \in 0 .. k : f[i] = IF i = 0 THEN x ELSE F[i][f[i - 1]]
           T == {k \in 0 .. n : \E f : Path(f, k)}
<1>1. 0 \in T
  <2>1. Path([i \in 0 .. 0 |-> x], 0)
    OBVIOUS
  <2> HIDE DEF Path
  <2> QED BY <2>1
<1>2. ASSUME NEW k \in 1 .. n, k - 1 \in T PROVE k \in T
  <2>1. PICK f : Path(f, k - 1)
    BY <1>2
  <2> DEFINE g == [i \in 0 .. k |-> IF i = k THEN F[k][f[k - 1]] ELSE f[i]]
  <2>2. F[k][f[k - 1]] \in S
    BY <2>1
  <2>3. g \in [0 .. k -> S]
    BY <2>1, <2>2
  <2>4. ASSUME NEW i \in 0 .. k
        PROVE  g[i] = IF i = 0 THEN x ELSE F[i][g[i - 1]]
    <3>1. CASE i = k
      BY <3>1
    <3>2. CASE i # k
      BY <2>1, <3>2
    <3> QED BY <3>1, <3>2
  <2>5. Path(g, k)
    BY <2>3, <2>4
  <2> HIDE DEF Path, g
  <2> QED BY <2>5
<1>3. T = 0 .. n
  <2>1. T \in SUBSET (0 .. n)
    OBVIOUS
  <2> HIDE DEF T
  <2> QED BY <1>1, <1>2, <2>1, Climb
<1>4. PICK f : Path(f, n)
  <2>1. n \in T
    <3> HIDE DEF T
    <3> QED BY <1>3
  <2> QED BY <2>1
<1> QED BY <1>4 DEF IsPath

-------------------------------------------------------------------------------
(* Rings. *)

(* What a ring of this capacity keeps of a sequence is its end.            *)
LEMMA NewestEnd ==
  ASSUME NEW S, NEW q \in Seq(S), NEW cap \in Nat \ {0}
  PROVE  /\ Newest(cap, q) \in Seq(S) /\ Len(Newest(cap, q)) <= cap
         /\ Len(Newest(cap, q)) <= Len(q)
         /\ q # <<>> => /\ Newest(cap, q) # <<>>
                        /\ Top(Newest(cap, q)) = Top(q)
         /\ \A i \in 1 .. Len(Newest(cap, q)) :
              Newest(cap, q)[i] = q[Len(q) - Len(Newest(cap, q)) + i]
<1>1. CASE Len(q) <= cap
  <2>1. Newest(cap, q) = q /\ Len(q) \in Nat
    BY <1>1 DEF Newest
  <2>2. \A i \in 1 .. Len(q) : Len(q) - Len(q) + i = i
    BY <2>1
  <2> QED BY <1>1, <2>1, <2>2
<1>2. CASE Len(q) > cap
  <2> DEFINE a == Len(q) - cap + 1
  <2>1. a \in 1 .. Len(q) /\ Len(q) \in Nat /\ Len(q) - a + 1 = cap
    BY <1>2
  <2>2. \A i \in a .. Len(q) : q[i] \in S
    BY <2>1, ElementOfSeq
  <2> HIDE DEF a
  <2>3. /\ SubSeq(q, a, Len(q)) \in Seq(S)
        /\ Len(SubSeq(q, a, Len(q))) = cap
        /\ \A i \in 1 .. cap : SubSeq(q, a, Len(q))[i] = q[a + i - 1]
    BY <2>1, <2>2, SubSeqProperties
  <2>4. Newest(cap, q) = SubSeq(q, a, Len(q))
    BY <1>2 DEF Newest, a
  <2>5. \A i \in 1 .. cap : a + i - 1 = Len(q) - cap + i
    BY <2>1
  <2>6. a + cap - 1 = Len(q)
    BY <2>1
  <2>7. Top(Newest(cap, q)) = Top(q)
    BY <2>3, <2>4, <2>6 DEF Top
  <2>8. Newest(cap, q) # <<>>
    <3>1. Len(Newest(cap, q)) # 0
      BY <2>3, <2>4
    <3>2. Len(<<>>) = 0
      OBVIOUS
    <3> QED BY <3>1, <3>2
  <2>9. Len(Newest(cap, q)) = cap /\ Newest(cap, q) \in Seq(S) /\ cap <= Len(q)
    BY <1>2, <2>1, <2>3, <2>4
  <2>10. \A i \in 1 .. cap : Newest(cap, q)[i] = q[Len(q) - cap + i]
    BY <2>3, <2>4, <2>5
  <2> QED BY <2>7, <2>8, <2>9, <2>10
<1> QED BY <1>1, <1>2

LEMMA PoppedFront ==
  ASSUME NEW S, NEW q \in Seq(S), NEW n \in 0 .. Len(q)
  PROVE  /\ Popped(q, n) \in Seq(S) /\ Len(Popped(q, n)) = Len(q) - n
         /\ \A i \in 1 .. Len(q) - n : Popped(q, n)[i] = q[i]
<1>1. Len(q) \in Nat /\ Len(q) - n \in Nat
  OBVIOUS
<1>2. \A i \in 1 .. Len(q) - n : q[i] \in S
  BY <1>1
<1>3. /\ SubSeq(q, 1, Len(q) - n) \in Seq(S)
      /\ Len(SubSeq(q, 1, Len(q) - n)) = Len(q) - n
      /\ \A i \in 1 .. Len(q) - n : SubSeq(q, 1, Len(q) - n)[i] = q[i]
  BY <1>1, <1>2, SubSeqProperties
<1> QED BY <1>3 DEF Popped

-------------------------------------------------------------------------------
(* Machines, memory and snapshots. *)

LEMMA TraceSteps ==
  ASSUME NEW m \in Machine, NEW n \in Nat
  PROVE  /\ Trace(m, n) \in [0 .. n -> Machine]
         /\ Trace(m, n)[0] = m
         /\ \A i \in 1 .. n : Trace(m, n)[i] = Program[Trace(m, n)[i - 1]]
<1> DEFINE t[i \in 0 .. n] == IF i = 0 THEN m ELSE Program[t[i - 1]]
           F == [i \in 1 .. n |-> Program]
<1>1. PICK f : IsPath(f, Machine, n, m, F)
  <2>1. F \in [1 .. n -> [Machine -> Machine]]
    BY RewindAssumption
  <2> HIDE DEF F, t
  <2> QED BY <2>1, Iteration
<1>2. f = [i \in 0 .. n |-> IF i = 0 THEN m ELSE Program[f[i - 1]]]
  <2>1. \A i \in 1 .. n : f[i] = Program[f[i - 1]]
    BY <1>1 DEF IsPath
  <2> HIDE DEF t, F
  <2> QED BY <1>1, <2>1 DEF IsPath
<1>3. t = [i \in 0 .. n |-> IF i = 0 THEN m ELSE Program[t[i - 1]]]
  BY <1>2
<1>4. Trace(m, n) = t
  BY DEF Trace
<1> HIDE DEF t
<1> DEFINE T == {i \in 0 .. n : t[i] \in Machine}
<1>5. T = 0 .. n
  <2>1. T \in SUBSET (0 .. n) /\ 0 \in T
    BY <1>3
  <2>2. ASSUME NEW i \in 1 .. n, i - 1 \in T PROVE i \in T
    BY <1>3, <2>2, RewindAssumption
  <2> HIDE DEF T
  <2> QED BY <2>1, <2>2, Climb
<1>6. \A i \in 0 .. n : t[i] \in Machine
  BY <1>5
<1> QED BY <1>3, <1>4, <1>6

LEMMA PageSet ==
  ASSUME NEW P \in SUBSET Pages, NEW f \in [P -> Bytes]
  PROVE  f \in PageSets
BY DEF PageSets

LEMMA PageSetFields ==
  ASSUME NEW f \in PageSets
  PROVE  DOMAIN f \in SUBSET Pages /\ f \in [DOMAIN f -> Bytes]
BY DEF PageSets

LEMMA NoPagesOK == NoPages \in PageSets /\ DOMAIN NoPages = {}
BY DEF NoPages, PageSets

LEMMA TouchedPages ==
  ASSUME NEW sh \in PageSets, NEW old \in Machine, NEW new \in Machine
  PROVE  LET pages == Touched(sh, old, new) IN
         /\ pages \in PageSets
         /\ DOMAIN sh \subseteq DOMAIN pages
         /\ \A p \in DOMAIN pages :
              pages[p] = IF p \in DOMAIN sh THEN sh[p] ELSE old.mem[p]
         /\ \A p \in Pages \ DOMAIN pages : old.mem[p] = new.mem[p]
<1> DEFINE fresh == {p \in Pages \ DOMAIN sh : old.mem[p] # new.mem[p]}
           pages == Touched(sh, old, new)
<1>1. pages = [p \in DOMAIN sh \cup fresh |->
                 IF p \in DOMAIN sh THEN sh[p] ELSE old.mem[p]]
  BY DEF Touched
<1>2. DOMAIN sh \in SUBSET Pages /\ \A p \in DOMAIN sh : sh[p] \in Bytes
  BY PageSetFields
<1>3. old.mem \in [Pages -> Bytes]
  BY DEF Machine
<1>4. pages \in [DOMAIN sh \cup fresh -> Bytes]
  BY <1>1, <1>2, <1>3
<1>5. pages \in PageSets
  <2>1. DOMAIN sh \cup fresh \in SUBSET Pages
    BY <1>2
  <2> HIDE DEF pages, fresh
  <2> QED BY <1>4, <2>1, PageSet
<1> HIDE DEF pages
<1> QED BY <1>1, <1>5 DEF pages

LEMMA SnapshotFields ==
  ASSUME NEW m \in Machine, NEW pages \in PageSets
  PROVE  /\ SnapshotOf(m, pages) \in Snapshot
         /\ SnapshotOf(m, pages).regs = m.regs
         /\ SnapshotOf(m, pages).keys = m.keys
         /\ SnapshotOf(m, pages).pages = pages
         /\ SnapshotOf(m, pages).before = m
         /\ SnapshotOf(m, pages).edited = {}
BY DEF SnapshotOf, Snapshot, Machine

LEMMA RestoredFields ==
  ASSUME NEW m \in Machine, NEW s \in Snapshot
  PROVE  /\ Restored(m, s) \in Machine
         /\ Restored(m, s).regs = s.regs /\ Restored(m, s).keys = s.keys
         /\ Restored(m, s).hidden = m.hidden
         /\ \A p \in Pages :
              Restored(m, s).mem[p] = IF p \in DOMAIN s.pages THEN s.pages[p]
                                                              ELSE m.mem[p]
<1> DEFINE mem == [p \in Pages |-> IF p \in DOMAIN s.pages THEN s.pages[p]
                                                           ELSE m.mem[p]]
<1>1. s.pages \in PageSets
  BY DEF Snapshot
<1>2. \A p \in DOMAIN s.pages : s.pages[p] \in Bytes
  BY <1>1, PageSetFields
<1>3. mem \in [Pages -> Bytes]
  BY <1>2 DEF Machine
<1>4. Restored(m, s) = [m EXCEPT !.regs = s.regs, !.keys = s.keys, !.mem = mem]
  BY DEF Restored
<1>5. \A p \in Pages : mem[p] = IF p \in DOMAIN s.pages THEN s.pages[p] ELSE m.mem[p]
  OBVIOUS
<1> HIDE DEF mem
<1> QED BY <1>3, <1>4, <1>5 DEF Machine, Snapshot

-------------------------------------------------------------------------------
(* Rings of snapshots that can be undone one after the other. *)

(* A snapshot records the machine it was taken of. *)
Faithful(s) ==
  /\ s.regs = s.before.regs /\ s.keys = s.before.keys
  /\ \A p \in DOMAIN s.pages : s.pages[p] = s.before.mem[p]

(* The pages in which m differs from that machine are in the snapshot, or  *)
(* were edited since.                                                      *)
Covers(s, m) ==
  \A p \in Pages \ (DOMAIN s.pages \cup s.edited) : m.mem[p] = s.before.mem[p]

(* The first n snapshots of q lead from m back to the oldest machine.      *)
Chain(q, n, m) ==
  /\ \A i \in 1 .. n : Faithful(q[i])
  /\ \A i \in 1 .. n - 1 : /\ Covers(q[i], q[i + 1].before)
                           /\ q[i + 1].edited \subseteq q[i].edited
  /\ n > 0 => Covers(q[n], m)

(* Undoing the last one gives back its machine, but for edits, and leaves  *)
(* a chain.                                                                *)
LEMMA UndoOne ==
  ASSUME NEW q \in Seq(Snapshot), NEW n \in 1 .. Len(q), NEW m \in Machine,
         Chain(q, n, m)
  PROVE  /\ Chain(q, n - 1, Restored(m, q[n]))
         /\ m.hidden = q[n].before.hidden => Undone(Restored(m, q[n]), q[n])
<1> DEFINE r == Restored(m, q[n])
<1>1. q[n] \in Snapshot
  BY ElementOfSeq
<1>2. /\ r.regs = q[n].regs /\ r.keys = q[n].keys /\ r.hidden = m.hidden
      /\ \A p \in Pages : r.mem[p] = IF p \in DOMAIN q[n].pages THEN q[n].pages[p]
                                                                ELSE m.mem[p]
  BY <1>1, RestoredFields
<1>3. \A p \in Pages \ q[n].edited : r.mem[p] = q[n].before.mem[p]
  <2> HIDE DEF r
  <2>1. Faithful(q[n]) /\ Covers(q[n], m)
    BY DEF Chain
  <2> QED BY <1>2, <2>1 DEF Faithful, Covers
<1>4. m.hidden = q[n].before.hidden => Undone(r, q[n])
  BY <1>2, <1>3 DEF Chain, Faithful, Undone
<1>5. ASSUME n - 1 > 0 PROVE Covers(q[n - 1], r)
  <2>1. n - 1 \in 1 .. n - 1 /\ n - 1 + 1 = n
    BY <1>5
  <2>2. Covers(q[n - 1], q[n].before) /\ q[n].edited \subseteq q[n - 1].edited
    BY <2>1 DEF Chain
  <2> HIDE DEF r
  <2>3. ASSUME NEW p \in Pages \ (DOMAIN q[n - 1].pages \cup q[n - 1].edited)
        PROVE  r.mem[p] = q[n - 1].before.mem[p]
    <3>1. p \in Pages \ q[n].edited
      BY <2>2
    <3>2. q[n].before.mem[p] = q[n - 1].before.mem[p]
      BY <2>2 DEF Covers
    <3> QED BY <1>3, <3>1, <3>2
  <2> QED BY <2>3 DEF Covers
<1> HIDE DEF r
<1>6. Chain(q, n - 1, r)
  BY <1>5 DEF Chain
<1> QED BY <1>4, <1>6 DEF r

(* The states of n pops in a row. *)
LEMMA UnwoundSteps ==
  ASSUME NEW q \in Seq(Snapshot), NEW n \in 0 .. Len(q), NEW m \in Machine
  PROVE  LET u == Unwound(m, q, n) IN
         /\ u[0] = m
         /\ \A i \in 1 .. n : u[i] = Restored(u[i - 1], q[Len(q) - i + 1])
         /\ \A i \in 0 .. n : u[i] \in Machine /\ u[i].hidden = m.hidden
<1> DEFINE u[i \in 0 .. n] ==
             IF i = 0 THEN m ELSE Restored(u[i - 1], q[Len(q) - i + 1])
           F == [i \in 1 .. n |->
                   [x \in Machine |-> Restored(x, q[Len(q) - i + 1])]]
<1>1. ASSUME NEW i \in 1 .. n
      PROVE  q[Len(q) - i + 1] \in Snapshot
  <2>1. Len(q) - i + 1 \in 1 .. Len(q)
    OBVIOUS
  <2> QED BY <2>1, ElementOfSeq
<1>2. PICK f : IsPath(f, Machine, n, m, F)
  <2>1. \A i \in 1 .. n, x \in Machine : Restored(x, q[Len(q) - i + 1]) \in Machine
    BY <1>1, RestoredFields
  <2>2. F \in [1 .. n -> [Machine -> Machine]]
    BY <2>1
  <2>3. n \in Nat
    OBVIOUS
  <2> HIDE DEF F, u
  <2> QED BY <2>2, <2>3, Iteration
<1>3. f = [i \in 0 .. n |-> IF i = 0 THEN m ELSE Restored(f[i - 1], q[Len(q) - i + 1])]
  <2>1. ASSUME NEW i \in 0 .. n, i # 0
        PROVE  f[i] = Restored(f[i - 1], q[Len(q) - i + 1])
    <3>1. i \in 1 .. n /\ f[i - 1] \in Machine
      BY <1>2, <2>1 DEF IsPath
    <3> HIDE DEF u
    <3> QED BY <1>2, <3>1 DEF IsPath
  <2> HIDE DEF u, F
  <2> QED BY <1>2, <2>1 DEF IsPath
<1>4. u = [i \in 0 .. n |-> IF i = 0 THEN m ELSE Restored(u[i - 1], q[Len(q) - i + 1])]
  BY <1>3
<1>5. Unwound(m, q, n) = u
  BY DEF Unwound
<1> HIDE DEF u
<1>6. u[0] = m /\ \A i \in 1 .. n : u[i] = Restored(u[i - 1], q[Len(q) - i + 1])
  BY <1>4
<1> DEFINE T == {i \in 0 .. n : u[i] \in Machine /\ u[i].hidden = m.hidden}
<1>7. T \in SUBSET (0 .. n) /\ 0 \in T /\ n \in Nat
  BY <1>6
<1>8. ASSUME NEW i \in 1 .. n, i - 1 \in T PROVE i \in T
  <2>1. u[i - 1] \in Machine /\ u[i - 1].hidden = m.hidden
    BY <1>8
  <2>2. q[Len(q) - i + 1] \in Snapshot /\ u[i] = Restored(u[i - 1], q[Len(q) - i + 1])
    BY <1>1, <1>6
  <2>3. u[i] \in Machine /\ u[i].hidden = u[i - 1].hidden
    BY <2>1, <2>2, RestoredFields
  <2> QED BY <2>1, <2>3
<1>9. T = 0 .. n
  <2> HIDE DEF T
  <2> QED BY <1>7, <1>8, Climb
<1>10. \A i \in 0 .. n : u[i] \in Machine /\ u[i].hidden = m.hidden
  BY <1>9
<1> QED BY <1>5, <1>6, <1>10

(* Undoing n in a row undoes the last of the n, and leaves a chain.        *)
LEMMA UndoMany ==
  ASSUME NEW q \in Seq(Snapshot), NEW n \in 0 .. Len(q), NEW m \in Machine,
         Chain(q, Len(q), m)
  PROVE  LET u == Unwound(m, q, n) IN
         /\ Chain(q, Len(q) - n, u[n])
         /\ n > 0 /\ (\A i \in 1 .. Len(q) : q[i].before.hidden = m.hidden)
              => Undone(u[n], q[Len(q) - n + 1])
<1> DEFINE u == Unwound(m, q, n)
<1>1. /\ u[0] = m
      /\ \A i \in 1 .. n : u[i] = Restored(u[i - 1], q[Len(q) - i + 1])
      /\ \A i \in 0 .. n : u[i] \in Machine /\ u[i].hidden = m.hidden
  BY UnwoundSteps
<1> HIDE DEF u
<1> DEFINE T == {i \in 0 .. n : Chain(q, Len(q) - i, u[i])}
<1>2. ASSUME NEW i \in 1 .. n, i - 1 \in T
      PROVE  /\ i \in T
             /\ (\A j \in 1 .. Len(q) : q[j].before.hidden = m.hidden)
                  => Undone(u[i], q[Len(q) - i + 1])
  <2> DEFINE k == Len(q) - i + 1
  <2>1. k \in 1 .. Len(q) /\ Len(q) - (i - 1) = k /\ k - 1 = Len(q) - i
    OBVIOUS
  <2>2. i - 1 \in 0 .. n /\ u[i] = Restored(u[i - 1], q[k])
    BY <1>1
  <2>3. u[i - 1] \in Machine /\ u[i - 1].hidden = m.hidden /\ Chain(q, k, u[i - 1])
    BY <1>1, <1>2, <2>1, <2>2
  <2> HIDE DEF k
  <2>4. /\ Chain(q, k - 1, u[i])
        /\ u[i - 1].hidden = q[k].before.hidden => Undone(u[i], q[k])
    BY <2>1, <2>2, <2>3, UndoOne
  <2> QED BY <2>1, <2>3, <2>4 DEF k
<1>3. 0 \in T /\ T \in SUBSET (0 .. n) /\ n \in Nat
  BY <1>1
<1>4. T = 0 .. n
  <2> HIDE DEF T
  <2> QED BY <1>2, <1>3, Climb
<1>5. n \in T
  <2> HIDE DEF T
  <2> QED BY <1>4
<1>6. ASSUME n > 0 PROVE n \in 1 .. n /\ n - 1 \in T
  <2>1. n \in 1 .. n /\ n - 1 \in 0 .. n
    BY <1>6
  <2> HIDE DEF T
  <2> QED BY <1>4, <2>1
<1> QED BY <1>2, <1>5, <1>6 DEF u

(* What a ring keeps of a chain is a chain.                                *)
LEMMA ChainNewest ==
  ASSUME NEW a \in Seq(Snapshot), NEW m, NEW cap \in Nat \ {0},
         Chain(a, Len(a), m)
  PROVE  LET r == Newest(cap, a) IN Chain(r, Len(r), m)
<1> DEFINE r == Newest(cap, a)
<1>1. /\ r \in Seq(Snapshot) /\ Len(r) <= Len(a)
      /\ a # <<>> => r # <<>> /\ Top(r) = Top(a)
      /\ \A i \in 1 .. Len(r) : r[i] = a[Len(a) - Len(r) + i]
  BY NewestEnd
<1> HIDE DEF r
<1>2. Len(r) \in Nat /\ Len(a) \in Nat
  BY <1>1
<1>3. \A i \in 1 .. Len(r) : Len(a) - Len(r) + i \in 1 .. Len(a)
  BY <1>1, <1>2
<1>4. \A i \in 1 .. Len(r) : Faithful(r[i])
  BY <1>1, <1>3 DEF Chain
<1>5. ASSUME NEW i \in 1 .. Len(r) - 1
      PROVE  Covers(r[i], r[i + 1].before) /\ r[i + 1].edited \subseteq r[i].edited
  <2> DEFINE k == Len(a) - Len(r) + i
  <2>1. /\ k \in 1 .. Len(a) - 1 /\ k + 1 = Len(a) - Len(r) + (i + 1)
        /\ i \in 1 .. Len(r) /\ i + 1 \in 1 .. Len(r)
    <3>1. Len(r) <= Len(a) /\ i \in Nat /\ 1 <= i /\ i <= Len(r) - 1
      BY <1>1, <1>2
    <3> QED BY <1>2, <3>1
  <2>2. r[i] = a[k] /\ r[i + 1] = a[k + 1]
    BY <1>1, <2>1
  <2> HIDE DEF k
  <2> QED BY <2>1, <2>2 DEF Chain
<1>6. ASSUME Len(r) > 0 PROVE Covers(r[Len(r)], m)
  <2>1. Len(a) > 0 /\ a # <<>>
    BY <1>1, <1>2, <1>6
  <2> QED BY <1>1, <2>1 DEF Chain, Top
<1>7. Chain(r, Len(r), m)
  BY <1>4, <1>5, <1>6 DEF Chain
<1> QED BY <1>7 DEF r

(* A new snapshot goes to the end of a chain.                              *)
LEMMA ChainPush ==
  ASSUME NEW q \in Seq(Snapshot), NEW m \in Machine, NEW new \in Machine,
         NEW s \in Snapshot, NEW cap \in Nat \ {0},
         Chain(q, Len(q), m),
         Faithful(s), s.before = m, s.edited = {}, Covers(s, new)
  PROVE  LET r == Newest(cap, Append(q, s)) IN Chain(r, Len(r), new)
<1> DEFINE a == Append(q, s)
<1>1. /\ a \in Seq(Snapshot) /\ Len(a) = Len(q) + 1
      /\ \A i \in 1 .. Len(q) : a[i] = q[i]
      /\ a[Len(q) + 1] = s
  BY AppendProperties
<1>2. Len(q) \in Nat
  OBVIOUS
<1> HIDE DEF a
<1>3. \A i \in 1 .. Len(a) : Faithful(a[i])
  BY <1>1, <1>2 DEF Chain
<1>4. ASSUME NEW i \in 1 .. Len(a) - 1
      PROVE  Covers(a[i], a[i + 1].before) /\ a[i + 1].edited \subseteq a[i].edited
  <2>1. CASE i = Len(q)
    <3>1. a[i] = q[i] /\ a[i + 1] = s /\ Covers(q[i], m)
      BY <1>1, <1>2, <2>1 DEF Chain
    <3> QED BY <3>1
  <2>2. CASE i # Len(q)
    <3>1. i \in 1 .. Len(q) - 1 /\ a[i] = q[i] /\ a[i + 1] = q[i + 1]
      BY <1>1, <1>2, <2>2
    <3> QED BY <3>1 DEF Chain
  <2> QED BY <2>1, <2>2
<1>5. Chain(a, Len(a), new)
  BY <1>1, <1>3, <1>4 DEF Chain
<1>6. Chain(Newest(cap, a), Len(Newest(cap, a)), new)
  BY <1>1, <1>5, ChainNewest
<1> QED BY <1>6 DEF a

(* The ring after a push, entry by entry: those of before, then the new.   *)
LEMMA PushedRing ==
  ASSUME NEW q \in Seq(Snapshot), NEW s \in Snapshot, NEW cap \in Nat \ {0}
  PROVE  LET r == Newest(cap, Append(q, s)) IN
         /\ r \in Seq(Snapshot) /\ Len(r) <= cap
         /\ Len(r) \in 1 .. Len(q) + 1 /\ r[Len(r)] = s
         /\ \A i \in 1 .. Len(r) - 1 : r[i] = q[Len(q) + 1 - Len(r) + i]
<1> DEFINE a == Append(q, s)
           r == Newest(cap, a)
<1>1. /\ a \in Seq(Snapshot) /\ Len(a) = Len(q) + 1 /\ a # <<>>
      /\ \A i \in 1 .. Len(q) : a[i] = q[i]
      /\ a[Len(q) + 1] = s
  BY AppendProperties
<1> HIDE DEF a
<1>2. /\ r \in Seq(Snapshot) /\ Len(r) <= cap /\ Len(r) <= Len(a)
      /\ r # <<>> /\ Top(r) = Top(a)
      /\ \A i \in 1 .. Len(r) : r[i] = a[Len(a) - Len(r) + i]
  BY <1>1, NewestEnd
<1> HIDE DEF r
<1>3. Len(q) \in Nat /\ Len(r) \in Nat \ {0}
  BY <1>2
<1>4. r[Len(r)] = s
  BY <1>1, <1>2 DEF Top
<1>5. ASSUME NEW i \in 1 .. Len(r) - 1
      PROVE  r[i] = q[Len(q) + 1 - Len(r) + i]
  <2>1. Len(r) <= Len(q) + 1 /\ i \in Nat /\ 1 <= i /\ i <= Len(r) - 1
    BY <1>1, <1>2, <1>3
  <2>2. i \in 1 .. Len(r) /\ Len(q) + 1 - Len(r) + i \in 1 .. Len(q)
    BY <1>3, <2>1
  <2>3. r[i] = a[Len(q) + 1 - Len(r) + i]
    BY <1>1, <1>2, <2>2
  <2> QED BY <1>1, <2>2, <2>3
<1> QED BY <1>1, <1>2, <1>3, <1>4, <1>5 DEF a, r

LEMMA ChainPopped ==
  ASSUME NEW q \in Seq(Snapshot), NEW n \in 0 .. Len(q), NEW m \in Machine,
         Chain(q, Len(q) - n, m)
  PROVE  Chain(Popped(q, n), Len(Popped(q, n)), m)
<1> DEFINE r == Popped(q, n)
<1>1. Len(r) = Len(q) - n /\ Len(r) \in Nat /\ \A i \in 1 .. Len(r) : r[i] = q[i]
  BY PoppedFront
<1> HIDE DEF r
<1> DEFINE k == Len(q) - n
<1>2. /\ k \in Nat /\ Len(r) = k /\ \A i \in 1 .. k : r[i] = q[i]
      /\ \A i \in 1 .. k - 1 : i \in 1 .. k /\ i + 1 \in 1 .. k
      /\ k > 0 => k \in 1 .. k
  BY <1>1
<1>3. Chain(q, k, m)
  OBVIOUS
<1> HIDE DEF k
<1>4. Chain(r, k, m)
  BY <1>2, <1>3 DEF Chain
<1>5. Chain(r, Len(r), m)
  BY <1>2, <1>4
<1> QED BY <1>5 DEF r

(* Edits are remembered by every snapshot of the ring.                     *)
LEMMA EditedFields ==
  ASSUME NEW q \in Seq(Snapshot), NEW p \in Pages
  PROVE  LET r == Edited(q, p) IN
         /\ r \in Seq(Snapshot) /\ Len(r) = Len(q)
         /\ \A i \in 1 .. Len(q) :
              /\ r[i].edited = q[i].edited \cup {p}
              /\ r[i].before = q[i].before /\ r[i].pages = q[i].pages
              /\ r[i].regs = q[i].regs /\ r[i].keys = q[i].keys
<1> DEFINE r == Edited(q, p)
<1>1. Len(q) \in Nat /\ DOMAIN q = 1 .. Len(q) /\ \A i \in 1 .. Len(q) : q[i] \in Snapshot
  BY ElementOfSeq
<1>2. r = [i \in 1 .. Len(q) |-> [q[i] EXCEPT !.edited = @ \cup {p}]]
  BY <1>1 DEF Edited
<1>3. ASSUME NEW i \in 1 .. Len(q)
      PROVE  /\ r[i] \in Snapshot
             /\ r[i].edited = q[i].edited \cup {p}
             /\ r[i].before = q[i].before /\ r[i].pages = q[i].pages
             /\ r[i].regs = q[i].regs /\ r[i].keys = q[i].keys
  BY <1>1, <1>2 DEF Snapshot
<1>4. r \in Seq(Snapshot) /\ Len(r) = Len(q)
  <2>1. r \in [1 .. Len(q) -> Snapshot]
    BY <1>2, <1>3
  <2> HIDE DEF r
  <2> QED BY <1>1, <2>1
<1> HIDE DEF r
<1> QED BY <1>3, <1>4 DEF r

LEMMA ChainEdited ==
  ASSUME NEW q \in Seq(Snapshot), NEW m \in Machine, NEW p \in Pages, NEW new,
         Chain(q, Len(q), m),
         \A x \in Pages \ {p} : new.mem[x] = m.mem[x]
  PROVE  Chain(Edited(q, p), Len(Edited(q, p)), new)
<1> DEFINE r == Edited(q, p)
<1>1. /\ Len(q) \in Nat /\ Len(r) = Len(q)
      /\ \A i \in 1 .. Len(q) :
           /\ r[i].edited = q[i].edited \cup {p}
           /\ r[i].before = q[i].before /\ r[i].pages = q[i].pages
           /\ r[i].regs = q[i].regs /\ r[i].keys = q[i].keys
  BY EditedFields
<1> HIDE DEF r
<1>2. \A i \in 1 .. Len(q) : Faithful(r[i])
  BY <1>1 DEF Chain, Faithful
<1>3. ASSUME NEW i \in 1 .. Len(q) - 1
      PROVE  Covers(r[i], r[i + 1].before) /\ r[i + 1].edited \subseteq r[i].edited
  <2>1. i \in 1 .. Len(q) /\ i + 1 \in 1 .. Len(q)
    BY <1>1
  <2>2. Covers(q[i], q[i + 1].before) /\ q[i + 1].edited \subseteq q[i].edited
    BY DEF Chain
  <2> QED BY <1>1, <2>1, <2>2 DEF Covers
<1>4. ASSUME Len(q) > 0 PROVE Covers(r[Len(q)], new)
  <2>1. Len(q) \in 1 .. Len(q) /\ Covers(q[Len(q)], m)
    BY <1>1, <1>4 DEF Chain
  <2> QED BY <1>1, <2>1 DEF Covers
<1>5. Chain(r, Len(r), new)
  BY <1>1, <1>2, <1>3, <1>4 DEF Chain
<1> QED BY <1>5 DEF r

(* Only memory counts.                                                     *)
LEMMA ChainSameMemory ==
  ASSUME NEW q, NEW n, NEW m, NEW new, Chain(q, n, m), new.mem = m.mem
  PROVE  Chain(q, n, new)
BY DEF Chain, Covers

(* A snapshot of a machine with the pages a step touched covers the step.  *)
LEMMA StepCovered ==
  ASSUME NEW m \in Machine, NEW new \in Machine, NEW pages \in PageSets,
         \A p \in DOMAIN pages : pages[p] = m.mem[p],
         \A p \in Pages \ DOMAIN pages : new.mem[p] = m.mem[p]
  PROVE  Faithful(SnapshotOf(m, pages)) /\ Covers(SnapshotOf(m, pages), new)
<1>1. /\ SnapshotOf(m, pages).regs = m.regs
      /\ SnapshotOf(m, pages).keys = m.keys
      /\ SnapshotOf(m, pages).pages = pages
      /\ SnapshotOf(m, pages).before = m
      /\ SnapshotOf(m, pages).edited = {}
  BY SnapshotFields
<1> QED BY <1>1 DEF Faithful, Covers

LEMMA OneStepCovered ==
  ASSUME NEW m \in Machine, NEW new \in Machine
  PROVE  LET s == SnapshotOf(m, Touched(NoPages, m, new)) IN
         /\ s \in Snapshot /\ s.before = m /\ s.edited = {}
         /\ Faithful(s) /\ Covers(s, new)
<1> DEFINE pages == Touched(NoPages, m, new)
<1>1. /\ pages \in PageSets
      /\ \A p \in DOMAIN pages : pages[p] = m.mem[p]
      /\ \A p \in Pages \ DOMAIN pages : new.mem[p] = m.mem[p]
  BY NoPagesOK, TouchedPages
<1> HIDE DEF pages
<1>2. /\ SnapshotOf(m, pages) \in Snapshot
      /\ SnapshotOf(m, pages).before = m /\ SnapshotOf(m, pages).edited = {}
  BY <1>1, SnapshotFields
<1>3. Faithful(SnapshotOf(m, pages)) /\ Covers(SnapshotOf(m, pages), new)
  BY <1>1, StepCovered
<1> QED BY <1>2, <1>3 DEF pages

(* The pages a sweep of n instructions touches are those in which the last *)
(* machine may differ from the first, with the contents of the first.      *)
LEMMA SweepCovered ==
  ASSUME NEW m \in Machine, NEW n \in Nat
  PROVE  LET t == Trace(m, n)
             touched[i \in 0 .. n] ==
               IF i = 0 THEN NoPages ELSE Touched(touched[i - 1], t[i - 1], t[i])
             s == SnapshotOf(m, touched[n])
         IN  /\ s \in Snapshot /\ s.before = m /\ s.edited = {}
             /\ Faithful(s) /\ Covers(s, t[n])
<1> DEFINE t == Trace(m, n)
<1>1. /\ t \in [0 .. n -> Machine] /\ t[0] = m
  BY TraceSteps
<1> HIDE DEF t
<1> DEFINE touched[i \in 0 .. n] ==
             IF i = 0 THEN NoPages ELSE Touched(touched[i - 1], t[i - 1], t[i])
           F == [i \in 1 .. n |-> [sh \in PageSets |-> Touched(sh, t[i - 1], t[i])]]
<1>2. PICK f : IsPath(f, PageSets, n, NoPages, F)
  <2>1. \A i \in 1 .. n : t[i - 1] \in Machine /\ t[i] \in Machine
    BY <1>1
  <2>2. \A i \in 1 .. n, sh \in PageSets : Touched(sh, t[i - 1], t[i]) \in PageSets
    BY <2>1, TouchedPages
  <2>3. F \in [1 .. n -> [PageSets -> PageSets]]
    BY <2>2
  <2> HIDE DEF F, touched
  <2> QED BY <2>3, NoPagesOK, Iteration
<1>3. f = [i \in 0 .. n |-> IF i = 0 THEN NoPages ELSE Touched(f[i - 1], t[i - 1], t[i])]
  <2>1. ASSUME NEW i \in 0 .. n, i # 0
        PROVE  f[i] = Touched(f[i - 1], t[i - 1], t[i])
    <3>1. i \in 1 .. n /\ f[i - 1] \in PageSets
      BY <1>2, <2>1 DEF IsPath
    <3> HIDE DEF touched
    <3> QED BY <1>2, <3>1 DEF IsPath
  <2> HIDE DEF touched, F
  <2> QED BY <1>2, <2>1 DEF IsPath
<1>4. touched = [i \in 0 .. n |->
                   IF i = 0 THEN NoPages ELSE Touched(touched[i - 1], t[i - 1], t[i])]
  BY <1>3
<1> HIDE DEF touched, F
<1> DEFINE Good(i) ==
             /\ touched[i] \in PageSets
             /\ \A p \in DOMAIN touched[i] : touched[i][p] = m.mem[p]
             /\ \A p \in Pages \ DOMAIN touched[i] : t[i].mem[p] = m.mem[p]
           T == {i \in 0 .. n : Good(i)}
<1>5. Good(0)
  BY <1>1, <1>4, NoPagesOK
<1>6. ASSUME NEW i \in 1 .. n, Good(i - 1) PROVE Good(i)
  <2>1. t[i - 1] \in Machine /\ t[i] \in Machine
    BY <1>1
  <2>2. touched[i] = Touched(touched[i - 1], t[i - 1], t[i])
    BY <1>4
  <2>3. /\ touched[i] \in PageSets
        /\ DOMAIN touched[i - 1] \subseteq DOMAIN touched[i]
        /\ \A p \in DOMAIN touched[i] :
             touched[i][p] = IF p \in DOMAIN touched[i - 1] THEN touched[i - 1][p]
                                                            ELSE t[i - 1].mem[p]
        /\ \A p \in Pages \ DOMAIN touched[i] : t[i - 1].mem[p] = t[i].mem[p]
    <3>1. touched[i - 1] \in PageSets
      BY <1>6
    <3> DEFINE pages == Touched(touched[i - 1], t[i - 1], t[i])
    <3>2. /\ pages \in PageSets
          /\ DOMAIN touched[i - 1] \subseteq DOMAIN pages
          /\ \A p \in DOMAIN pages :
               pages[p] = IF p \in DOMAIN touched[i - 1] THEN touched[i - 1][p]
                                                        ELSE t[i - 1].mem[p]
          /\ \A p \in Pages \ DOMAIN pages : t[i - 1].mem[p] = t[i].mem[p]
      BY <2>1, <3>1, TouchedPages
    <3>3. touched[i] = pages
      BY <2>2
    <3> HIDE DEF pages
    <3> QED BY <3>2, <3>3
  <2>4. DOMAIN touched[i] \subseteq Pages
    BY <2>3, PageSetFields
  <2> QED BY <1>6, <2>3, <2>4
<1>7. Good(n)
  <2>1. T \in SUBSET (0 .. n) /\ 0 \in T
    BY <1>5
  <2>2. ASSUME NEW i \in 1 .. n, i - 1 \in T PROVE i \in T
    BY <1>6, <2>2
  <2>3. T = 0 .. n
    <3> HIDE DEF T
    <3> QED BY <2>1, <2>2, Climb
  <2>4. n \in T
    <3> HIDE DEF T
    <3> QED BY <2>3
  <2> QED BY <2>4
<1>8. t[n] \in Machine
  BY <1>1
<1>9. LET s == SnapshotOf(m, touched[n]) IN
      /\ s \in Snapshot /\ s.before = m /\ s.edited = {}
      /\ Faithful(s) /\ Covers(s, t[n])
  BY <1>7, <1>8, StepCovered, SnapshotFields
<1> QED BY <1>9 DEF t, touched

-------------------------------------------------------------------------------
(* Keyframes. *)

(* Keyframes are at multiples of the interval, and behind each one that is *)
(* an interval back or more is the next.                                   *)
Placed(kfs, n) ==
  \A i \in 1 .. Len(kfs) :
    /\ kfs[i].step % Interval = 0
    /\ kfs[i].step + Interval <= n =>
         \E j \in i + 1 .. Len(kfs) : kfs[j].step = kfs[i].step + Interval

(* A keyframe is the whole machine. *)
Whole(kfs) ==
  \A i \in 1 .. Len(kfs) : kfs[i].snap = FullSnapshot(kfs[i].snap.before)

(* A keyframe that no later one shadows is of this timeline. *)
OfTimeline(kfs, n, states) ==
  \A i \in 1 .. Len(kfs) :
    kfs[i].step <= n /\ (\A j \in i + 1 .. Len(kfs) : kfs[j].step > kfs[i].step)
      => kfs[i].snap.before \in states[kfs[i].step]

HiddenIn(kfs) == \A i \in 1 .. Len(kfs) : kfs[i].snap.before.hidden = ResetHidden

LEMMA NextMultiple ==
  ASSUME NEW n \in Nat \ {0}, NEW a \in Nat, a % n = 0
  PROVE  (a + n) % n = 0
<1> DEFINE d == a \div n
<1>1. d \in Int /\ a % n = a - d * n
  OBVIOUS
<1>2. (a + n) \div n = d + 1
  OBVIOUS
<1>3. (a + n) % n = (a + n) - ((a + n) \div n) * n
  OBVIOUS
<1> HIDE DEF d
<1>4. (d + 1) * n = d * n + n
  BY <1>1
<1> QED BY <1>1, <1>2, <1>3, <1>4

LEMMA KeyframeFields ==
  ASSUME NEW k \in Keyframe
  PROVE  /\ k.step \in 0 .. MaxSteps /\ k.step \in Nat
         /\ k.snap \in Snapshot /\ k.snap.before \in Machine
BY RewindAssumption DEF Keyframe, Snapshot

(* All of it survives when the oldest are dropped.                         *)
LEMMA KeyframesDropped ==
  ASSUME NEW a \in Seq(Keyframe), NEW cap \in Nat \ {0}, NEW n, NEW states
  PROVE  LET r == Newest(cap, a) IN
         /\ Placed(a, n) => Placed(r, n)
         /\ Whole(a) => Whole(r)
         /\ OfTimeline(a, n, states) => OfTimeline(r, n, states)
         /\ HiddenIn(a) => HiddenIn(r)
<1> DEFINE r == Newest(cap, a)
           d == Len(a) - Len(r)
<1>1. /\ r \in Seq(Keyframe) /\ Len(r) <= Len(a)
      /\ \A i \in 1 .. Len(r) : r[i] = a[Len(a) - Len(r) + i]
  BY NewestEnd
<1>2. Len(a) \in Nat /\ Len(r) \in Nat
  BY <1>1
<1> HIDE DEF r
<1>3. /\ d \in Nat /\ Len(a) = d + Len(r)
      /\ \A i \in 1 .. Len(r) : r[i] = a[d + i] /\ d + i \in 1 .. Len(a)
  BY <1>1, <1>2
<1> HIDE DEF d
<1>4. \A i \in 1 .. Len(r) : \A j \in d + i + 1 .. Len(a) :
        j - d \in i + 1 .. Len(r) /\ j = d + (j - d) /\ r[j - d] = a[j]
  <2>1. ASSUME NEW i \in 1 .. Len(r), NEW j \in d + i + 1 .. Len(a)
        PROVE  j - d \in i + 1 .. Len(r) /\ j = d + (j - d) /\ j - d \in 1 .. Len(r)
    BY <1>2, <1>3
  <2> QED BY <1>3, <2>1
<1>5. \A i \in 1 .. Len(r) : \A j \in i + 1 .. Len(r) :
        d + j \in d + i + 1 .. Len(a) /\ r[j] = a[d + j]
  <2>1. ASSUME NEW i \in 1 .. Len(r), NEW j \in i + 1 .. Len(r)
        PROVE  d + j \in d + i + 1 .. Len(a) /\ j \in 1 .. Len(r)
    BY <1>2, <1>3
  <2> QED BY <1>3, <2>1
<1>6. ASSUME Placed(a, n) PROVE Placed(r, n)
  <2> SUFFICES ASSUME NEW i \in 1 .. Len(r)
               PROVE  /\ r[i].step % Interval = 0
                      /\ r[i].step + Interval <= n =>
                           \E j \in i + 1 .. Len(r) : r[j].step = r[i].step + Interval
    BY DEF Placed
  <2>1. r[i] = a[d + i] /\ d + i \in 1 .. Len(a)
    BY <1>3
  <2>2. ASSUME a[d + i].step + Interval <= n
        PROVE  \E j \in i + 1 .. Len(r) : r[j].step = r[i].step + Interval
    <3>1. PICK j \in d + i + 1 .. Len(a) : a[j].step = a[d + i].step + Interval
      BY <1>6, <2>1, <2>2 DEF Placed
    <3>2. j - d \in i + 1 .. Len(r) /\ r[j - d] = a[j]
      BY <1>4
    <3> QED BY <2>1, <3>1, <3>2
  <2> QED BY <1>6, <2>1, <2>2 DEF Placed
<1>7. ASSUME Whole(a) PROVE Whole(r)
  BY <1>3, <1>7 DEF Whole
<1>8. ASSUME OfTimeline(a, n, states) PROVE OfTimeline(r, n, states)
  <2> SUFFICES ASSUME NEW i \in 1 .. Len(r), r[i].step <= n,
                      \A j \in i + 1 .. Len(r) : r[j].step > r[i].step
               PROVE  r[i].snap.before \in states[r[i].step]
    BY DEF OfTimeline
  <2>1. r[i] = a[d + i] /\ d + i \in 1 .. Len(a)
    BY <1>3
  <2>2. \A j \in d + i + 1 .. Len(a) : a[j].step > a[d + i].step
    BY <1>4, <2>1
  <2> QED BY <1>8, <2>1, <2>2 DEF OfTimeline
<1>9. ASSUME HiddenIn(a) PROVE HiddenIn(r)
  BY <1>3, <1>9 DEF HiddenIn
<1> QED BY <1>6, <1>7, <1>8, <1>9 DEF r

(* One more keyframe, of the step just counted.                            *)
LEMMA KeyframeAdded ==
  ASSUME NEW a \in Seq(Keyframe), NEW n \in 1 .. MaxSteps, n % Interval = 0,
         NEW m \in Machine, NEW states, m \in states[n]
  PROVE  LET k == [step |-> n, snap |-> FullSnapshot(m)]
             r == Append(a, k) IN
         /\ k \in Keyframe
         /\ Placed(a, n - 1) => Placed(r, n)
         /\ Whole(a) => Whole(r)
         /\ OfTimeline(a, n - 1, states) => OfTimeline(r, n, states)
         /\ m.hidden = ResetHidden /\ HiddenIn(a) => HiddenIn(r)
<1> DEFINE k == [step |-> n, snap |-> FullSnapshot(m)]
           r == Append(a, k)
<1>1. k \in Keyframe /\ k.step = n /\ k.snap = FullSnapshot(m) /\ k.snap.before = m
  <2>1. m.mem \in PageSets
    <3>1. m.mem \in [Pages -> Bytes]
      BY DEF Machine
    <3> QED BY <3>1, PageSet
  <2>2. FullSnapshot(m) \in Snapshot /\ FullSnapshot(m).before = m
    BY <2>1, SnapshotFields DEF FullSnapshot
  <2>3. n \in 0 .. MaxSteps
    BY RewindAssumption
  <2> QED BY <2>2, <2>3 DEF Keyframe
<1> HIDE DEF k
<1>2. /\ r \in Seq(Keyframe) /\ Len(r) = Len(a) + 1 /\ Len(a) \in Nat
      /\ \A i \in 1 .. Len(a) : r[i] = a[i]
      /\ r[Len(a) + 1] = k
  BY <1>1, AppendProperties
<1>3. \A i \in 1 .. Len(a) : a[i].step \in Nat
  BY ElementOfSeq, KeyframeFields
<1>4. n \in Nat /\ Interval \in Nat \ {0}
  BY RewindAssumption
<1> HIDE DEF r
<1>5. ASSUME Placed(a, n - 1) PROVE Placed(r, n)
  <2> SUFFICES ASSUME NEW i \in 1 .. Len(r)
               PROVE  /\ r[i].step % Interval = 0
                      /\ r[i].step + Interval <= n =>
                           \E j \in i + 1 .. Len(r) : r[j].step = r[i].step + Interval
    BY DEF Placed
  <2>1. CASE i = Len(a) + 1
    BY <1>1, <1>2, <1>4, <2>1
  <2>2. CASE i # Len(a) + 1
    <3>1. i \in 1 .. Len(a) /\ r[i] = a[i] /\ a[i].step \in Nat
      BY <1>2, <1>3, <2>2
    <3>2. a[i].step % Interval = 0
      BY <1>5, <3>1 DEF Placed
    <3>3. ASSUME a[i].step + Interval <= n - 1
          PROVE  \E j \in i + 1 .. Len(r) : r[j].step = r[i].step + Interval
      <4>1. PICK j \in i + 1 .. Len(a) : a[j].step = a[i].step + Interval
        BY <1>5, <3>1, <3>3 DEF Placed
      <4>2. j \in 1 .. Len(a) /\ j \in i + 1 .. Len(r)
        BY <1>2, <3>1
      <4> QED BY <1>2, <3>1, <4>1, <4>2
    <3>4. ASSUME a[i].step + Interval = n
          PROVE  \E j \in i + 1 .. Len(r) : r[j].step = r[i].step + Interval
      <4>1. Len(r) \in i + 1 .. Len(r) /\ r[Len(r)] = k
        BY <1>2, <3>1
      <4> QED BY <1>1, <3>1, <3>4, <4>1
    <3>5. a[i].step + Interval <= n =>
            a[i].step + Interval <= n - 1 \/ a[i].step + Interval = n
      BY <1>4, <3>1
    <3> QED BY <3>1, <3>2, <3>3, <3>4, <3>5
  <2> QED BY <2>1, <2>2
<1>6. ASSUME Whole(a) PROVE Whole(r)
  BY <1>1, <1>2, <1>6 DEF Whole
<1>7. ASSUME OfTimeline(a, n - 1, states) PROVE OfTimeline(r, n, states)
  <2> SUFFICES ASSUME NEW i \in 1 .. Len(r), r[i].step <= n,
                      \A j \in i + 1 .. Len(r) : r[j].step > r[i].step
               PROVE  r[i].snap.before \in states[r[i].step]
    BY DEF OfTimeline
  <2>1. CASE i = Len(a) + 1
    BY <1>1, <1>2, <2>1
  <2>2. CASE i # Len(a) + 1
    <3>1. i \in 1 .. Len(a) /\ r[i] = a[i] /\ a[i].step \in Nat
      BY <1>2, <1>3, <2>2
    <3>2. Len(r) \in i + 1 .. Len(r) /\ r[Len(r)] = k
      BY <1>2, <3>1
    <3>3. a[i].step <= n - 1
      BY <1>1, <1>4, <3>1, <3>2
    <3>4. ASSUME NEW j \in i + 1 .. Len(a) PROVE a[j].step > a[i].step
      <4>1. j \in 1 .. Len(a) /\ j \in i + 1 .. Len(r)
        BY <1>2, <3>1
      <4> QED BY <1>2, <3>1, <4>1
    <3> QED BY <1>7, <3>1, <3>3, <3>4 DEF OfTimeline
  <2> QED BY <2>1, <2>2
<1>8. ASSUME m.hidden = ResetHidden, HiddenIn(a) PROVE HiddenIn(r)
  BY <1>1, <1>2, <1>8 DEF HiddenIn
<1> QED BY <1>1, <1>5, <1>6, <1>7, <1>8 DEF r, k

(* Between two multiples nothing is due.                                   *)
LEMMA NoKeyframeDue ==
  ASSUME NEW a \in Seq(Keyframe), NEW n \in 1 .. MaxSteps, n % Interval # 0,
         NEW states
  PROVE  /\ Placed(a, n - 1) => Placed(a, n)
         /\ Placed(a, n - 1) /\ OfTimeline(a, n - 1, states)
              => OfTimeline(a, n, states)
<1>1. n \in Nat /\ Interval \in Nat \ {0}
  BY RewindAssumption
<1>2. \A i \in 1 .. Len(a) : a[i].step \in Nat
  BY ElementOfSeq, KeyframeFields
<1>3. ASSUME Placed(a, n - 1), NEW i \in 1 .. Len(a)
      PROVE  a[i].step # n /\ a[i].step + Interval # n
  <2>1. a[i].step % Interval = 0 /\ a[i].step \in Nat
    BY <1>2, <1>3 DEF Placed
  <2>2. (a[i].step + Interval) % Interval = 0
    BY <1>1, <2>1, NextMultiple
  <2> QED BY <2>1, <2>2
<1>4. ASSUME Placed(a, n - 1) PROVE Placed(a, n)
  <2>1. ASSUME NEW i \in 1 .. Len(a), a[i].step + Interval <= n
        PROVE  a[i].step + Interval <= n - 1
    <3>1. a[i].step \in Nat /\ a[i].step + Interval # n
      BY <1>2, <1>3, <1>4
    <3> QED BY <1>1, <2>1, <3>1
  <2> QED BY <1>4, <2>1 DEF Placed
<1>5. ASSUME Placed(a, n - 1), OfTimeline(a, n - 1, states)
      PROVE  OfTimeline(a, n, states)
  <2>1. ASSUME NEW i \in 1 .. Len(a), a[i].step <= n PROVE a[i].step <= n - 1
    BY <1>1, <1>2, <1>3, <1>5, <2>1
  <2> QED BY <1>5, <2>1 DEF OfTimeline
<1> QED BY <1>4, <1>5

(* The seed: the machine before the first step.                            *)
LEMMA SeededKeyframes ==
  ASSUME machine \in Machine, steps \in 0 .. MaxSteps,
         NEW a \in Seq(Keyframe), NEW cap \in Nat \ {0}, Len(a) <= cap, NEW states
  PROVE  LET r == Seeded(a) IN
         /\ r \in Seq(Keyframe) /\ Len(r) <= cap
         /\ Placed(a, steps) => Placed(r, steps)
         /\ Whole(a) => Whole(r)
         /\ OfTimeline(a, steps, states) /\ (steps = 0 => machine \in states[0])
              => OfTimeline(r, steps, states)
         /\ machine.hidden = ResetHidden /\ HiddenIn(a) => HiddenIn(r)
<1>1. CASE ~(steps = 0 /\ a = <<>>)
  <2>1. Seeded(a) = a
    BY <1>1 DEF Seeded
  <2> QED BY <2>1
<1>2. CASE steps = 0 /\ a = <<>>
  <2> DEFINE k == [step |-> 0, snap |-> FullSnapshot(machine)]
  <2>1. Seeded(a) = <<k>>
    BY <1>2 DEF Seeded
  <2>2. k \in Keyframe /\ k.step = 0 /\ k.snap = FullSnapshot(machine)
        /\ k.snap.before = machine
    <3>1. machine.mem \in PageSets
      <4>1. machine.mem \in [Pages -> Bytes]
        BY DEF Machine
      <4> QED BY <4>1, PageSet
    <3>2. FullSnapshot(machine) \in Snapshot /\ FullSnapshot(machine).before = machine
      BY <3>1, SnapshotFields DEF FullSnapshot
    <3>3. 0 \in 0 .. MaxSteps
      BY RewindAssumption
    <3> QED BY <3>2, <3>3 DEF Keyframe
  <2> HIDE DEF k
  <2>3. <<k>> \in Seq(Keyframe) /\ Len(<<k>>) = 1 /\ <<k>>[1] = k
    BY <2>2
  <2>4. Interval \in Nat \ {0} /\ 0 % Interval = 0
    BY RewindAssumption
  <2>5. Placed(<<k>>, steps)
    BY <1>2, <2>2, <2>3, <2>4 DEF Placed
  <2>6. Whole(<<k>>)
    BY <2>2, <2>3 DEF Whole
  <2>7. machine \in states[0] => OfTimeline(<<k>>, steps, states)
    BY <2>2, <2>3 DEF OfTimeline
  <2>8. machine.hidden = ResetHidden => HiddenIn(<<k>>)
    BY <2>2, <2>3 DEF HiddenIn
  <2>9. Len(<<k>>) <= cap
    BY <2>3
  <2> DEFINE r == <<k>>
  <2> HIDE DEF r
  <2>10. /\ Seeded(a) = r /\ r \in Seq(Keyframe) /\ Len(r) <= cap
         /\ Placed(r, steps) /\ Whole(r)
         /\ machine \in states[0] => OfTimeline(r, steps, states)
         /\ machine.hidden = ResetHidden => HiddenIn(r)
    BY <2>1, <2>3, <2>5, <2>6, <2>7, <2>8, <2>9 DEF r
  <2> QED BY <1>2, <2>10
<1> QED BY <1>1, <1>2

(* maybeKeyframe after a step.                                             *)
LEMMA KeyframesAfterStep ==
  ASSUME machine \in Machine, steps \in 0 .. MaxSteps, steps < MaxSteps,
         keyframes \in Seq(Keyframe), keyCap \in KeyCaps, Len(keyframes) <= keyCap,
         Placed(keyframes, steps),
         NEW new \in Machine, NEW states, new \in states[steps + 1]
  PROVE  LET r == WithKeyframe(Seeded(keyframes), steps + 1, new) IN
         /\ r \in Seq(Keyframe) /\ Len(r) <= keyCap
         /\ Placed(r, steps + 1)
         /\ Whole(keyframes) => Whole(r)
         /\ OfTimeline(keyframes, steps, states) /\ (steps = 0 => machine \in states[0])
              => OfTimeline(r, steps + 1, states)
         /\ machine.hidden = ResetHidden /\ new.hidden = ResetHidden
              /\ HiddenIn(keyframes) => HiddenIn(r)
<1> DEFINE a == Seeded(keyframes)
           n == steps + 1
<1>1. keyCap \in Nat \ {0}
  BY RewindAssumption
<1>2. /\ a \in Seq(Keyframe) /\ Len(a) <= keyCap
      /\ Placed(a, steps)
      /\ Whole(keyframes) => Whole(a)
      /\ OfTimeline(keyframes, steps, states) /\ (steps = 0 => machine \in states[0])
           => OfTimeline(a, steps, states)
      /\ machine.hidden = ResetHidden /\ HiddenIn(keyframes) => HiddenIn(a)
  BY <1>1, SeededKeyframes
<1>3. n \in 1 .. MaxSteps /\ n - 1 = steps
  BY RewindAssumption
<1> HIDE DEF a, n
<1>4. CASE n % Interval # 0
  <2>1. WithKeyframe(a, n, new) = a
    BY <1>4 DEF WithKeyframe
  <2>2. /\ Placed(a, n)
        /\ OfTimeline(a, steps, states) => OfTimeline(a, n, states)
    BY <1>2, <1>3, <1>4, NoKeyframeDue
  <2> QED BY <1>2, <2>1, <2>2 DEF a, n
<1>5. CASE n % Interval = 0
  <2> DEFINE k == [step |-> n, snap |-> FullSnapshot(new)]
             r == Append(a, k)
  <2>1. WithKeyframe(a, n, new) = Newest(keyCap, r)
    BY <1>5 DEF WithKeyframe
  <2>2. new \in states[n]
    BY DEF n
  <2>3. /\ k \in Keyframe
        /\ Placed(r, n)
        /\ Whole(a) => Whole(r)
        /\ OfTimeline(a, steps, states) => OfTimeline(r, n, states)
        /\ new.hidden = ResetHidden /\ HiddenIn(a) => HiddenIn(r)
    BY <1>2, <1>3, <1>5, <2>2, KeyframeAdded
  <2>4. r \in Seq(Keyframe)
    BY <1>2, <2>3, AppendProperties
  <2> HIDE DEF r
  <2>5. /\ Newest(keyCap, r) \in Seq(Keyframe) /\ Len(Newest(keyCap, r)) <= keyCap
        /\ Placed(r, n) => Placed(Newest(keyCap, r), n)
        /\ Whole(r) => Whole(Newest(keyCap, r))
        /\ OfTimeline(r, n, states) => OfTimeline(Newest(keyCap, r), n, states)
        /\ HiddenIn(r) => HiddenIn(Newest(keyCap, r))
    BY <1>1, <2>4, NewestEnd, KeyframesDropped
  <2> QED BY <1>2, <2>1, <2>3, <2>5 DEF a, n
<1> QED BY <1>4, <1>5

(* Nearest is the last keyframe at or before the target.                   *)
LEMMA NearestIs ==
  ASSUME keyframes \in Seq(Keyframe), NEW t \in Nat, Candidates(t) # {}
  PROVE  \E i \in 1 .. Len(keyframes) :
           /\ Nearest(t) = keyframes[i] /\ keyframes[i].step <= t
           /\ \A j \in i + 1 .. Len(keyframes) : keyframes[j].step > t
<1> DEFINE last == CHOOSE i \in Candidates(t) : \A j \in Candidates(t) : j <= i
<1>1. Candidates(t) \in SUBSET (1 .. Len(keyframes)) /\ Len(keyframes) \in Nat
  BY DEF Candidates
<1>2. \E i \in Candidates(t) : \A j \in Candidates(t) : j <= i
  BY <1>1, LastPosition
<1>3. last \in Candidates(t) /\ \A j \in Candidates(t) : j <= last
  BY <1>2
<1>4. Nearest(t) = keyframes[last]
  BY DEF Nearest
<1> HIDE DEF last
<1>5. last \in 1 .. Len(keyframes) /\ keyframes[last].step <= t
  BY <1>3 DEF Candidates
<1>6. ASSUME NEW j \in last + 1 .. Len(keyframes) PROVE keyframes[j].step > t
  <2>1. j \in 1 .. Len(keyframes) /\ ~(j <= last)
    BY <1>1, <1>5
  <2>2. j \notin Candidates(t)
    BY <1>3, <2>1
  <2>3. keyframes[j].step \in Nat
    BY <2>1, ElementOfSeq, KeyframeFields
  <2> QED BY <2>1, <2>2, <2>3 DEF Candidates
<1> QED BY <1>4, <1>5, <1>6

-------------------------------------------------------------------------------
(* The inductive invariant, in three parts.  The first holds whoever       *)
(* drives the machine, the second where one debugger does, the third where *)
(* in addition nothing that a snapshot leaves out has changed.             *)

(* The TUI's ring and the server's share the shadow of one RAM: each       *)
(* snapshot takes the pages away that the other needs to undo exactly.     *)
OneDebugger == ~({"tui", "dap"} \subseteq Surfaces)

(* A Snapshot leaves some CPU state out (stoppedBySTP, for one), so no     *)
(* undo brings it back.  Here it is as reset left it, now and at every     *)
(* step of the timeline, replayed or not.                                  *)
Recorded ==
  /\ machine.hidden = ResetHidden
  /\ \A k \in 0 .. MaxSteps : \A m \in seen[k] : m.hidden = ResetHidden

(* Each entry of the fine ring undoes one step that was counted.           *)
KeyInv == TypeOK /\ Placed(keyframes, steps) /\ Len(fine) <= steps

(* A debugger that is not there leaves its variables alone.                *)
Unused ==
  /\ "tui" \notin Surfaces => fine = <<>> /\ keyframes = <<>> /\ steps = 0
  /\ "dap" \notin Surfaces => dapRing = <<>>

Here == "tui" \in Surfaces => machine \in seen[steps]

RingsLead ==
  Chain(fine, Len(fine), machine) /\ Chain(dapRing, Len(dapRing), machine)

TimeInv == Unused /\ Here /\ OfTimeline(keyframes, steps, seen) /\ RingsLead

RingHidden(q) == \A i \in 1 .. Len(q) : q[i].before.hidden = ResetHidden
HiddenStays ==
  /\ machine.hidden = ResetHidden
  /\ RingHidden(fine) /\ RingHidden(dapRing) /\ HiddenIn(keyframes)

(* Without input the timeline is one run f of the program, and each entry  *)
(* of the fine ring is the state one further back.                         *)
IsTimeline(f) ==
  /\ f \in [0 .. steps -> Machine] /\ f[steps] = machine
  /\ \A k \in 1 .. steps : f[k] = Program[f[k - 1]]
  /\ \A k \in 0 .. steps : seen[k] = {f[k]}
  /\ \A k \in steps + 1 .. MaxSteps : seen[k] = {}
  /\ \A i \in 1 .. Len(fine) : /\ fine[i].before = f[steps - Len(fine) + i - 1]
                               /\ fine[i].edited = {}
OneRun == HostActs = {} /\ "tui" \in Surfaces => \E f : IsTimeline(f)

UndoInv == HiddenStays /\ Whole(keyframes) /\ OneRun

(* A step keeps all three.                                                 *)
Keeps ==
  /\ KeyInv'
  /\ OneDebugger /\ TimeInv => TimeInv'
  /\ OneDebugger /\ Recorded' /\ TimeInv /\ UndoInv => UndoInv'

LEMMA Parts ==
  ASSUME TypeOK
  PROVE  /\ setting \in Settings /\ machine \in Machine /\ shadow \in PageSets
         /\ fine \in Seq(Snapshot) /\ Len(fine) <= RingCap /\ Len(fine) \in Nat
         /\ dapRing \in Seq(Snapshot) /\ Len(dapRing) <= RingCap
         /\ Len(dapRing) \in Nat
         /\ steps \in 0 .. MaxSteps /\ steps \in Nat /\ MaxSteps \in Nat
         /\ keyframes \in Seq(Keyframe) /\ Len(keyframes) <= keyCap
         /\ keyCap \in KeyCaps /\ keyCap \in Nat \ {0} /\ RingCap \in Nat \ {0}
         /\ seen \in [0 .. MaxSteps -> SUBSET Machine]
BY RewindAssumption DEF TypeOK

LEMMA Stepped ==
  ASSUME NEW m \in Machine
  PROVE  Program[m] \in Machine
BY RewindAssumption

LEMMA OfTimelineStays ==
  ASSUME NEW a \in Seq(Keyframe), NEW n \in 0 .. MaxSteps, NEW k \in 0 .. n,
         NEW old, NEW new,
         \A i \in 0 .. k : old[i] \subseteq new[i],
         OfTimeline(a, n, old)
  PROVE  OfTimeline(a, k, new)
<1>1. \A i \in 1 .. Len(a) : a[i].step \in 0 .. MaxSteps
  BY ElementOfSeq, KeyframeFields
<1>2. MaxSteps \in Nat
  BY RewindAssumption
<1>3. ASSUME NEW i \in 1 .. Len(a), a[i].step <= k
      PROVE  a[i].step <= n /\ a[i].step \in 0 .. k
  BY <1>1, <1>2, <1>3
<1> QED BY <1>3 DEF OfTimeline

(* A machine with nothing edited is undone to the very same machine.       *)
LEMMA SameMachine ==
  ASSUME NEW a \in Machine, NEW s \in Snapshot, Undone(a, s), s.edited = {}
  PROVE  a = s.before
<1>1. s.before \in Machine
  BY DEF Snapshot
<1>2. /\ a.regs = s.before.regs /\ a.hidden = s.before.hidden
      /\ a.keys = s.before.keys /\ \A p \in Pages : a.mem[p] = s.before.mem[p]
  BY DEF Undone
<1>3. a.mem = s.before.mem
  BY <1>1, <1>2 DEF Machine
<1> QED BY <1>1, <1>2, <1>3 DEF Machine

LEMMA EmptyChain ==
  ASSUME NEW m
  PROVE  Chain(<<>>, Len(<<>>), m) /\ RingHidden(<<>>)
BY DEF Chain, RingHidden

-------------------------------------------------------------------------------
(* The TUI's steps. *)

LEMMA StepKeeps ==
  ASSUME KeyInv, Step
  PROVE  Keeps
<1> DEFINE new == Program[machine]
           s == SnapshotOf(machine, Touched(NoPages, machine, new))
<1>1. /\ setting \in Settings /\ machine \in Machine /\ shadow \in PageSets
      /\ fine \in Seq(Snapshot) /\ Len(fine) \in Nat
      /\ dapRing \in Seq(Snapshot) /\ Len(dapRing) <= RingCap
      /\ steps \in 0 .. MaxSteps /\ steps \in Nat /\ MaxSteps \in Nat
      /\ keyframes \in Seq(Keyframe) /\ Len(keyframes) <= keyCap
      /\ keyCap \in KeyCaps /\ keyCap \in Nat \ {0} /\ RingCap \in Nat \ {0}
      /\ seen \in [0 .. MaxSteps -> SUBSET Machine]
      /\ Placed(keyframes, steps) /\ Len(fine) <= steps
  BY Parts DEF KeyInv
<1>2. /\ "tui" \in Surfaces /\ steps < MaxSteps
      /\ machine' = new /\ fine' = Newest(RingCap, Append(fine, s))
      /\ steps' = steps + 1
      /\ keyframes' = WithKeyframe(Seeded(keyframes), steps + 1, new)
      /\ shadow' = NoPages
      /\ seen' = [seen EXCEPT ![steps + 1] = @ \cup {new}]
      /\ setting' = setting /\ dapRing' = dapRing /\ keyCap' = keyCap
  BY DEF Step, Remember
<1>3. new \in Machine
  BY <1>1, Stepped
<1> HIDE DEF new
<1>4. s \in Snapshot /\ s.before = machine /\ s.edited = {} /\ Faithful(s)
      /\ Covers(s, new)
  BY <1>1, <1>3, OneStepCovered
<1> HIDE DEF s
<1>5. /\ fine' \in Seq(Snapshot) /\ Len(fine') <= RingCap
      /\ Len(fine') \in 1 .. Len(fine) + 1 /\ fine'[Len(fine')] = s
      /\ \A i \in 1 .. Len(fine') - 1 : fine'[i] = fine[Len(fine) + 1 - Len(fine') + i]
  <2> DEFINE r == Newest(RingCap, Append(fine, s))
  <2>1. /\ r \in Seq(Snapshot) /\ Len(r) <= RingCap
        /\ Len(r) \in 1 .. Len(fine) + 1 /\ r[Len(r)] = s
        /\ \A i \in 1 .. Len(r) - 1 : r[i] = fine[Len(fine) + 1 - Len(r) + i]
    <3>1. fine \in Seq(Snapshot) /\ s \in Snapshot /\ RingCap \in Nat \ {0}
      BY <1>1, <1>4
    <3> QED BY <3>1, PushedRing
  <2>2. fine' = r
    BY <1>2
  <2> HIDE DEF r
  <2> QED BY <2>1, <2>2
<1>6. /\ seen' \in [0 .. MaxSteps -> SUBSET Machine]
      /\ new \in seen'[steps + 1] /\ steps + 1 \in 0 .. MaxSteps
      /\ \A k \in 0 .. MaxSteps : seen[k] \subseteq seen'[k]
      /\ \A k \in 0 .. MaxSteps : k # steps + 1 => seen'[k] = seen[k]
      /\ seen'[steps + 1] = seen[steps + 1] \cup {new}
  BY <1>1, <1>2, <1>3
<1>7. /\ keyframes' \in Seq(Keyframe) /\ Len(keyframes') <= keyCap
      /\ Placed(keyframes', steps + 1)
      /\ Whole(keyframes) => Whole(keyframes')
      /\ OfTimeline(keyframes, steps, seen') /\ (steps = 0 => machine \in seen'[0])
           => OfTimeline(keyframes', steps + 1, seen')
      /\ machine.hidden = ResetHidden /\ new.hidden = ResetHidden
           /\ HiddenIn(keyframes) => HiddenIn(keyframes')
  BY <1>1, <1>2, <1>3, <1>6, KeyframesAfterStep
<1>8. KeyInv'
  <2>1. TypeOK'
    BY <1>1, <1>2, <1>3, <1>5, <1>6, <1>7, NoPagesOK DEF TypeOK
  <2>2. Len(fine') <= steps'
    BY <1>1, <1>2, <1>5
  <2> QED BY <1>2, <1>7, <2>1, <2>2 DEF KeyInv
<1>9. ASSUME OneDebugger, TimeInv PROVE TimeInv'
  <2>1. "dap" \notin Surfaces /\ dapRing = <<>>
    BY <1>1, <1>2, <1>9 DEF OneDebugger, TimeInv, Unused, Surfaces
  <2>2. Chain(fine', Len(fine'), machine')
    <3>1. Chain(fine, Len(fine), machine)
      BY <1>9 DEF TimeInv, RingsLead
    <3>2. Chain(Newest(RingCap, Append(fine, s)), Len(Newest(RingCap, Append(fine, s))), new)
      BY <1>1, <1>3, <1>4, <3>1, ChainPush
    <3> QED BY <1>2, <3>2
  <2>3. RingsLead'
    BY <1>2, <2>1, <2>2, EmptyChain DEF RingsLead
  <2>4. OfTimeline(keyframes', steps', seen')
    <3>1. OfTimeline(keyframes, steps, seen')
      <4>1. steps \in 0 .. steps /\ \A i \in 0 .. steps : seen[i] \subseteq seen'[i]
        BY <1>1, <1>6
      <4> QED BY <1>1, <1>9, <4>1, OfTimelineStays DEF TimeInv
    <3>2. machine \in seen'[steps]
      BY <1>1, <1>2, <1>6, <1>9 DEF TimeInv, Here
    <3> QED BY <1>2, <1>7, <3>1, <3>2
  <2>5. Unused' /\ Here'
    BY <1>2, <1>6, <2>1 DEF Unused, Here, Surfaces
  <2> QED BY <2>3, <2>4, <2>5 DEF TimeInv
<1>10. ASSUME OneDebugger, Recorded', TimeInv, UndoInv PROVE UndoInv'
  <2>1. HiddenStays'
    <3>1. machine.hidden = ResetHidden /\ new.hidden = ResetHidden
      BY <1>2, <1>10 DEF UndoInv, HiddenStays, Recorded
    <3>2. \A i \in 1 .. Len(fine') : fine'[i].before.hidden = ResetHidden
      <4>1. ASSUME NEW i \in 1 .. Len(fine') - 1
            PROVE  Len(fine) + 1 - Len(fine') + i \in 1 .. Len(fine)
        BY <1>1, <1>5
      <4>2. ASSUME NEW i \in 1 .. Len(fine') - 1
            PROVE  fine'[i].before.hidden = ResetHidden
        BY <1>5, <1>10, <4>1 DEF UndoInv, HiddenStays, RingHidden
      <4>3. fine'[Len(fine')].before.hidden = ResetHidden
        BY <1>4, <1>5, <3>1
      <4> QED BY <1>5, <4>2, <4>3
    <3>3. HiddenIn(keyframes')
      BY <1>7, <1>10, <3>1 DEF UndoInv, HiddenStays
    <3> QED BY <1>2, <1>10, <3>1, <3>2, <3>3 DEF UndoInv, HiddenStays, RingHidden
  <2>2. Whole(keyframes')
    BY <1>7, <1>10 DEF UndoInv
  <2>3. OneRun'
    <3> SUFFICES ASSUME HostActs = {} PROVE \E f : IsTimeline(f)'
      BY <1>2 DEF OneRun, HostActs
    <3>1. PICK f : IsTimeline(f)
      BY <1>2, <1>10 DEF UndoInv, OneRun
    <3> DEFINE n == steps + 1
    <3>2. PICK g : /\ g \in [0 .. n -> Machine] /\ g[n] = new
                   /\ \A k \in 0 .. steps : g[k] = f[k] /\ k # n
      <4> DEFINE h == [k \in 0 .. n |-> IF k = n THEN new ELSE f[k]]
      <4>1. /\ h \in [0 .. n -> Machine] /\ h[n] = new
            /\ \A k \in 0 .. steps : h[k] = f[k] /\ k # n
        BY <1>1, <1>3, <3>1 DEF IsTimeline
      <4> HIDE DEF h
      <4> QED BY <4>1
    <3>3. \A k \in 1 .. n : g[k] = Program[g[k - 1]]
      <4>1. g[n] = Program[g[n - 1]]
        BY <1>1, <3>1, <3>2 DEF IsTimeline, new
      <4>2. ASSUME NEW k \in 1 .. n, k # n PROVE g[k] = Program[g[k - 1]]
        <5>1. k \in 1 .. steps /\ k \in 0 .. steps /\ k - 1 \in 0 .. steps
          BY <1>1, <4>2
        <5> QED BY <3>1, <3>2, <5>1 DEF IsTimeline
      <4> QED BY <4>1, <4>2
    <3>4. \A k \in 0 .. n : seen'[k] = {g[k]}
      <4>1. seen'[n] = {g[n]}
        <5>1. seen[n] = {}
          BY <1>1, <1>2, <3>1 DEF IsTimeline
        <5> QED BY <1>6, <3>2, <5>1
      <4>2. ASSUME NEW k \in 0 .. n, k # n PROVE seen'[k] = {g[k]}
        <5>1. k \in 0 .. steps /\ k \in 0 .. MaxSteps
          BY <1>1, <4>2
        <5> QED BY <1>6, <3>1, <3>2, <4>2, <5>1 DEF IsTimeline
      <4> QED BY <4>1, <4>2
    <3>5. \A k \in n + 1 .. MaxSteps : seen'[k] = {}
      <4>1. ASSUME NEW k \in n + 1 .. MaxSteps
            PROVE  k \in steps + 1 .. MaxSteps /\ k \in 0 .. MaxSteps /\ k # n
        BY <1>1
      <4> QED BY <1>6, <3>1, <4>1 DEF IsTimeline
    <3>6. ASSUME NEW i \in 1 .. Len(fine')
          PROVE  /\ fine'[i].before = g[n - Len(fine') + i - 1]
                 /\ fine'[i].edited = {}
      <4>1. CASE i = Len(fine')
        <5>1. n - Len(fine') + i - 1 = steps /\ steps \in 0 .. steps
          <6>1. Len(fine') \in Nat /\ steps \in Nat
            BY <1>1, <1>5
          <6> QED BY <4>1, <6>1
        <5>2. g[steps] = machine
          BY <3>1, <3>2, <5>1 DEF IsTimeline
        <5> QED BY <1>4, <1>5, <4>1, <5>1, <5>2
      <4>2. CASE i # Len(fine')
        <5> DEFINE j == Len(fine) + 1 - Len(fine') + i
        <5>1. /\ i \in 1 .. Len(fine') - 1 /\ j \in 1 .. Len(fine)
              /\ n - Len(fine') + i - 1 = steps - Len(fine) + j - 1
              /\ steps - Len(fine) + j - 1 \in 0 .. steps
          <6>1. /\ Len(fine) \in Nat /\ steps \in Nat /\ Len(fine) <= steps
                /\ Len(fine') \in 1 .. Len(fine) + 1
            BY <1>1, <1>5
          <6> QED BY <4>2, <6>1
        <5>2. fine'[i] = fine[j]
          BY <1>5, <5>1
        <5> HIDE DEF j
        <5> QED BY <3>1, <3>2, <5>1, <5>2 DEF IsTimeline
      <4> QED BY <4>1, <4>2
    <3>7. IsTimeline(g)'
      <4>1. steps' = n /\ machine' = new
        BY <1>2
      <4> HIDE DEF n
      <4>2. g \in [0 .. steps' -> Machine] /\ g[steps'] = machine'
        BY <3>2, <4>1
      <4>3. \A k \in 1 .. steps' : g[k] = Program[g[k - 1]]
        BY <3>3, <4>1
      <4>4. \A k \in 0 .. steps' : seen'[k] = {g[k]}
        BY <3>4, <4>1
      <4>5. \A k \in steps' + 1 .. MaxSteps : seen'[k] = {}
        BY <3>5, <4>1
      <4>6. \A i \in 1 .. Len(fine') :
              /\ fine'[i].before = g[steps' - Len(fine') + i - 1]
              /\ fine'[i].edited = {}
        BY <3>6, <4>1
      <4> QED BY <4>2, <4>3, <4>4, <4>5, <4>6 DEF IsTimeline
    <3> QED BY <3>7
  <2> QED BY <2>1, <2>2, <2>3 DEF UndoInv
<1> QED BY <1>8, <1>9, <1>10 DEF Keeps

(* Going back within the fine ring. *)
LEMMA BackLands ==
  ASSUME KeyInv, NEW n \in 1 .. Len(fine), NEW m \in Machine, NEW f, IsTimeline(f),
         Undone(m, fine[Len(fine) - n + 1])
  PROVE  m = f[steps - n]
<1> DEFINE i == Len(fine) - n + 1
<1>1. fine \in Seq(Snapshot) /\ Len(fine) \in Nat /\ steps \in Nat
  BY Parts DEF KeyInv
<1>2. i \in 1 .. Len(fine) /\ steps - Len(fine) + i - 1 = steps - n
  BY <1>1
<1>3. fine[i].before = f[steps - Len(fine) + i - 1] /\ fine[i].edited = {}
  BY <1>2 DEF IsTimeline
<1>4. fine[i] \in Snapshot
  BY <1>1, <1>2, ElementOfSeq
<1>5. Undone(m, fine[i])
  OBVIOUS
<1> HIDE DEF i
<1> QED BY <1>2, <1>3, <1>4, <1>5, SameMachine

LEMMA BackKeeps ==
  ASSUME KeyInv, "tui" \in Surfaces, NEW n \in 1 .. Len(fine),
         fine' = Popped(fine, n), steps' = steps - n, shadow' = NoPages,
         seen' = RememberBack(steps - n, machine'),
         UNCHANGED <<setting, dapRing, keyframes, keyCap>>,
         machine' \in Machine, machine'.hidden = machine.hidden,
         TimeInv => Chain(fine, Len(fine) - n, machine'),
         TimeInv /\ UndoInv => Undone(machine', fine[Len(fine) - n + 1])
  PROVE  Keeps
<1>1. /\ setting \in Settings /\ machine \in Machine
      /\ fine \in Seq(Snapshot) /\ Len(fine) \in Nat /\ Len(fine) <= RingCap
      /\ dapRing \in Seq(Snapshot) /\ Len(dapRing) <= RingCap
      /\ steps \in 0 .. MaxSteps /\ steps \in Nat /\ MaxSteps \in Nat
      /\ keyframes \in Seq(Keyframe) /\ Len(keyframes) <= keyCap
      /\ keyCap \in KeyCaps /\ RingCap \in Nat \ {0}
      /\ seen \in [0 .. MaxSteps -> SUBSET Machine]
      /\ Placed(keyframes, steps) /\ Len(fine) <= steps
  BY Parts DEF KeyInv
<1>2. /\ setting' = setting /\ dapRing' = dapRing /\ keyframes' = keyframes
      /\ keyCap' = keyCap
  OBVIOUS
<1>3. steps - n \in 0 .. MaxSteps /\ steps - n \in 0 .. steps /\ n \in 0 .. Len(fine)
  BY <1>1
<1>4. /\ fine' \in Seq(Snapshot) /\ Len(fine') = Len(fine) - n
      /\ \A i \in 1 .. Len(fine) - n : fine'[i] = fine[i]
  BY <1>1, <1>3, PoppedFront
<1>5. seen' = [j \in 0 .. MaxSteps |->
                 IF j < steps - n THEN seen[j]
                 ELSE IF j = steps - n THEN seen[steps - n] \cup {machine'} ELSE {}]
  BY DEF RememberBack
<1>6. /\ seen' \in [0 .. MaxSteps -> SUBSET Machine]
      /\ \A j \in 0 .. steps - n : j \in 0 .. MaxSteps /\ seen[j] \subseteq seen'[j]
      /\ seen'[steps - n] = seen[steps - n] \cup {machine'}
      /\ \A j \in 0 .. steps - n : j # steps - n => seen'[j] = seen[j]
      /\ \A j \in steps - n + 1 .. MaxSteps : seen'[j] = {}
  <2> DEFINE k == steps - n
             s == [j \in 0 .. MaxSteps |->
                     IF j < k THEN seen[j]
                     ELSE IF j = k THEN seen[k] \cup {machine'} ELSE {}]
  <2>1. k \in 0 .. MaxSteps /\ MaxSteps \in Nat
    BY <1>1, <1>3
  <2>2. seen' = s
    BY <1>5
  <2> HIDE DEF k
  <2>3. /\ s \in [0 .. MaxSteps -> SUBSET Machine]
        /\ \A j \in 0 .. k : j \in 0 .. MaxSteps /\ seen[j] \subseteq s[j]
        /\ s[k] = seen[k] \cup {machine'}
        /\ \A j \in 0 .. k : j # k => s[j] = seen[j]
        /\ \A j \in k + 1 .. MaxSteps : s[j] = {}
    BY <1>1, <2>1
  <2> HIDE DEF s
  <2> QED BY <2>2, <2>3 DEF k
<1>7. KeyInv'
  <2>1. TypeOK'
    <3>1. Len(fine') <= RingCap
      BY <1>1, <1>4
    <3> QED BY <1>1, <1>2, <1>3, <1>4, <1>6, <3>1, NoPagesOK DEF TypeOK
  <2>2. Placed(keyframes', steps')
    <3>1. \A i \in 1 .. Len(keyframes) : keyframes[i].step \in Nat
      BY <1>1, ElementOfSeq, KeyframeFields
    <3>2. Interval \in Nat
      BY RewindAssumption
    <3>3. \A i \in 1 .. Len(keyframes) :
            keyframes[i].step + Interval <= steps - n
              => keyframes[i].step + Interval <= steps
      BY <1>1, <1>3, <3>1, <3>2
    <3>4. Placed(keyframes, steps - n)
      BY <1>1, <3>3 DEF Placed
    <3> QED BY <1>2, <3>4
  <2>3. Len(fine') <= steps'
    BY <1>1, <1>4
  <2> QED BY <2>1, <2>2, <2>3 DEF KeyInv
<1>8. ASSUME OneDebugger, TimeInv PROVE TimeInv'
  <2>1. "dap" \notin Surfaces /\ dapRing = <<>>
    BY <1>1, <1>8 DEF OneDebugger, TimeInv, Unused, Surfaces
  <2>2. Chain(fine', Len(fine'), machine')
    BY <1>1, <1>3, <1>8, ChainPopped
  <2>3. RingsLead'
    BY <1>2, <2>1, <2>2, EmptyChain DEF RingsLead
  <2>4. OfTimeline(keyframes', steps', seen')
    <3>1. OfTimeline(keyframes, steps, seen)
      BY <1>8 DEF TimeInv
    <3>2. OfTimeline(keyframes, steps - n, seen')
      BY <1>1, <1>3, <1>6, <3>1, OfTimelineStays
    <3> QED BY <1>2, <3>2
  <2>5. Unused'
    BY <1>2, <2>1 DEF Unused, Surfaces
  <2>6. Here'
    BY <1>6 DEF Here
  <2> QED BY <2>3, <2>4, <2>5, <2>6 DEF TimeInv
<1>9. ASSUME OneDebugger, Recorded', TimeInv, UndoInv PROVE UndoInv'
  <2>1. HiddenStays'
    <3>1. \A i \in 1 .. Len(fine') : fine'[i].before.hidden = ResetHidden
      <4>1. \A i \in 1 .. Len(fine) - n : i \in 1 .. Len(fine)
        BY <1>1
      <4> QED BY <1>4, <1>9, <4>1 DEF UndoInv, HiddenStays, RingHidden
    <3> QED BY <1>2, <1>9, <3>1 DEF UndoInv, HiddenStays, RingHidden
  <2>2. Whole(keyframes')
    BY <1>2, <1>9 DEF UndoInv
  <2>3. OneRun'
    <3> SUFFICES ASSUME HostActs = {} PROVE \E f : IsTimeline(f)'
      BY <1>2 DEF OneRun, HostActs
    <3>1. PICK f : IsTimeline(f)
      BY <1>9 DEF UndoInv, OneRun
    <3>2. machine' = f[steps - n]
      BY <1>9, <3>1, BackLands
    <3>3. PICK k \in 0 .. MaxSteps : k = steps - n
      BY <1>3
    <3>4. PICK g : g \in [0 .. k -> Machine] /\ \A j \in 0 .. k : g[j] = f[j]
      <4> DEFINE h == [j \in 0 .. k |-> f[j]]
      <4>1. \A j \in 0 .. k : j \in 0 .. steps
        BY <1>1, <1>3, <3>3
      <4>2. h \in [0 .. k -> Machine] /\ \A j \in 0 .. k : h[j] = f[j]
        BY <3>1, <4>1 DEF IsTimeline
      <4> HIDE DEF h
      <4> QED BY <4>2
    <3>5. g \in [0 .. steps' -> Machine] /\ g[steps'] = machine'
      BY <3>2, <3>3, <3>4
    <3>6. \A j \in 1 .. steps' : g[j] = Program[g[j - 1]]
      <4>1. \A j \in 1 .. k : j \in 1 .. steps /\ j \in 0 .. k /\ j - 1 \in 0 .. k
        BY <1>1, <1>3, <3>3
      <4>2. \A j \in 1 .. k : g[j] = Program[g[j - 1]]
        BY <3>1, <3>4, <4>1 DEF IsTimeline
      <4> QED BY <3>3, <4>2
    <3>7. \A j \in 0 .. steps' : seen'[j] = {g[j]}
      <4>1. ASSUME NEW j \in 0 .. k PROVE seen'[j] = {g[j]}
        <5>1. seen[j] = {f[j]}
          <6>1. j \in 0 .. steps
            BY <1>1, <1>3, <3>3
          <6> QED BY <3>1, <6>1 DEF IsTimeline
        <5> QED BY <1>6, <3>2, <3>3, <3>4, <5>1
      <4> QED BY <3>3, <4>1
    <3>8. \A j \in steps' + 1 .. MaxSteps : seen'[j] = {}
      BY <1>6
    <3>9. \A i \in 1 .. Len(fine') :
            /\ fine'[i].before = g[steps' - Len(fine') + i - 1]
            /\ fine'[i].edited = {}
      <4> SUFFICES ASSUME NEW i \in 1 .. Len(fine) - n
                   PROVE  /\ fine'[i].before = g[steps' - Len(fine') + i - 1]
                          /\ fine'[i].edited = {}
        BY <1>4
      <4>1. /\ i \in 1 .. Len(fine) /\ steps' - Len(fine') + i - 1 = steps - Len(fine) + i - 1
            /\ steps - Len(fine) + i - 1 \in 0 .. k
        <5>1. i \in Nat /\ 1 <= i /\ i <= Len(fine) - n /\ n \in Nat /\ n <= Len(fine)
          BY <1>1
        <5>2. Len(fine') = Len(fine) - n /\ steps' = steps - n
          BY <1>4
        <5> QED BY <1>1, <3>3, <5>1, <5>2
      <4>2. fine[i].before = f[steps - Len(fine) + i - 1] /\ fine[i].edited = {}
        BY <3>1, <4>1 DEF IsTimeline
      <4>3. g[steps - Len(fine) + i - 1] = f[steps - Len(fine) + i - 1]
        BY <3>4, <4>1
      <4> QED BY <1>4, <4>1, <4>2, <4>3
    <3>10. IsTimeline(g)'
      BY <3>5, <3>6, <3>7, <3>8, <3>9 DEF IsTimeline
    <3> QED BY <3>10
  <2> QED BY <2>1, <2>2, <2>3 DEF UndoInv
<1> QED BY <1>7, <1>8, <1>9 DEF Keeps

(* The snapshots of the ring are of machines with nothing hidden changed.  *)
LEMMA HiddenInRing ==
  ASSUME UndoInv
  PROVE  /\ \A i \in 1 .. Len(fine) : fine[i].before.hidden = machine.hidden
         /\ \A i \in 1 .. Len(dapRing) : dapRing[i].before.hidden = machine.hidden
BY DEF UndoInv, HiddenStays, RingHidden

LEMMA UndoKeeps ==
  ASSUME KeyInv, Undo
  PROVE  Keeps /\ (TimeInv /\ UndoInv => Undone(machine', Top(fine)))
<1>1. /\ fine \in Seq(Snapshot) /\ Len(fine) \in Nat /\ machine \in Machine
      /\ Len(fine) <= steps /\ steps \in Nat
  BY Parts DEF KeyInv
<1>2. Len(fine) \in 1 .. Len(fine) /\ 1 \in 1 .. Len(fine) /\ steps > 0
  <2>1. Len(fine) # 0
    BY <1>1, EmptySeq DEF Undo
  <2> QED BY <1>1, <2>1
<1>3. Top(fine) \in Snapshot /\ Top(fine) = fine[Len(fine)]
  BY <1>1, <1>2, ElementOfSeq DEF Top
<1>4. machine' = Restored(machine, fine[Len(fine)]) /\ steps' = steps - 1
  BY <1>1, <1>2 DEF Undo, Top
<1>5. machine' \in Machine /\ machine'.hidden = machine.hidden
  BY <1>1, <1>3, <1>4, RestoredFields
<1>6. ASSUME TimeInv PROVE Chain(fine, Len(fine) - 1, machine')
  BY <1>1, <1>2, <1>4, <1>6, UndoOne DEF TimeInv, RingsLead
<1>7. ASSUME TimeInv, UndoInv PROVE Undone(machine', fine[Len(fine)])
  <2>1. machine.hidden = fine[Len(fine)].before.hidden
    BY <1>2, <1>7, HiddenInRing
  <2> QED BY <1>1, <1>2, <1>4, <1>7, <2>1, UndoOne DEF TimeInv, RingsLead
<1>8. Len(fine) - 1 + 1 = Len(fine)
  BY <1>1
<1>9. Keeps
  <2>1. seen' = RememberBack(steps - 1, machine')
    BY <1>4 DEF Undo
  <2> QED BY <1>2, <1>4, <1>5, <1>6, <1>7, <1>8, <2>1, BackKeeps DEF Undo
<1> QED BY <1>3, <1>7, <1>9

(* n pops in a row. *)
LEMMA ShortEffect ==
  ASSUME KeyInv, NEW n \in 1 .. MaxSteps, RewindShort(n)
  PROVE  /\ n \in 1 .. Len(fine)
         /\ machine' \in Machine /\ machine'.hidden = machine.hidden
         /\ TimeInv => Chain(fine, Len(fine) - n, machine')
         /\ TimeInv /\ UndoInv => Undone(machine', fine[Len(fine) - n + 1])
<1>1. /\ fine \in Seq(Snapshot) /\ Len(fine) \in Nat /\ machine \in Machine
      /\ MaxSteps \in Nat
  BY Parts DEF KeyInv
<1>2. n \in 1 .. Len(fine) /\ n \in 0 .. Len(fine) /\ n > 0
  BY <1>1 DEF RewindShort
<1>3. machine' = Unwound(machine, fine, n)[n]
  BY DEF RewindShort
<1>4. Unwound(machine, fine, n)[n] \in Machine
      /\ Unwound(machine, fine, n)[n].hidden = machine.hidden
  <2>1. n \in 0 .. n
    BY <1>2
  <2> QED BY <1>1, <1>2, <2>1, UnwoundSteps
<1>5. ASSUME TimeInv
      PROVE  /\ Chain(fine, Len(fine) - n, machine')
             /\ UndoInv => Undone(machine', fine[Len(fine) - n + 1])
  <2>1. Chain(fine, Len(fine), machine)
    BY <1>5 DEF TimeInv, RingsLead
  <2> QED BY <1>1, <1>2, <1>3, <2>1, UndoMany, HiddenInRing
<1> QED BY <1>2, <1>3, <1>4, <1>5

LEMMA RewindShortKeeps ==
  ASSUME KeyInv, NEW n \in 1 .. MaxSteps, RewindShort(n)
  PROVE  Keeps
<1>1. seen' = RememberBack(steps - n, machine')
  BY DEF RewindShort
<1> QED BY <1>1, ShortEffect, BackKeeps DEF RewindShort

(* The deep path, spelled out: keyframe i is the one restored, t are the   *)
(* states of the replay and q the snapshots taken during it.               *)
DeepFrom(n, i, t, q) ==
  LET kf == keyframes[i]
      d  == steps - n - kf.step
  IN
  /\ kf.step \in 0 .. steps - n /\ kf.snap \in Snapshot
  /\ \A j \in i + 1 .. Len(keyframes) : keyframes[j].step > kf.step
  /\ t \in [0 .. d -> Machine] /\ t[0] = Restored(machine, kf.snap)
  /\ \A j \in 1 .. d : t[j] = Program[t[j - 1]]
  /\ Len(q) = d
  /\ \A j \in 1 .. d : /\ q[j].before = t[j - 1] /\ q[j].edited = {}
                       /\ Faithful(q[j]) /\ Covers(q[j], t[j])
  /\ machine' = t[d]
  /\ fine' = Newest(RingCap, q)
  /\ seen' = [j \in 0 .. MaxSteps |->
                IF j < kf.step THEN seen[j]
                ELSE IF j > steps - n THEN {}
                ELSE seen[j] \cup {t[j - kf.step]}]

LEMMA DeepEffect ==
  ASSUME KeyInv, NEW n \in 1 .. MaxSteps, RewindDeep(n)
  PROVE  /\ steps - n \in 0 .. steps
         /\ \E i \in 1 .. Len(keyframes), q \in Seq(Snapshot) :
              \E t : DeepFrom(n, i, t, q)
<1>1. /\ machine \in Machine /\ steps \in Nat /\ MaxSteps \in Nat
      /\ keyframes \in Seq(Keyframe)
  BY Parts DEF KeyInv
<1>2. n \in Nat /\ n <= steps /\ steps - n \in 0 .. steps /\ steps - n \in Nat
  BY <1>1 DEF RewindDeep
<1>3. PICK i \in 1 .. Len(keyframes) :
         /\ Nearest(steps - n) = keyframes[i] /\ keyframes[i].step <= steps - n
         /\ \A j \in i + 1 .. Len(keyframes) : keyframes[j].step > steps - n
  BY <1>1, <1>2, NearestIs DEF RewindDeep
<1> DEFINE kf == keyframes[i]
           d  == steps - n - kf.step
           t  == Trace(Restored(machine, kf.snap), d)
           snaps == [j \in 1 .. d |->
                       SnapshotOf(t[j - 1], Touched(NoPages, t[j - 1], t[j]))]
<1>4. kf \in Keyframe
  BY <1>1, ElementOfSeq
<1>5. kf.step \in Nat /\ kf.snap \in Snapshot
  BY <1>4, KeyframeFields
<1>6. kf.step \in 0 .. steps - n /\ d \in Nat
  BY <1>2, <1>3, <1>5
<1>7. /\ machine' = t[d]
      /\ fine' = Newest(RingCap, snaps)
      /\ seen' = [j \in 0 .. MaxSteps |->
                    IF j < kf.step THEN seen[j]
                    ELSE IF j > steps - n THEN {}
                    ELSE seen[j] \cup {t[j - kf.step]}]
  BY <1>3 DEF RewindDeep
<1>8. Restored(machine, kf.snap) \in Machine
  BY <1>1, <1>5, RestoredFields
<1>9. /\ t \in [0 .. d -> Machine] /\ t[0] = Restored(machine, kf.snap)
      /\ \A j \in 1 .. d : t[j] = Program[t[j - 1]]
  BY <1>6, <1>8, TraceSteps
<1>10. \A j \in i + 1 .. Len(keyframes) : keyframes[j].step > kf.step
  <2>1. ASSUME NEW j \in i + 1 .. Len(keyframes) PROVE keyframes[j].step \in Nat
    <3>1. j \in 1 .. Len(keyframes)
      BY <1>1
    <3> QED BY <1>1, <3>1, ElementOfSeq, KeyframeFields
  <2> QED BY <1>2, <1>3, <1>5, <2>1
<1> HIDE DEF t, d
<1>11. ASSUME NEW j \in 1 .. d
       PROVE  /\ snaps[j] \in Snapshot
              /\ snaps[j].before = t[j - 1] /\ snaps[j].edited = {}
              /\ Faithful(snaps[j]) /\ Covers(snaps[j], t[j])
  <2>1. t[j - 1] \in Machine /\ t[j] \in Machine
    BY <1>6, <1>9
  <2>2. snaps[j] = SnapshotOf(t[j - 1], Touched(NoPages, t[j - 1], t[j]))
    OBVIOUS
  <2> HIDE DEF snaps
  <2> QED BY <2>1, <2>2, OneStepCovered
<1>12. snaps \in Seq(Snapshot) /\ Len(snaps) = d
  <2>1. snaps \in [1 .. d -> Snapshot]
    BY <1>11
  <2> HIDE DEF snaps
  <2> QED BY <1>6, <2>1
<1> HIDE DEF snaps, kf
<1>13. DeepFrom(n, i, t, snaps)
  BY <1>5, <1>6, <1>7, <1>9, <1>10, <1>11, <1>12 DEF DeepFrom, d, kf
<1> QED BY <1>2, <1>12, <1>13

(* The replay of a keyframe of the timeline is the timeline again.         *)
LEMMA DeepLands ==
  ASSUME KeyInv, TimeInv, UndoInv, Recorded', "tui" \in Surfaces,
         NEW n \in 1 .. MaxSteps, steps - n \in 0 .. steps,
         NEW i \in 1 .. Len(keyframes), NEW q \in Seq(Snapshot), NEW t,
         DeepFrom(n, i, t, q)
  PROVE  /\ \A j \in 0 .. steps - n - keyframes[i].step :
              t[j].hidden = ResetHidden
         /\ \A f : IsTimeline(f) =>
              \A j \in 0 .. steps - n - keyframes[i].step :
                t[j] = f[keyframes[i].step + j]
<1> DEFINE kf == keyframes[i]
           d == steps - n - kf.step
           base == Restored(machine, kf.snap)
<1>1. /\ machine \in Machine /\ steps \in Nat /\ steps \in 0 .. MaxSteps
      /\ MaxSteps \in Nat
      /\ keyframes \in Seq(Keyframe)
  BY Parts DEF KeyInv
<1>2. /\ kf.step \in 0 .. steps - n /\ kf.snap \in Snapshot
      /\ \A j \in i + 1 .. Len(keyframes) : keyframes[j].step > kf.step
      /\ t \in [0 .. d -> Machine] /\ t[0] = base
      /\ \A j \in 1 .. d : t[j] = Program[t[j - 1]]
  BY DEF DeepFrom
<1>3. /\ kf.step \in 0 .. steps /\ d \in Nat /\ kf.step \in Nat
      /\ kf.step + d = steps - n /\ steps - n \in 0 .. MaxSteps
  <2>1. /\ kf.step \in 0 .. steps - n /\ steps - n \in 0 .. steps
        /\ steps \in 0 .. MaxSteps /\ MaxSteps \in Nat
    BY <1>1, <1>2
  <2> QED BY <2>1
<1>4. kf.snap = FullSnapshot(kf.snap.before) /\ kf.snap.before.hidden = ResetHidden
      /\ machine.hidden = ResetHidden
  BY DEF UndoInv, Whole, HiddenStays, HiddenIn
<1>5. kf.snap.before \in seen[kf.step]
  BY <1>1, <1>2, <1>3 DEF TimeInv, OfTimeline
<1>6. base = kf.snap.before
  <2> DEFINE b == kf.snap.before
  <2>1. b \in Machine
    BY <1>2 DEF Snapshot
  <2>2. b.mem \in PageSets /\ b.mem \in [Pages -> Bytes]
    <3>1. b.mem \in [Pages -> Bytes]
      BY <2>1 DEF Machine
    <3> QED BY <3>1, PageSet
  <2>3. kf.snap = SnapshotOf(b, b.mem)
    BY <1>4 DEF FullSnapshot
  <2> HIDE DEF b
  <2>4. kf.snap.regs = b.regs /\ kf.snap.keys = b.keys /\ kf.snap.pages = b.mem
    BY <2>1, <2>2, <2>3, SnapshotFields
  <2>5. /\ base \in Machine /\ base.regs = b.regs /\ base.keys = b.keys
        /\ base.hidden = b.hidden
        /\ \A p \in Pages : base.mem[p] = b.mem[p]
    <3>1. /\ base \in Machine
          /\ base.regs = kf.snap.regs /\ base.keys = kf.snap.keys
          /\ base.hidden = machine.hidden
          /\ \A p \in Pages :
               base.mem[p] = IF p \in DOMAIN kf.snap.pages THEN kf.snap.pages[p]
                                                           ELSE machine.mem[p]
      BY <1>1, <1>2, RestoredFields
    <3> HIDE DEF base
    <3>2. base.hidden = b.hidden
      BY <1>4, <3>1 DEF b
    <3> QED BY <2>2, <2>4, <3>1, <3>2
  <2> HIDE DEF base
  <2>6. base.mem = b.mem
    BY <2>2, <2>5 DEF Machine
  <2>7. base = b
    BY <2>1, <2>5, <2>6 DEF Machine
  <2> QED BY <2>7 DEF b
<1> HIDE DEF base, d, kf
<1>7. PICK e \in Nat, l \in Nat, c \in Nat : e = kf.step /\ l = steps - n /\ c = d
  BY <1>3
<1>8. e + c = l /\ l <= MaxSteps /\ l <= steps
  BY <1>1, <1>3, <1>7
<1>9. ASSUME NEW j \in 0 .. c PROVE t[j].hidden = ResetHidden
  <2>1. PICK k \in Nat : k = e + j
    OBVIOUS
  <2>2. k \in 0 .. MaxSteps /\ ~(k < e) /\ ~(k > l) /\ k - e = j
    BY <1>1, <1>8, <2>1
  <2>3. seen'[k] = IF k < kf.step THEN seen[k]
                   ELSE IF k > steps - n THEN {}
                   ELSE seen[k] \cup {t[k - kf.step]}
    BY <2>2 DEF DeepFrom, kf
  <2>4. t[j] \in seen'[k]
    BY <1>7, <2>2, <2>3
  <2> QED BY <2>2, <2>4 DEF Recorded
<1>10. ASSUME NEW f, IsTimeline(f) PROVE \A j \in 0 .. c : t[j] = f[e + j]
  <2> DEFINE T == {j \in 0 .. c : t[j] = f[e + j]}
  <2>1. 0 \in T /\ T \in SUBSET (0 .. c)
    <3>1. seen[e] = {f[e]}
      BY <1>3, <1>7, <1>10 DEF IsTimeline
    <3>2. t[0] = f[e]
      BY <1>2, <1>5, <1>6, <1>7, <3>1
    <3> QED BY <3>2
  <2>2. ASSUME NEW j \in 1 .. c, j - 1 \in T PROVE j \in T
    <3>1. t[j - 1] = f[e + (j - 1)] /\ t[j] = Program[t[j - 1]]
      BY <1>2, <1>7, <2>2
    <3>2. PICK k \in Nat : k = e + j
      OBVIOUS
    <3>3. k \in 1 .. steps /\ k - 1 = e + (j - 1)
      BY <1>1, <1>8, <3>2
    <3>4. f[k] = Program[f[k - 1]]
      BY <1>10, <3>3 DEF IsTimeline
    <3> QED BY <3>1, <3>2, <3>3, <3>4
  <2>3. T = 0 .. c
    <3> HIDE DEF T
    <3> QED BY <2>1, <2>2, Climb
  <2> QED BY <2>3
<1> QED BY <1>7, <1>9, <1>10 DEF d, kf

LEMMA RewindDeepKeeps ==
  ASSUME KeyInv, NEW n \in 1 .. MaxSteps, RewindDeep(n)
  PROVE  Keeps
<1>1. /\ setting \in Settings /\ machine \in Machine
      /\ dapRing \in Seq(Snapshot) /\ Len(dapRing) <= RingCap
      /\ steps \in 0 .. MaxSteps /\ steps \in Nat /\ MaxSteps \in Nat
      /\ keyframes \in Seq(Keyframe) /\ Len(keyframes) <= keyCap
      /\ keyCap \in KeyCaps /\ RingCap \in Nat \ {0}
      /\ seen \in [0 .. MaxSteps -> SUBSET Machine]
      /\ Placed(keyframes, steps)
  BY Parts DEF KeyInv
<1>2. /\ "tui" \in Surfaces /\ steps' = steps - n /\ shadow' = NoPages
      /\ setting' = setting /\ dapRing' = dapRing /\ keyframes' = keyframes
      /\ keyCap' = keyCap
  BY DEF RewindDeep
<1>3. PICK i \in 1 .. Len(keyframes), q \in Seq(Snapshot) :
        \E t : DeepFrom(n, i, t, q)
  BY DeepEffect
<1>4. PICK t : DeepFrom(n, i, t, q)
  BY <1>3
<1>5. steps - n \in 0 .. steps /\ steps - n \in 0 .. MaxSteps /\ steps - n \in Nat
  BY <1>1, DeepEffect
<1>6. PICK k \in Nat : k = keyframes[i].step
  BY <1>1, ElementOfSeq, KeyframeFields
<1>7. PICK d \in Nat : d = steps - n - k
  BY <1>4, <1>5, <1>6 DEF DeepFrom
<1>8. /\ k \in 0 .. steps - n /\ steps - n = k + d /\ steps' = k + d
      /\ t \in [0 .. d -> Machine]
      /\ \A j \in 1 .. d : t[j] = Program[t[j - 1]]
      /\ Len(q) = d
      /\ \A j \in 1 .. d : /\ q[j].before = t[j - 1] /\ q[j].edited = {}
                           /\ Faithful(q[j]) /\ Covers(q[j], t[j])
      /\ machine' = t[d] /\ fine' = Newest(RingCap, q)
  <2>1. k \in 0 .. steps - n
    BY <1>4, <1>6 DEF DeepFrom
  <2>2. steps - n = k + d /\ steps' = k + d
    BY <1>2, <1>5, <1>7
  <2> QED BY <1>4, <1>6, <1>7, <2>1, <2>2 DEF DeepFrom
<1>9. seen' = [j \in 0 .. MaxSteps |->
                 IF j < k THEN seen[j]
                 ELSE IF j > k + d THEN {} ELSE seen[j] \cup {t[j - k]}]
  BY <1>4, <1>6, <1>8 DEF DeepFrom
<1>10. /\ fine' \in Seq(Snapshot) /\ Len(fine') <= RingCap /\ Len(fine') <= d
       /\ Len(fine') \in Nat
       /\ \A j \in 1 .. Len(fine') : fine'[j] = q[d - Len(fine') + j]
  <2> DEFINE r == Newest(RingCap, q)
  <2>1. /\ r \in Seq(Snapshot) /\ Len(r) <= RingCap /\ Len(r) <= Len(q)
        /\ \A j \in 1 .. Len(r) : r[j] = q[Len(q) - Len(r) + j]
    BY <1>1, NewestEnd
  <2>2. fine' = r
    BY <1>8
  <2> HIDE DEF r
  <2> QED BY <1>8, <2>1, <2>2
<1>11. /\ k + d \in 0 .. MaxSteps /\ \A j \in 0 .. k + d : j \in 0 .. MaxSteps
       /\ seen' \in [0 .. MaxSteps -> SUBSET Machine]
       /\ \A j \in 0 .. k + d : seen[j] \subseteq seen'[j]
       /\ \A j \in 0 .. k + d : j < k => seen'[j] = seen[j]
       /\ \A j \in 0 .. k + d : ~(j < k) => seen'[j] = seen[j] \cup {t[j - k]}
       /\ \A j \in k + d + 1 .. MaxSteps : seen'[j] = {}
  <2>1. k + d \in 0 .. MaxSteps /\ \A j \in 0 .. k + d : j \in 0 .. MaxSteps
    BY <1>1, <1>5, <1>8
  <2>2. ASSUME NEW j \in 0 .. MaxSteps, ~(j < k), ~(j > k + d)
        PROVE  j - k \in 0 .. d /\ t[j - k] \in Machine
    <3>1. j - k \in 0 .. d
      BY <2>2
    <3> QED BY <1>8, <3>1
  <2>3. seen' \in [0 .. MaxSteps -> SUBSET Machine]
    BY <1>1, <1>9, <2>2
  <2>4. ASSUME NEW j \in 0 .. k + d
        PROVE  /\ j < k => seen'[j] = seen[j]
               /\ ~(j < k) => seen'[j] = seen[j] \cup {t[j - k]}
    <3>1. j \in 0 .. MaxSteps /\ ~(j > k + d)
      BY <2>1
    <3> QED BY <1>9, <3>1
  <2>5. ASSUME NEW j \in k + d + 1 .. MaxSteps PROVE seen'[j] = {}
    <3>1. j \in 0 .. MaxSteps /\ ~(j < k) /\ j > k + d
      OBVIOUS
    <3> QED BY <1>9, <3>1
  <2> QED BY <2>1, <2>3, <2>4, <2>5
<1>12. KeyInv'
  <2>1. TypeOK'
    <3>1. t[d] \in Machine
      BY <1>8
    <3> QED BY <1>1, <1>2, <1>5, <1>8, <1>10, <1>11, <3>1, NoPagesOK DEF TypeOK
  <2>2. Placed(keyframes', steps')
    <3>1. \A j \in 1 .. Len(keyframes) : keyframes[j].step \in Nat
      BY <1>1, ElementOfSeq, KeyframeFields
    <3>2. Interval \in Nat
      BY RewindAssumption
    <3>3. \A j \in 1 .. Len(keyframes) :
            keyframes[j].step + Interval <= steps - n
              => keyframes[j].step + Interval <= steps
      BY <1>1, <1>5, <3>1, <3>2
    <3>4. Placed(keyframes, steps - n)
      BY <1>1, <3>3 DEF Placed
    <3> QED BY <1>2, <3>4
  <2>3. Len(fine') <= steps'
    BY <1>8, <1>10
  <2> QED BY <2>1, <2>2, <2>3 DEF KeyInv
<1>13. ASSUME OneDebugger, TimeInv PROVE TimeInv'
  <2>1. "dap" \notin Surfaces /\ dapRing = <<>>
    BY <1>1, <1>2, <1>13 DEF OneDebugger, TimeInv, Unused, Surfaces
  <2>2. Chain(fine', Len(fine'), machine')
    <3>1. Chain(q, Len(q), t[d])
      <4>1. ASSUME NEW j \in 1 .. d - 1
            PROVE  Covers(q[j], q[j + 1].before) /\ q[j + 1].edited \subseteq q[j].edited
        <5>1. j \in 1 .. d /\ j + 1 \in 1 .. d /\ j + 1 - 1 = j
          OBVIOUS
        <5> QED BY <1>8, <5>1
      <4> QED BY <1>8, <4>1 DEF Chain
    <3>2. Chain(Newest(RingCap, q), Len(Newest(RingCap, q)), t[d])
      BY <1>1, <3>1, ChainNewest
    <3> QED BY <1>8, <3>2
  <2>3. RingsLead'
    BY <1>2, <2>1, <2>2, EmptyChain DEF RingsLead
  <2>4. OfTimeline(keyframes', steps', seen')
    <3>1. OfTimeline(keyframes, steps, seen)
      BY <1>13 DEF TimeInv
    <3>2. OfTimeline(keyframes, steps - n, seen')
      BY <1>1, <1>5, <1>8, <1>11, <3>1, OfTimelineStays
    <3> QED BY <1>2, <3>2
  <2>5. Unused'
    BY <1>2, <2>1 DEF Unused, Surfaces
  <2>6. Here'
    <3>1. k + d \in 0 .. k + d /\ ~(k + d < k) /\ k + d - k = d
      OBVIOUS
    <3>2. t[d] \in seen'[k + d]
      BY <1>11, <3>1
    <3> QED BY <1>8, <3>2 DEF Here
  <2> QED BY <2>3, <2>4, <2>5, <2>6 DEF TimeInv
<1>14. ASSUME OneDebugger, Recorded', TimeInv, UndoInv PROVE UndoInv'
  <2>1. /\ \A j \in 0 .. d : t[j].hidden = ResetHidden
        /\ \A f : IsTimeline(f) => \A j \in 0 .. d : t[j] = f[k + j]
    BY <1>2, <1>4, <1>5, <1>6, <1>7, <1>14, DeepLands
  <2>2. ASSUME NEW j \in 1 .. Len(fine')
        PROVE  /\ d - Len(fine') + j \in 1 .. d
               /\ fine'[j].before = t[d - Len(fine') + j - 1]
               /\ fine'[j].edited = {}
    <3>1. d - Len(fine') + j \in 1 .. d
      BY <1>10
    <3> DEFINE x == d - Len(fine') + j
    <3>2. fine'[j] = q[x] /\ x \in 1 .. d /\ x - 1 = d - Len(fine') + j - 1
      BY <1>10, <3>1
    <3> HIDE DEF x
    <3>3. q[x].before = t[x - 1] /\ q[x].edited = {}
      BY <1>8, <3>2
    <3> QED BY <3>1, <3>2, <3>3
  <2>3. HiddenStays'
    <3>1. \A j \in 1 .. Len(fine') : fine'[j].before.hidden = ResetHidden
      <4>1. ASSUME NEW j \in 1 .. Len(fine')
            PROVE  d - Len(fine') + j - 1 \in 0 .. d
        BY <2>2
      <4> QED BY <2>1, <2>2, <4>1
    <3>2. machine'.hidden = ResetHidden
      BY <1>8, <2>1
    <3> QED BY <1>2, <1>14, <3>1, <3>2 DEF UndoInv, HiddenStays, RingHidden
  <2>4. Whole(keyframes')
    BY <1>2, <1>14 DEF UndoInv
  <2>5. OneRun'
    <3> SUFFICES ASSUME HostActs = {} PROVE \E f : IsTimeline(f)'
      BY <1>2 DEF OneRun, HostActs
    <3>1. PICK f : IsTimeline(f)
      BY <1>2, <1>14 DEF UndoInv, OneRun
    <3>2. \A j \in 0 .. d : t[j] = f[k + j]
      BY <2>1, <3>1
    <3>3. \A j \in 0 .. k + d : j \in 0 .. steps
      BY <1>1, <1>5, <1>8
    <3>4. PICK g : g \in [0 .. k + d -> Machine] /\ \A j \in 0 .. k + d : g[j] = f[j]
      <4> DEFINE h == [j \in 0 .. k + d |-> f[j]]
      <4>1. h \in [0 .. k + d -> Machine] /\ \A j \in 0 .. k + d : h[j] = f[j]
        BY <3>1, <3>3 DEF IsTimeline
      <4> HIDE DEF h
      <4> QED BY <4>1
    <3>5. g \in [0 .. steps' -> Machine] /\ g[steps'] = machine'
      <4>1. g[k + d] = t[d]
        BY <3>2, <3>4
      <4> QED BY <1>8, <3>4, <4>1
    <3>6. \A j \in 1 .. steps' : g[j] = Program[g[j - 1]]
      <4>1. \A j \in 1 .. k + d : j \in 1 .. steps /\ j \in 0 .. k + d /\ j - 1 \in 0 .. k + d
        BY <1>1, <1>5, <1>8
      <4>2. \A j \in 1 .. k + d : g[j] = Program[g[j - 1]]
        BY <3>1, <3>4, <4>1 DEF IsTimeline
      <4> QED BY <1>8, <4>2
    <3>7. \A j \in 0 .. steps' : seen'[j] = {g[j]}
      <4>1. ASSUME NEW j \in 0 .. k + d PROVE seen'[j] = {g[j]}
        <5>1. seen[j] = {f[j]} /\ g[j] = f[j]
          BY <3>1, <3>3, <3>4 DEF IsTimeline
        <5>2. CASE j < k
          BY <1>11, <5>1, <5>2
        <5>3. CASE ~(j < k)
          <6>1. j - k \in 0 .. d /\ k + (j - k) = j
            BY <5>3
          <6>2. t[j - k] = f[j]
            BY <3>2, <6>1
          <6> QED BY <1>11, <5>1, <5>3, <6>2
        <5> QED BY <5>2, <5>3
      <4> QED BY <1>8, <4>1
    <3>8. \A j \in steps' + 1 .. MaxSteps : seen'[j] = {}
      BY <1>8, <1>11
    <3>9. \A j \in 1 .. Len(fine') :
            /\ fine'[j].before = g[steps' - Len(fine') + j - 1]
            /\ fine'[j].edited = {}
      <4> SUFFICES ASSUME NEW j \in 1 .. Len(fine')
                   PROVE  fine'[j].before = g[steps' - Len(fine') + j - 1]
        BY <2>2
      <4> DEFINE l == d - Len(fine') + j - 1
      <4>1. l \in 0 .. d /\ k + l \in 0 .. k + d /\ steps' - Len(fine') + j - 1 = k + l
        BY <1>8, <1>10, <2>2
      <4>2. fine'[j].before = t[l]
        BY <2>2
      <4> HIDE DEF l
      <4> QED BY <3>2, <3>4, <4>1, <4>2
    <3>10. IsTimeline(g)'
      BY <3>5, <3>6, <3>7, <3>8, <3>9 DEF IsTimeline
    <3> QED BY <3>10
  <2> QED BY <2>3, <2>4, <2>5 DEF UndoInv
<1> QED BY <1>12, <1>13, <1>14 DEF Keeps

LEMMA ResetKeeps ==
  ASSUME KeyInv, Reset
  PROVE  Keeps
<1>1. /\ setting \in Settings /\ machine \in Machine /\ shadow \in PageSets
      /\ dapRing \in Seq(Snapshot) /\ Len(dapRing) <= RingCap
      /\ MaxSteps \in Nat
      /\ keyCap \in KeyCaps /\ keyCap \in Nat \ {0} /\ RingCap \in Nat \ {0}
  BY Parts DEF KeyInv
<1>2. /\ "tui" \in Surfaces
      /\ fine' = <<>> /\ keyframes' = <<>> /\ steps' = 0
      /\ setting' = setting /\ shadow' = shadow /\ dapRing' = dapRing
      /\ keyCap' = keyCap
  BY DEF Reset
<1>3. machine' \in Machine /\ machine'.hidden = ResetHidden /\ machine'.mem = machine.mem
  <2>1. machine' = [machine EXCEPT !.regs = ResetRegs, !.hidden = ResetHidden]
    BY DEF Reset
  <2> QED BY <1>1, <2>1, RewindAssumption DEF Machine
<1>4. /\ seen' \in [0 .. MaxSteps -> SUBSET Machine]
      /\ seen'[0] = {machine'} /\ \A k \in 1 .. MaxSteps : seen'[k] = {}
  <2>1. seen' = [k \in 0 .. MaxSteps |-> IF k = 0 THEN {machine'} ELSE {}]
    BY DEF Reset
  <2>2. 0 \in 0 .. MaxSteps /\ \A k \in 1 .. MaxSteps : k \in 0 .. MaxSteps /\ k # 0
    BY <1>1
  <2> QED BY <1>3, <2>1, <2>2
<1>5. KeyInv'
  <2>1. TypeOK'
    <3>1. fine' \in Seq(Snapshot) /\ Len(fine') <= RingCap /\ steps' \in 0 .. MaxSteps
          /\ keyframes' \in Seq(Keyframe) /\ Len(keyframes') <= keyCap'
      BY <1>1, <1>2, EmptySeq
    <3> QED BY <1>1, <1>2, <1>3, <1>4, <3>1 DEF TypeOK
  <2>2. Placed(keyframes', steps') /\ Len(fine') <= steps'
    BY <1>2 DEF Placed
  <2> QED BY <2>1, <2>2 DEF KeyInv
<1>6. ASSUME OneDebugger, TimeInv PROVE TimeInv'
  <2>1. "dap" \notin Surfaces /\ dapRing = <<>>
    BY <1>1, <1>2, <1>6 DEF OneDebugger, TimeInv, Unused, Surfaces
  <2>2. RingsLead'
    BY <1>2, <2>1, EmptyChain DEF RingsLead
  <2>3. OfTimeline(keyframes', steps', seen')
    BY <1>2 DEF OfTimeline
  <2>4. Unused'
    BY <1>2, <2>1 DEF Unused, Surfaces
  <2>5. Here'
    BY <1>2, <1>4 DEF Here
  <2> QED BY <2>2, <2>3, <2>4, <2>5 DEF TimeInv
<1>7. ASSUME OneDebugger, Recorded', TimeInv, UndoInv PROVE UndoInv'
  <2>1. HiddenStays'
    BY <1>2, <1>3, <1>7 DEF UndoInv, HiddenStays, RingHidden, HiddenIn
  <2>2. Whole(keyframes')
    BY <1>2 DEF Whole
  <2>3. OneRun'
    <3>1. PICK m : m = machine'
      OBVIOUS
    <3>2. PICK g : g = [k \in 0 .. 0 |-> m]
      OBVIOUS
    <3>3. g \in [0 .. 0 -> Machine] /\ g[0] = machine'
      BY <1>3, <3>1, <3>2
    <3>4. \A k \in 0 .. 0 : k = 0
      OBVIOUS
    <3>5. /\ \A k \in 1 .. 0 : FALSE
          /\ \A i \in 1 .. Len(fine') : FALSE
      BY <1>2
    <3>6. 0 + 1 = 1
      OBVIOUS
    <3>7. IsTimeline(g)'
      BY <1>2, <1>4, <3>3, <3>4, <3>5, <3>6 DEF IsTimeline
    <3> QED BY <3>7 DEF OneRun
  <2> QED BY <2>1, <2>2, <2>3 DEF UndoInv
<1> QED BY <1>5, <1>6, <1>7 DEF Keeps

LEMMA SetBudgetKeeps ==
  ASSUME KeyInv, NEW cap \in KeyCaps, SetBudget(cap)
  PROVE  Keeps
<1>1. /\ setting \in Settings /\ machine \in Machine
      /\ steps \in 0 .. MaxSteps /\ steps \in Nat
      /\ seen \in [0 .. MaxSteps -> SUBSET Machine]
      /\ cap \in Nat \ {0}
  BY Parts, RewindAssumption DEF KeyInv
<1>2. /\ "tui" \in Surfaces /\ keyCap' = cap /\ keyframes' = Seeded(<<>>)
      /\ setting' = setting /\ machine' = machine /\ shadow' = shadow
      /\ fine' = fine /\ dapRing' = dapRing /\ steps' = steps /\ seen' = seen
  BY DEF SetBudget
<1> DEFINE r == Seeded(<<>>)
<1>3. /\ r \in Seq(Keyframe) /\ Len(r) <= cap /\ Placed(r, steps) /\ Whole(r)
      /\ (steps = 0 => machine \in seen[0]) => OfTimeline(r, steps, seen)
      /\ machine.hidden = ResetHidden => HiddenIn(r)
  <2> DEFINE a == <<>>
  <2>1. a \in Seq(Keyframe) /\ Len(a) <= cap
    BY <1>1, EmptySeq
  <2>2. Placed(a, steps) /\ Whole(a) /\ OfTimeline(a, steps, seen) /\ HiddenIn(a)
    BY DEF Placed, Whole, OfTimeline, HiddenIn
  <2> HIDE DEF a
  <2>3. /\ Seeded(a) \in Seq(Keyframe) /\ Len(Seeded(a)) <= cap
        /\ Placed(Seeded(a), steps) /\ Whole(Seeded(a))
        /\ (steps = 0 => machine \in seen[0]) => OfTimeline(Seeded(a), steps, seen)
        /\ machine.hidden = ResetHidden => HiddenIn(Seeded(a))
    BY <1>1, <2>1, <2>2, SeededKeyframes
  <2> QED BY <2>3 DEF a
<1> HIDE DEF r
<1>4. keyframes' = r
  BY <1>2 DEF r
<1>5. KeyInv'
  BY <1>2, <1>3, <1>4 DEF KeyInv, TypeOK
<1>6. ASSUME TimeInv PROVE TimeInv'
  <2>1. OfTimeline(keyframes', steps', seen')
    BY <1>2, <1>3, <1>4, <1>6 DEF TimeInv, Here
  <2>2. Unused' /\ Here' /\ RingsLead'
    BY <1>2, <1>6 DEF TimeInv, Unused, Here, RingsLead, Surfaces
  <2> QED BY <2>1, <2>2 DEF TimeInv
<1>7. ASSUME UndoInv PROVE UndoInv'
  <2>1. HiddenStays' /\ Whole(keyframes')
    BY <1>2, <1>3, <1>4, <1>7 DEF UndoInv, HiddenStays, RingHidden
  <2>2. OneRun'
    BY <1>2, <1>7 DEF UndoInv, OneRun, IsTimeline, HostActs, Surfaces
  <2> QED BY <2>1, <2>2 DEF UndoInv
<1> QED BY <1>5, <1>6, <1>7 DEF Keeps

-------------------------------------------------------------------------------
(* What the user does between steps. *)

LEMMA Remembered ==
  ASSUME seen \in [0 .. MaxSteps -> SUBSET Machine], steps \in 0 .. MaxSteps,
         NEW m \in Machine
  PROVE  LET s == Remember(steps, m) IN
         /\ s \in [0 .. MaxSteps -> SUBSET Machine]
         /\ \A k \in 0 .. MaxSteps : seen[k] \subseteq s[k]
         /\ "tui" \in Surfaces => m \in s[steps]
BY DEF Remember

(* An act of the user's that leaves the keyframes and steps alone.         *)
LEMMA ActKeeps ==
  ASSUME KeyInv, HostActs # {},
         machine' \in Machine, machine'.hidden = machine.hidden,
         shadow' \in PageSets, seen' = Remember(steps, machine'),
         UNCHANGED <<setting, steps, keyframes, keyCap>>,
         fine' \in Seq(Snapshot), Len(fine') = Len(fine),
         dapRing' \in Seq(Snapshot), Len(dapRing') = Len(dapRing),
         \A i \in 1 .. Len(fine) : fine'[i].before = fine[i].before,
         \A i \in 1 .. Len(dapRing) : dapRing'[i].before = dapRing[i].before,
         RingsLead => RingsLead'
  PROVE  Keeps
<1>1. /\ setting \in Settings /\ machine \in Machine
      /\ fine \in Seq(Snapshot) /\ Len(fine) \in Nat /\ Len(fine) <= RingCap
      /\ dapRing \in Seq(Snapshot) /\ Len(dapRing) <= RingCap
      /\ Len(dapRing) \in Nat
      /\ steps \in 0 .. MaxSteps /\ steps \in Nat /\ MaxSteps \in Nat
      /\ keyframes \in Seq(Keyframe) /\ Len(keyframes) <= keyCap
      /\ keyCap \in KeyCaps
      /\ seen \in [0 .. MaxSteps -> SUBSET Machine]
      /\ Placed(keyframes, steps) /\ Len(fine) <= steps
  BY Parts DEF KeyInv
<1>2. /\ setting' = setting /\ steps' = steps /\ keyframes' = keyframes
      /\ keyCap' = keyCap
  OBVIOUS
<1>3. /\ seen' \in [0 .. MaxSteps -> SUBSET Machine]
      /\ \A k \in 0 .. MaxSteps : seen[k] \subseteq seen'[k]
      /\ "tui" \in Surfaces => machine' \in seen'[steps]
  <2>1. PICK m \in Machine : m = machine'
    OBVIOUS
  <2> DEFINE s == Remember(steps, m)
  <2>2. /\ s \in [0 .. MaxSteps -> SUBSET Machine]
        /\ \A k \in 0 .. MaxSteps : seen[k] \subseteq s[k]
        /\ "tui" \in Surfaces => m \in s[steps]
    BY <1>1, Remembered
  <2>3. seen' = s
    BY <2>1
  <2> HIDE DEF s
  <2> QED BY <2>1, <2>2, <2>3
<1>4. KeyInv'
  BY <1>1, <1>2, <1>3 DEF KeyInv, TypeOK
<1>5. ASSUME TimeInv PROVE TimeInv'
  <2>1. OfTimeline(keyframes', steps', seen')
    <3>1. OfTimeline(keyframes, steps, seen)
      BY <1>5 DEF TimeInv
    <3>2. steps \in 0 .. steps /\ \A k \in 0 .. steps : seen[k] \subseteq seen'[k]
      BY <1>1, <1>3
    <3>3. OfTimeline(keyframes, steps, seen')
      BY <1>1, <3>1, <3>2, OfTimelineStays
    <3> QED BY <1>2, <3>3
  <2>2. Unused'
    <3>1. "tui" \notin Surfaces => fine' = <<>>
      BY <1>5, EmptySeq DEF TimeInv, Unused
    <3>2. "dap" \notin Surfaces => dapRing' = <<>>
      BY <1>5, EmptySeq DEF TimeInv, Unused
    <3> QED BY <1>2, <1>5, <3>1, <3>2 DEF TimeInv, Unused, Surfaces
  <2>3. Here' /\ RingsLead'
    BY <1>2, <1>3, <1>5 DEF TimeInv, Here, Surfaces
  <2> QED BY <2>1, <2>2, <2>3 DEF TimeInv
<1>6. ASSUME UndoInv PROVE UndoInv'
  <2>1. HiddenStays'
    BY <1>2, <1>6 DEF UndoInv, HiddenStays, RingHidden
  <2>2. Whole(keyframes')
    BY <1>2, <1>6 DEF UndoInv
  <2>3. OneRun'
    BY <1>2 DEF OneRun, HostActs
  <2> QED BY <2>1, <2>2, <2>3 DEF UndoInv
<1> QED BY <1>4, <1>5, <1>6 DEF Keeps

LEMMA PushKeyKeeps ==
  ASSUME KeyInv, NEW k \in Keys, PushKey(k)
  PROVE  Keeps
<1>1. /\ machine \in Machine /\ shadow \in PageSets
      /\ fine \in Seq(Snapshot) /\ dapRing \in Seq(Snapshot)
  BY Parts DEF KeyInv
<1>2. /\ machine' = [machine EXCEPT !.keys = k] /\ seen' = Remember(steps, machine')
      /\ setting' = setting /\ shadow' = shadow /\ fine' = fine /\ steps' = steps
      /\ keyframes' = keyframes /\ keyCap' = keyCap /\ dapRing' = dapRing
      /\ HostActs # {}
  BY DEF PushKey, tuiVars
<1>3. /\ machine' \in Machine /\ machine'.hidden = machine.hidden
      /\ machine'.mem = machine.mem
  BY <1>1, <1>2 DEF Machine
<1>4. RingsLead => RingsLead'
  BY <1>2, <1>3, ChainSameMemory DEF RingsLead
<1> QED BY <1>1, <1>2, <1>3, <1>4, ActKeeps

LEMMA PokeKeeps ==
  ASSUME KeyInv, NEW p \in Pages, NEW b \in Bytes, Poke(p, b)
  PROVE  Keeps
<1>1. /\ machine \in Machine /\ shadow \in PageSets
      /\ fine \in Seq(Snapshot) /\ dapRing \in Seq(Snapshot)
  BY Parts DEF KeyInv
<1>2. /\ machine' = [machine EXCEPT !.mem[p] = b] /\ seen' = Remember(steps, machine')
      /\ shadow' = Touched(shadow, machine, machine')
      /\ fine' = Edited(fine, p) /\ dapRing' = Edited(dapRing, p)
      /\ setting' = setting /\ steps' = steps
      /\ keyframes' = keyframes /\ keyCap' = keyCap
      /\ HostActs # {}
  BY DEF Poke
<1>3. /\ machine' \in Machine /\ machine'.hidden = machine.hidden
      /\ \A x \in Pages \ {p} : machine'.mem[x] = machine.mem[x]
  BY <1>1, <1>2 DEF Machine
<1>4. shadow' \in PageSets
  BY <1>1, <1>2, <1>3, TouchedPages
<1>5. ASSUME NEW q \in Seq(Snapshot)
      PROVE  /\ Edited(q, p) \in Seq(Snapshot) /\ Len(Edited(q, p)) = Len(q)
             /\ \A i \in 1 .. Len(q) : Edited(q, p)[i].before = q[i].before
             /\ Chain(q, Len(q), machine)
                  => Chain(Edited(q, p), Len(Edited(q, p)), machine')
  BY <1>1, <1>3, ChainEdited, EditedFields
<1>6. RingsLead => RingsLead'
  BY <1>1, <1>2, <1>5 DEF RingsLead
<1> QED BY <1>1, <1>2, <1>3, <1>4, <1>5, <1>6, ActKeeps

-------------------------------------------------------------------------------
(* The DAP server. *)

(* A step of the server that leaves the TUI's variables alone, taken where *)
(* there is no TUI.                                                        *)
LEMMA DapKeeps ==
  ASSUME KeyInv, "dap" \in Surfaces,
         machine' \in Machine, shadow' = NoPages,
         UNCHANGED <<setting, tuiVars, seen>>,
         dapRing' \in Seq(Snapshot), Len(dapRing') <= RingCap,
         TimeInv => Chain(dapRing', Len(dapRing'), machine'),
         UndoInv => RingHidden(dapRing')
  PROVE  Keeps
<1>1. /\ setting \in Settings /\ setting' = setting /\ fine' = fine
      /\ steps' = steps /\ keyframes' = keyframes /\ keyCap' = keyCap /\ seen' = seen
  BY Parts DEF KeyInv, tuiVars
<1>2. KeyInv'
  BY <1>1, NoPagesOK DEF KeyInv, TypeOK
<1>3. ASSUME OneDebugger PROVE "tui" \notin Surfaces
  BY <1>1, <1>3 DEF OneDebugger, Surfaces
<1>4. ASSUME OneDebugger, TimeInv PROVE TimeInv'
  <2>1. fine = <<>> /\ "tui" \notin Surfaces
    BY <1>3, <1>4 DEF TimeInv, Unused
  <2>2. RingsLead'
    BY <1>1, <1>4, <2>1, EmptyChain DEF RingsLead
  <2>3. Unused' /\ Here' /\ OfTimeline(keyframes', steps', seen')
    BY <1>1, <1>4, <2>1 DEF TimeInv, Unused, Here, Surfaces
  <2> QED BY <2>2, <2>3 DEF TimeInv
<1>5. ASSUME OneDebugger, Recorded', UndoInv PROVE UndoInv'
  <2>1. HiddenStays' /\ Whole(keyframes')
    BY <1>1, <1>5 DEF UndoInv, HiddenStays, RingHidden, Recorded
  <2>2. OneRun'
    BY <1>1, <1>3, <1>5 DEF OneRun, Surfaces
  <2> QED BY <2>1, <2>2 DEF UndoInv
<1> QED BY <1>2, <1>4, <1>5 DEF Keeps

LEMMA DapStepEffect ==
  ASSUME machine \in Machine, NEW n \in 1 .. MaxSweep, DapStep(n)
  PROVE  \E s \in Snapshot :
           /\ s.before = machine /\ s.edited = {}
           /\ Faithful(s) /\ Covers(s, Trace(machine, n)[n])
           /\ machine' = Trace(machine, n)[n]
           /\ dapRing' = Newest(RingCap, Append(dapRing, s))
<1> DEFINE touched[i \in 0 .. n] ==
             IF i = 0 THEN NoPages
             ELSE Touched(touched[i - 1], Trace(machine, n)[i - 1],
                          Trace(machine, n)[i])
           s == SnapshotOf(machine, touched[n])
<1>1. n \in Nat
  BY RewindAssumption
<1>2. /\ s \in Snapshot /\ s.before = machine /\ s.edited = {}
      /\ Faithful(s) /\ Covers(s, Trace(machine, n)[n])
  BY <1>1, SweepCovered
<1>3. /\ machine' = Trace(machine, n)[n]
      /\ dapRing' = Newest(RingCap, Append(dapRing, s))
  BY DEF DapStep
<1> HIDE DEF s, touched
<1> QED BY <1>2, <1>3

LEMMA DapStepKeeps ==
  ASSUME KeyInv, NEW n \in 1 .. MaxSweep, DapStep(n)
  PROVE  Keeps
<1>1. /\ machine \in Machine /\ dapRing \in Seq(Snapshot) /\ Len(dapRing) \in Nat
      /\ RingCap \in Nat \ {0} /\ n \in Nat
  BY Parts, RewindAssumption DEF KeyInv
<1>2. PICK s \in Snapshot :
           /\ s.before = machine /\ s.edited = {}
           /\ Faithful(s) /\ Covers(s, Trace(machine, n)[n])
           /\ machine' = Trace(machine, n)[n]
           /\ dapRing' = Newest(RingCap, Append(dapRing, s))
  BY <1>1, DapStepEffect
<1> DEFINE r == Newest(RingCap, Append(dapRing, s))
           new == Trace(machine, n)[n]
<1>3. new \in Machine
  <2> DEFINE t == Trace(machine, n)
  <2>1. /\ t \in [0 .. n -> Machine] /\ t[0] = machine
        /\ \A i \in 1 .. n : t[i] = Program[t[i - 1]]
    BY <1>1, TraceSteps
  <2> HIDE DEF t
  <2>2. n \in 0 .. n
    BY <1>1
  <2>3. t[n] \in Machine
    BY <2>1, <2>2
  <2> QED BY <2>3 DEF t
<1>4. machine' = new /\ dapRing' = r
  BY <1>2
<1>5. Covers(s, new)
  BY <1>2
<1> HIDE DEF new
<1>6. /\ r \in Seq(Snapshot) /\ Len(r) <= RingCap
      /\ Len(r) \in 1 .. Len(dapRing) + 1 /\ r[Len(r)] = s
      /\ \A i \in 1 .. Len(r) - 1 : r[i] = dapRing[Len(dapRing) + 1 - Len(r) + i]
  BY <1>1, PushedRing
<1>7. ASSUME TimeInv PROVE Chain(r, Len(r), new)
  <2>1. Chain(dapRing, Len(dapRing), machine)
    BY <1>7 DEF TimeInv, RingsLead
  <2> QED BY <1>1, <1>2, <1>3, <1>5, <2>1, ChainPush
<1> HIDE DEF r
<1>8. ASSUME UndoInv PROVE RingHidden(r)
  <2>1. machine.hidden = ResetHidden /\ RingHidden(dapRing)
    BY <1>8 DEF UndoInv, HiddenStays
  <2>2. ASSUME NEW i \in 1 .. Len(r) PROVE r[i].before.hidden = ResetHidden
    <3>1. CASE i = Len(r)
      BY <1>2, <1>6, <2>1, <3>1
    <3>2. CASE i # Len(r)
      <4> DEFINE j == Len(dapRing) + 1 - Len(r) + i
      <4>1. i \in 1 .. Len(r) - 1 /\ j \in 1 .. Len(dapRing)
        BY <1>1, <1>6, <3>2
      <4>2. r[i] = dapRing[j]
        BY <1>6, <4>1
      <4> HIDE DEF j
      <4> QED BY <2>1, <4>1, <4>2 DEF RingHidden
    <3> QED BY <3>1, <3>2
  <2> QED BY <2>2 DEF RingHidden
<1>9. "dap" \in Surfaces /\ shadow' = NoPages /\ UNCHANGED <<setting, tuiVars, seen>>
  BY DEF DapStep
<1> QED BY <1>3, <1>4, <1>6, <1>7, <1>8, <1>9, DapKeeps

LEMMA DapStepBackKeeps ==
  ASSUME KeyInv, DapStepBack
  PROVE  Keeps /\ (TimeInv /\ UndoInv => Undone(machine', Top(dapRing)))
<1>1. /\ dapRing \in Seq(Snapshot) /\ Len(dapRing) \in Nat /\ machine \in Machine
      /\ Len(dapRing) <= RingCap /\ RingCap \in Nat
  BY Parts DEF KeyInv
<1>2. Len(dapRing) \in 1 .. Len(dapRing) /\ 1 \in 0 .. Len(dapRing)
  <2>1. Len(dapRing) # 0
    BY <1>1, EmptySeq DEF DapStepBack
  <2> QED BY <1>1, <2>1
<1>3. Top(dapRing) \in Snapshot /\ Top(dapRing) = dapRing[Len(dapRing)]
  BY <1>1, <1>2, ElementOfSeq DEF Top
<1>4. machine' = Restored(machine, dapRing[Len(dapRing)]) /\ dapRing' = Popped(dapRing, 1)
  BY DEF DapStepBack, Top
<1>5. machine' \in Machine /\ machine'.hidden = machine.hidden
  BY <1>1, <1>3, <1>4, RestoredFields
<1>6. /\ dapRing' \in Seq(Snapshot) /\ Len(dapRing') = Len(dapRing) - 1
      /\ \A i \in 1 .. Len(dapRing) - 1 : dapRing'[i] = dapRing[i]
  BY <1>1, <1>2, <1>4, PoppedFront
<1>7. ASSUME TimeInv PROVE Chain(dapRing', Len(dapRing'), machine')
  <2>1. Chain(dapRing, Len(dapRing) - 1, machine')
    BY <1>1, <1>2, <1>4, <1>7, UndoOne DEF TimeInv, RingsLead
  <2>2. PICK m \in Machine : m = machine'
    BY <1>5
  <2>3. Chain(Popped(dapRing, 1), Len(Popped(dapRing, 1)), m)
    BY <1>1, <1>2, <2>1, <2>2, ChainPopped
  <2> QED BY <1>4, <2>2, <2>3
<1>8. ASSUME TimeInv, UndoInv PROVE Undone(machine', dapRing[Len(dapRing)])
  <2>1. machine.hidden = dapRing[Len(dapRing)].before.hidden
    BY <1>2, <1>8, HiddenInRing
  <2> QED BY <1>1, <1>2, <1>4, <1>8, <2>1, UndoOne DEF TimeInv, RingsLead
<1>9. ASSUME UndoInv PROVE RingHidden(dapRing')
  <2>1. \A i \in 1 .. Len(dapRing) - 1 : i \in 1 .. Len(dapRing)
    BY <1>1
  <2> QED BY <1>6, <1>9, <2>1 DEF UndoInv, HiddenStays, RingHidden
<1>10. /\ "dap" \in Surfaces /\ shadow' = NoPages
       /\ UNCHANGED <<setting, tuiVars, seen>> /\ Len(dapRing') <= RingCap
  BY <1>1, <1>6 DEF DapStepBack
<1>11. Keeps
  BY <1>5, <1>6, <1>7, <1>9, <1>10, DapKeeps
<1> QED BY <1>3, <1>8, <1>11

-------------------------------------------------------------------------------
(* The theorems. *)

LEMMA InitKeeps ==
  ASSUME Init
  PROVE  KeyInv /\ TimeInv /\ UndoInv
<1>1. machine \in Machine /\ machine.hidden = ResetHidden
  <2>1. ResetRegs \in Regs /\ ResetHidden \in Hidden /\ Image \in [Pages -> Bytes]
    BY RewindAssumption
  <2> QED BY <2>1 DEF Init, Machine
<1>2. /\ RingCap \in Nat \ {0} /\ keyCap \in Nat \ {0} /\ MaxSteps \in Nat
      /\ keyCap \in KeyCaps
  BY RewindAssumption DEF Init
<1>3. /\ fine = <<>> /\ dapRing = <<>> /\ steps = 0 /\ keyframes = <<>>
      /\ seen = [k \in 0 .. MaxSteps |-> IF k = 0 THEN {machine} ELSE {}]
      /\ setting \in Settings /\ shadow = NoPages
  BY DEF Init
<1>4. /\ seen \in [0 .. MaxSteps -> SUBSET Machine]
      /\ seen[0] = {machine} /\ \A k \in 1 .. MaxSteps : seen[k] = {}
  <2>1. 0 \in 0 .. MaxSteps /\ \A k \in 1 .. MaxSteps : k \in 0 .. MaxSteps /\ k # 0
    BY <1>2
  <2> QED BY <1>1, <1>3, <2>1
<1>5. KeyInv
  <2>1. fine \in Seq(Snapshot) /\ Len(fine) <= RingCap /\ steps \in 0 .. MaxSteps
        /\ dapRing \in Seq(Snapshot) /\ Len(dapRing) <= RingCap
        /\ keyframes \in Seq(Keyframe) /\ Len(keyframes) <= keyCap
    BY <1>2, <1>3, EmptySeq
  <2>2. TypeOK
    BY <1>1, <1>2, <1>3, <1>4, <2>1, NoPagesOK DEF TypeOK
  <2> QED BY <1>3, <2>2 DEF KeyInv, Placed
<1>6. TimeInv
  <2>1. RingsLead
    BY <1>3, EmptyChain DEF RingsLead
  <2> QED BY <1>3, <1>4, <2>1 DEF TimeInv, Unused, Here, OfTimeline
<1>7. UndoInv
  <2>1. OneRun
    <3>1. PICK g : g = [k \in 0 .. 0 |-> machine]
      OBVIOUS
    <3>2. g \in [0 .. 0 -> Machine] /\ g[0] = machine
      BY <1>1, <3>1
    <3>3. \A k \in 0 .. 0 : k = 0
      OBVIOUS
    <3>4. (\A k \in 1 .. 0 : FALSE) /\ (\A i \in 1 .. Len(fine) : FALSE) /\ 0 + 1 = 1
      BY <1>3
    <3>5. IsTimeline(g)
      BY <1>3, <1>4, <3>2, <3>3, <3>4 DEF IsTimeline
    <3> QED BY <3>5 DEF OneRun
  <2> QED BY <1>1, <1>3, <2>1 DEF UndoInv, HiddenStays, RingHidden, HiddenIn, Whole
<1> QED BY <1>5, <1>6, <1>7

LEMMA Stuttered ==
  ASSUME KeyInv, UNCHANGED vars
  PROVE  Keeps
<1>1. /\ setting' = setting /\ machine' = machine /\ shadow' = shadow
      /\ fine' = fine /\ steps' = steps /\ keyframes' = keyframes
      /\ keyCap' = keyCap /\ dapRing' = dapRing /\ seen' = seen
  BY DEF vars, tuiVars
<1>2. KeyInv'
  BY <1>1 DEF KeyInv, TypeOK
<1>3. TimeInv => TimeInv'
  BY <1>1 DEF TimeInv, Unused, Here, RingsLead, Surfaces
<1>4. HiddenStays => HiddenStays'
  BY <1>1 DEF HiddenStays, RingHidden
<1>5. OneRun => OneRun'
  BY <1>1 DEF OneRun, IsTimeline, HostActs, Surfaces
<1>6. UndoInv => UndoInv'
  BY <1>1, <1>4, <1>5 DEF UndoInv
<1> QED BY <1>2, <1>3, <1>6 DEF Keeps

LEMMA NextKeeps ==
  ASSUME KeyInv, [Next]_vars
  PROVE  Keeps
<1>1. CASE Step
  BY <1>1, StepKeeps
<1>2. CASE Undo
  BY <1>2, UndoKeeps
<1>3. CASE Reset
  BY <1>3, ResetKeeps
<1>4. ASSUME NEW n \in 1 .. MaxSteps, RewindBy(n) PROVE Keeps
  BY <1>4, RewindShortKeeps, RewindDeepKeeps DEF RewindBy
<1>5. ASSUME NEW cap \in KeyCaps, SetBudget(cap) PROVE Keeps
  BY <1>5, SetBudgetKeeps
<1>6. ASSUME NEW k \in Keys, PushKey(k) PROVE Keeps
  BY <1>6, PushKeyKeeps
<1>7. ASSUME NEW p \in Pages, NEW b \in Bytes, Poke(p, b) PROVE Keeps
  BY <1>7, PokeKeeps
<1>8. ASSUME NEW n \in 1 .. MaxSweep, DapStep(n) PROVE Keeps
  BY <1>8, DapStepKeeps
<1>9. CASE DapStepBack
  BY <1>9, DapStepBackKeeps
<1>10. CASE UNCHANGED vars
  BY <1>10, Stuttered
<1> QED BY <1>1, <1>2, <1>3, <1>4, <1>5, <1>6, <1>7, <1>8, <1>9, <1>10 DEF Next

(* No snapshot, keyframe or history entry is ever malformed, the rings     *)
(* stay within their capacities, and StepCount within its bound.           *)
THEOREM RewindTypeCorrect == Spec => []TypeOK
<1>1. Init => KeyInv
  BY InitKeeps
<1>2. KeyInv /\ [Next]_vars => KeyInv'
  BY NextKeeps DEF Keeps
<1>3. KeyInv => TypeOK
  BY DEF KeyInv
<1> QED BY <1>1, <1>2, <1>3, PTL DEF Spec

(* Behind every keyframe that is an interval back or more there is the     *)
(* next one: eviction takes the oldest first, a change of budget starts    *)
(* over, and going back leaves a timeline's keyframes before the new ones. *)
(* Whoever drives the machine.                                             *)
THEOREM ReplayIsBounded == Spec => []ReplayBounded
<1>1. Init => KeyInv
  BY InitKeeps
<1>2. KeyInv /\ [Next]_vars => KeyInv'
  BY NextKeeps DEF Keeps
<1>3. ASSUME KeyInv PROVE ReplayBounded
  <2> SUFFICES ASSUME NEW t \in 0 .. MaxSteps, t < steps, Candidates(t) # {}
               PROVE  t - Nearest(t).step < Interval
    BY DEF ReplayBounded
  <2>1. /\ keyframes \in Seq(Keyframe) /\ steps \in Nat /\ t \in Nat
        /\ Placed(keyframes, steps)
    BY <1>3, Parts DEF KeyInv
  <2>2. PICK i \in 1 .. Len(keyframes) :
          /\ Nearest(t) = keyframes[i] /\ keyframes[i].step <= t
          /\ \A j \in i + 1 .. Len(keyframes) : keyframes[j].step > t
    BY <2>1, NearestIs
  <2>3. keyframes[i].step \in Nat /\ Interval \in Nat \ {0}
    BY <2>1, ElementOfSeq, KeyframeFields, RewindAssumption
  <2>4. ~(keyframes[i].step + Interval <= t)
    <3> SUFFICES ASSUME keyframes[i].step + Interval <= t PROVE FALSE
      OBVIOUS
    <3>1. keyframes[i].step + Interval <= steps
      BY <2>1, <2>3
    <3>2. PICK j \in i + 1 .. Len(keyframes) :
            keyframes[j].step = keyframes[i].step + Interval
      BY <2>1, <3>1 DEF Placed
    <3>3. keyframes[j].step > t
      BY <2>2
    <3> QED BY <2>1, <2>3, <3>2, <3>3
  <2> QED BY <2>1, <2>2, <2>3, <2>4
<1> QED BY <1>1, <1>2, <1>3, PTL DEF Spec

(* One debugger at a time: a rewind never starts from a keyframe of a      *)
(* timeline that was left.                                                 *)
THEOREM KeyframesAreOfTheTimeline ==
  Spec /\ []OneDebugger => []NearestOnTimeline
<1>1. Init => KeyInv /\ TimeInv
  BY InitKeeps
<1>2. OneDebugger /\ KeyInv /\ TimeInv /\ [Next]_vars => KeyInv' /\ TimeInv'
  BY NextKeeps DEF Keeps
<1>3. ASSUME KeyInv, TimeInv PROVE NearestOnTimeline
  <2> SUFFICES ASSUME NEW t \in 0 .. MaxSteps, t < steps, Candidates(t) # {}
               PROVE  Nearest(t).snap.before \in seen[Nearest(t).step]
    BY DEF NearestOnTimeline
  <2>1. keyframes \in Seq(Keyframe) /\ steps \in Nat /\ t \in Nat
    BY <1>3, Parts DEF KeyInv
  <2>2. PICK i \in 1 .. Len(keyframes) :
          /\ Nearest(t) = keyframes[i] /\ keyframes[i].step <= t
          /\ \A j \in i + 1 .. Len(keyframes) : keyframes[j].step > t
    BY <2>1, NearestIs
  <2>3. ASSUME NEW j \in i .. Len(keyframes) PROVE keyframes[j].step \in Nat
    <3>1. j \in 1 .. Len(keyframes)
      BY <2>1
    <3> QED BY <2>1, <3>1, ElementOfSeq, KeyframeFields
  <2>4. /\ keyframes[i].step <= steps
        /\ \A j \in i + 1 .. Len(keyframes) : keyframes[j].step > keyframes[i].step
    BY <2>1, <2>2, <2>3
  <2> QED BY <1>3, <2>2, <2>4 DEF TimeInv, OfTimeline
<1> QED BY <1>1, <1>2, <1>3, PTL DEF Spec

RewindInv == KeyInv /\ TimeInv /\ UndoInv

LEMMA RewindInvariant == Spec /\ []OneDebugger /\ []Recorded => []RewindInv
<1>1. Init => RewindInv
  BY InitKeeps DEF RewindInv
<1>2. OneDebugger /\ Recorded' /\ RewindInv /\ [Next]_vars => RewindInv'
  BY NextKeeps DEF Keeps, RewindInv
<1> QED BY <1>1, <1>2, PTL DEF Spec

(* The `<` key gives back the machine of right before the step it undoes.  *)
THEOREM UndoIsExact ==
  Spec /\ []OneDebugger /\ []Recorded => UndoExact
<1>1. RewindInv /\ [Next]_vars => [Undo => Undone(machine', Top(fine))]_vars
  BY UndoKeeps DEF RewindInv
<1> QED BY <1>1, RewindInvariant, PTL DEF Spec, UndoExact

(* So does the editor's stepBack, over a whole sweep.                      *)
THEOREM StepBackIsExact ==
  Spec /\ []OneDebugger /\ []Recorded => StepBackExact
<1>1. RewindInv /\ [Next]_vars => [DapStepBack => Undone(machine', Top(dapRing))]_vars
  BY DapStepBackKeeps DEF RewindInv
<1> QED BY <1>1, RewindInvariant, PTL DEF Spec, StepBackExact

(* `:rewind N` lands, on either path, in a state of this run at the step   *)
(* it lands on.                                                            *)
THEOREM RewindsLand ==
  Spec /\ []OneDebugger /\ []Recorded => RewindLands
<1>1. ASSUME RewindInv, Recorded', NEW n \in 1 .. MaxSteps, HostActs = {},
             RewindBy(n)
      PROVE  machine' \in seen[steps']
  <2>1. KeyInv /\ TimeInv /\ UndoInv /\ "tui" \in Surfaces /\ steps \in Nat
    BY <1>1, Parts DEF RewindInv, KeyInv, RewindBy, RewindShort, RewindDeep
  <2>2. PICK f : IsTimeline(f)
    BY <1>1, <2>1 DEF UndoInv, OneRun
  <2>3. CASE RewindShort(n)
    <3>1. /\ n \in 1 .. Len(fine) /\ machine' \in Machine
          /\ Undone(machine', fine[Len(fine) - n + 1])
      BY <2>1, <2>3, ShortEffect
    <3>2. machine' = f[steps - n]
      BY <2>1, <2>2, <3>1, BackLands
    <3>3. steps' = steps - n /\ steps - n \in 0 .. steps
      BY <2>1, <2>3 DEF RewindShort
    <3> QED BY <2>2, <3>2, <3>3 DEF IsTimeline
  <2>4. CASE RewindDeep(n)
    <3>1. PICK i \in 1 .. Len(keyframes), q \in Seq(Snapshot) :
            \E t : DeepFrom(n, i, t, q)
      BY <2>1, <2>4, DeepEffect
    <3>2. PICK t : DeepFrom(n, i, t, q)
      BY <3>1
    <3>3. steps - n \in 0 .. steps /\ steps' = steps - n
      BY <2>1, <2>4, DeepEffect DEF RewindDeep
    <3> DEFINE k == keyframes[i].step
               d == steps - n - k
    <3>4. k \in 0 .. steps - n /\ machine' = t[d]
      BY <3>2 DEF DeepFrom
    <3>5. d \in 0 .. d /\ k + d = steps - n
      BY <2>1, <3>3, <3>4
    <3>6. \A j \in 0 .. d : t[j] = f[k + j]
      BY <1>1, <2>1, <2>2, <3>2, <3>3, DeepLands
    <3> HIDE DEF d, k
    <3>7. machine' = f[steps - n]
      BY <3>4, <3>5, <3>6
    <3> QED BY <2>2, <3>3, <3>7 DEF IsTimeline
  <2> QED BY <1>1, <2>3, <2>4 DEF RewindBy
<1>2. RewindInv /\ Recorded' /\ [Next]_vars
        => [\A n \in 1 .. MaxSteps :
              HostActs = {} /\ RewindBy(n) => machine' \in seen[steps']]_vars
  BY <1>1
<1> QED BY <1>2, RewindInvariant, PTL DEF Spec, RewindLands

===============================================================================
