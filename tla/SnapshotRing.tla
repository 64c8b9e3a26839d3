----------------------------- MODULE SnapshotRing -----------------------------
(***************************************************************************)
(* cpu.SnapshotRing: the fixed array behind the TUI's `<` key and the DAP  *)
(* server's stepBack.  head is the next slot to write, size the number of  *)
(* slots in use; head wraps around the array.  The nil ring (capacity 0,   *)
(* the feature disabled) drops every Push and answers every Pop with None; *)
(* it has no state and is left out.  Names that Rewind also has begin with *)
(* Ring here, as UndoProofs extends both.                                  *)
(***************************************************************************)
EXTENDS Integers, Sequences

CONSTANTS
  Capacity,    \* number of slots (DefaultSnapshotRingCap in the program)
  Snapshots,   \* the snapshots callers push
  Zero,        \* the zero Snapshot a fresh slot holds
  None         \* Pop's answer on an empty ring: (Snapshot{}, false)

ASSUME CapacityAssumption == Capacity \in Nat \ {0}

VARIABLES
  buf,         \* the slots
  head,        \* next-write index
  size,        \* filled count
  result       \* what the last Pop returned

ringVars == <<buf, head, size, result>>

Slots == 0 .. Capacity - 1

RingInit ==
  /\ buf = [i \in Slots |-> Zero]
  /\ head = 0
  /\ size = 0
  /\ result = None

Push(s) ==
  /\ buf' = [buf EXCEPT ![head] = s]
  /\ head' = (head + 1) % Capacity
  /\ size' = IF size < Capacity THEN size + 1 ELSE size
  /\ UNCHANGED result

PopEmpty ==
  /\ size = 0
  /\ result' = None
  /\ UNCHANGED <<buf, head, size>>

(* A plausible slip: reading the slot before moving head back onto it. *)
PopReadsBeforeMoving ==
  /\ size > 0
  /\ head' = (head - 1 + Capacity) % Capacity
  /\ result' = buf[head]
  /\ size' = size - 1
  /\ UNCHANGED buf

PopNewest ==
  /\ size > 0
  /\ LET last == (head - 1 + Capacity) % Capacity IN
       /\ head' = last
       /\ result' = buf[last]
  /\ size' = size - 1
  /\ UNCHANGED buf

RingReset ==
  /\ head' = 0
  /\ size' = 0
  /\ UNCHANGED <<buf, result>>

RingNext ==
  \/ \E s \in Snapshots : Push(s)
  \/ PopEmpty
  \/ PopNewest
  \/ RingReset

RingSpec == RingInit /\ [][RingNext]_ringVars

-------------------------------------------------------------------------------

(* The write index never leaves the array and the count never exceeds it.  *)
RingTypeOK ==
  /\ buf \in [Slots -> Snapshots \cup {Zero}]
  /\ head \in Slots
  /\ size \in 0 .. Capacity
  /\ result \in Snapshots \cup {None}

(* The slot of the i-th of n snapshots in use, counted from the oldest,    *)
(* when h is the next-write index.                                         *)
SlotOf(h, n, i) == (h - n + i - 1 + Capacity) % Capacity

(* A slot in use was pushed: no Pop can hand out the zero Snapshot of a    *)
(* fresh slot, which would rewind the machine to address 0.                *)
UsedSlotsHoldSnapshots ==
  \A i \in 1 .. size : buf[SlotOf(head, size, i)] \in Snapshots

(* The snapshots in the ring, oldest first: the abstract stack. *)
stack == [i \in 1 .. size |-> buf[SlotOf(head, size, i)]]

History == INSTANCE BoundedHistory

(* The ring is a bounded history: whatever pushes, pops and resets came    *)
(* before, Pop returns the newest snapshot not yet popped and a full ring  *)
(* forgets exactly the oldest (snapshot_ring.go's "Push overwrites the     *)
(* oldest entry when full; Pop removes the most-recently-pushed entry").   *)
IsBoundedHistory == History!Spec
===============================================================================
