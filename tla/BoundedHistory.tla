---------------------------- MODULE BoundedHistory ----------------------------
(***************************************************************************)
(* What a rewind history promises to the debugger: a stack of snapshots    *)
(* that remembers the last Capacity of them.  Pushing onto a full history  *)
(* forgets the oldest snapshot; popping returns the most recent one that   *)
(* has not been popped yet.  SnapshotRing implements this specification.   *)
(***************************************************************************)
EXTENDS Naturals, Sequences

CONSTANTS
  Capacity,    \* how many snapshots are remembered; 0 disables the history
  Snapshots,   \* the set of snapshots
  None         \* the answer of a Pop on an empty history

VARIABLES
  stack,       \* remembered snapshots, oldest first
  result       \* what the last Pop returned

vars == <<stack, result>>

Init ==
  /\ stack = <<>>
  /\ result = None

(* The oldest snapshot falls off when one too many is remembered. *)
Forget(q) == IF Len(q) > Capacity THEN Tail(q) ELSE q

Push(s) ==
  /\ stack' = Forget(Append(stack, s))
  /\ UNCHANGED result

Pop ==
  \/ /\ stack # <<>>
     /\ result' = stack[Len(stack)]
     /\ stack' = SubSeq(stack, 1, Len(stack) - 1)
  \/ /\ stack = <<>>
     /\ result' = None
     /\ UNCHANGED stack

Reset ==
  /\ stack' = <<>>
  /\ UNCHANGED result

Next ==
  \/ \E s \in Snapshots : Push(s)
  \/ Pop
  \/ Reset

Spec == Init /\ [][Next]_vars
===============================================================================
