------------------------------- MODULE MCRewind -------------------------------
(***************************************************************************)
(* A program for Rewind: a loop of two instructions.  Each adds the key it *)
(* finds in the latch, or 1, to a page of its own, and clears the latch.   *)
(* It leaves the CPU state a Snapshot does not hold alone.                 *)
(***************************************************************************)
EXTENDS Rewind

On(surfaces, acts) == [surfaces |-> surfaces, hostActs |-> acts]

OneSurface ==
  {On({"tui"}, {}), On({"tui"}, {"key"}), On({"dap"}, {"key", "poke"})}

MCPages == {"p0", "p1"}
MCBytes == 0 .. 2
MCRegs  == 0 .. 1
MCHidden == {"run"}
MCKeys  == {2}
MCNoKey == 0
MCImage == [p \in MCPages |-> 0]

PageAt(pc) == IF pc = 0 THEN "p0" ELSE "p1"

MCProgram ==
  [m \in [regs : MCRegs, hidden : MCHidden, mem : [MCPages -> MCBytes],
          keys : MCKeys \cup {MCNoKey}] |->
     [regs   |-> 1 - m.regs,
      hidden |-> m.hidden,
      mem    |-> [m.mem EXCEPT ![PageAt(m.regs)] =
                    (@ + (IF m.keys = MCNoKey THEN 1 ELSE m.keys)) % 3],
      keys   |-> MCNoKey]]
===============================================================================
