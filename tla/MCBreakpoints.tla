---------------------------- MODULE MCBreakpoints -----------------------------
(***************************************************************************)
(* A program of four instructions for Breakpoints: a0 is a loop head that  *)
(* reads x, a1 reads x and then writes y, a2 is a BRK, a3 calls itself: it *)
(* writes y (the stack) and halts.                                         *)
(***************************************************************************)
EXTENDS Breakpoints

MCAddrs == {"a0", "a1", "a2", "a3"}
MCFlow == [a \in MCAddrs |->
             CASE a = "a0" -> {"a1", "a2"}
               [] a = "a1" -> {"a0", "a2"}
               [] a = "a2" -> {"a0", "a3"}
               [] a = "a3" -> {"a3"}]
Access(d, k) == [addr |-> d, kind |-> k]
MCTouch == [a \in MCAddrs |->
              CASE a = "a0" -> <<Access("x", "read")>>
                [] a = "a1" -> <<Access("x", "read"), Access("y", "write")>>
                [] a = "a2" -> <<>>
                [] a = "a3" -> <<Access("y", "write")>>]

Conditional == [Plain EXCEPT !.cond = TRUE]
SecondHit == [Plain EXCEPT !.target = 2]
LogPoint == [Plain EXCEPT !.log = TRUE]
SecondHitIf == [SecondHit EXCEPT !.cond = TRUE]
AllMetas == {Plain, Conditional, SecondHit, SecondHitIf, LogPoint}

PlainLoop ==
  [engine |-> "loop", predicate |-> TRUE, kinds |-> {"inst"},
   metas |-> {Plain}, breakAt |-> MCAddrs,
   watchKinds |-> {"read", "write", "readWrite"}, watchMetas |-> {Plain},
   watchAt |-> {"x", "y"}]

(* Two tables that both modify the breakpoint of the loop head. *)
ModifiedLoop ==
  [engine |-> "loop", predicate |-> FALSE, kinds |-> {"inst", "src"},
   metas |-> {Plain, LogPoint, SecondHit}, breakAt |-> {"a0"},
   watchKinds |-> {"write"}, watchMetas |-> {Plain, LogPoint},
   watchAt |-> {"y"}]

Budget ==
  [engine |-> "budget", predicate |-> FALSE, kinds |-> {"src"},
   metas |-> AllMetas, breakAt |-> {"a0", "a2"},
   watchKinds |-> {"write"}, watchMetas |-> {Plain, LogPoint},
   watchAt |-> {"y"}]

Everything == {PlainLoop, ModifiedLoop, Budget}
===============================================================================
