------------------------------- MODULE MCNesCpu -------------------------------
(* Devices and programs for NesCpu: interrupts alone with every            *)
(* instruction, the two DMAs alone, and everything with three instructions.  *)
EXTENDS NesCpu

Interrupts ==
  [nmi |-> TRUE, irq |-> TRUE, sprite |-> FALSE, dmc |-> FALSE,
   abort |-> FALSE, reset |-> TRUE, ops |-> Instructions]

Transfers ==
  [nmi |-> FALSE, irq |-> FALSE, sprite |-> TRUE, dmc |-> TRUE,
   abort |-> TRUE, reset |-> FALSE, ops |-> {"nop", "store", "modify", "brk"}]

Together ==
  [nmi |-> TRUE, irq |-> TRUE, sprite |-> TRUE, dmc |-> TRUE,
   abort |-> FALSE, reset |-> FALSE, ops |-> {"modify", "branch", "cli"}]

Everything == {Interrupts, Transfers, Together}
===============================================================================
