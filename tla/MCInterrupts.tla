----------------------------- MODULE MCInterrupts -----------------------------
(* Programs and surroundings for Interrupts: each variant under the TUI    *)
(* with its ACIA and undo, and a 65C02 inside a host with its own lines.   *)
EXTENDS Interrupts

Serial == {"plain", "cli", "sei", "pull", "readData", "readStatus",
           "writeStatus", "enableRx", "disableRx"}

TuiNmos == [variant |-> "nmos", undo |-> TRUE, host |-> FALSE,
            ops |-> Serial \cup {"self", "brk"}]
TuiCmos == [variant |-> "cmos", undo |-> TRUE, host |-> FALSE,
            ops |-> Serial \cup {"wai", "stp"}]
Tui816  == [variant |-> "65816", undo |-> TRUE, host |-> FALSE,
            ops |-> Serial \cup {"wai", "stp", "self"}]
Hosted  == [variant |-> "cmos", undo |-> FALSE, host |-> TRUE,
            ops |-> Instructions]

Everything == {TuiNmos, TuiCmos, Tui816, Hosted}
===============================================================================
