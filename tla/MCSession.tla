------------------------------ MODULE MCSession -------------------------------
(***************************************************************************)
(* Surroundings for DapSession: the server that owns its debuggee (stdio   *)
(* and tcp mode), the TUI's `:dap` and embedding hosts with callbacks, the *)
(* latter with and without a mutex.                                        *)
(***************************************************************************)
EXTENDS DapSession

With(h, m, c) ==
  [host |-> h, mutex |-> m, commands |-> c]

Everywhere ==
  {With("none", FALSE, AllCommands), With("tui", TRUE, AllCommands),
   With("gated", FALSE, AllCommands), With("gated", TRUE, AllCommands)}

(* For liveness: with a shared mutex, disconnect blocks (SessionBlocked). *)
Unblocked ==
  {With("none", FALSE, {"launchRun", "continue", "pause", "disconnect"}),
   With("tui", TRUE, {"attach", "continue", "pause"})}

TuiSession == {With("tui", TRUE, {"attach", "continue", "disconnect"})}
===============================================================================
