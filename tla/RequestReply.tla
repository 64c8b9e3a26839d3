----------------------------- MODULE RequestReply -----------------------------
(***************************************************************************)
(* What a caller of dap.Client.Request may rely on, with no wire, no       *)
(* sequence numbers and no threads: a call that returns an answer returns  *)
(* the one the server made for it; any other return is a failure.  A       *)
(* server may well handle a request whose caller has given up.             *)
(***************************************************************************)
CONSTANT Calls   \* the calls of Request

VARIABLES
  call,      \* call[c]: where the call c stands
  handled    \* the calls whose request the server has handled

vars == <<call, handled>>

Stages == {"idle", "waiting", "answered", "failed"}

Init ==
  /\ call = [c \in Calls |-> "idle"]
  /\ handled = {}

Ask(c) ==
  /\ call[c] = "idle"
  /\ call' = [call EXCEPT ![c] = "waiting"]
  /\ UNCHANGED handled

Handle(c) ==
  /\ call[c] \in {"waiting", "failed"}
  /\ c \notin handled
  /\ handled' = handled \cup {c}
  /\ UNCHANGED call

Answer(c) ==
  /\ call[c] = "waiting"
  /\ c \in handled
  /\ call' = [call EXCEPT ![c] = "answered"]
  /\ UNCHANGED handled

Fail(c) ==
  /\ call[c] \in {"idle", "waiting"}
  /\ call' = [call EXCEPT ![c] = "failed"]
  /\ UNCHANGED handled

Next ==
  \E c \in Calls : Ask(c) \/ Handle(c) \/ Answer(c) \/ Fail(c)

Spec == Init /\ [][Next]_vars
===============================================================================
