-------------------------------- MODULE Client --------------------------------
(***************************************************************************)
(* dap.Client: the editor's side of a DAP connection, as the TUI uses it   *)
(* in attach mode.  Request numbers its call, registers a channel for that *)
(* number, writes the request and waits for the channel or for five        *)
(* seconds; one goroutine, readLoop, reads the connection and hands each   *)
(* response to the channel of its number.  Several goroutines may be in    *)
(* Request at a time.  Each element of Calls is one call, made once.       *)
(*                                                                         *)
(* Events take another way (a channel of their own, module RemoteMirror).  *)
(* writeMu makes a frame one message on the wire, so a write is one step.  *)
(* A write does not block for ever: the five seconds begin after it.       *)
(***************************************************************************)
EXTENDS Integers, Sequences, FiniteSets

CONSTANT Calls

ASSUME CallsAssumption == Calls \cap {"none", "failed", "empty"} = {}

VARIABLES
  \* the callers
  at,        \* at[c]: where call c is
  number,    \* number[c]: the seq it was given
  chan,      \* chan[c]: its channel of capacity one
  outcome,   \* outcome[c]: what Request returned: the call the response was
             \*   made for, "failed" (an error) or "empty" (see TakeResponse)
  \* the Client
  seq,       \* the last number given
  pending,   \* number |-> the call that waits for its response
  closed,    \* Close was called
  reader,    \* readLoop: what it does, and the response it is handing over
  \* the connection and the server
  link,      \* FALSE once either side has closed it
  toServer,  \* requests on the wire
  toClient,  \* responses on the wire
  handled,   \* the calls whose request the server has handled
  early      \* history: the calls registered before readLoop ended

callerVars == <<at, number, chan, outcome>>
clientVars == <<seq, pending, closed, reader>>
peerVars == <<link, toServer, toClient, handled>>
allClientVars == <<at, number, chan, outcome, seq, pending, closed, reader,
          link, toServer, toClient, handled, early>>

(* A channel that holds nothing, one that was closed, one with a response. *)
Empty == [kind |-> "empty"]
Closed == [kind |-> "closed"]
Holds(m) == [kind |-> "response", msg |-> m]

Reading == [at |-> "read"]

Without(f, n) == [k \in DOMAIN f \ {n} |-> f[k]]

ClientInit ==
  /\ at = [c \in Calls |-> "idle"]
  /\ number = [c \in Calls |-> 0]
  /\ chan = [c \in Calls |-> Empty]
  /\ outcome = [c \in Calls |-> "none"]
  /\ seq = 0
  /\ pending = [k \in {} |-> CHOOSE c \in Calls : TRUE]
  /\ closed = FALSE
  /\ reader = Reading
  /\ link = TRUE
  /\ toServer = <<>>
  /\ toClient = <<>>
  /\ handled = {}
  /\ early = {}

Return(c, result) ==
  /\ at' = [at EXCEPT ![c] = "done"]
  /\ outcome' = [outcome EXCEPT ![c] = result]

-------------------------------------------------------------------------------
(* Request. *)

(* A closed client refuses before it takes a number. *)
Refuse(c) ==
  /\ at[c] = "idle"
  /\ closed
  /\ Return(c, "failed")
  /\ UNCHANGED <<number, chan, clientVars, peerVars, early>>

(* A plausible slip: reading the counter and storing it as two steps, which *)
(* gives two callers one number; seen from here, a number that may repeat.  *)
NumberTwice(c) ==
  /\ at[c] = "idle"
  /\ ~closed
  /\ \E n \in {seq, seq + 1} \ {0} :
       /\ seq' = n
       /\ number' = [number EXCEPT ![c] = n]
  /\ at' = [at EXCEPT ![c] = "numbered"]
  /\ UNCHANGED <<chan, outcome, pending, closed, reader, peerVars, early>>

Number(c) ==
  /\ at[c] = "idle"
  /\ ~closed
  /\ seq' = seq + 1
  /\ number' = [number EXCEPT ![c] = seq + 1]
  /\ at' = [at EXCEPT ![c] = "numbered"]
  /\ UNCHANGED <<chan, outcome, pending, closed, reader, peerVars, early>>

Register(c) ==
  /\ at[c] = "numbered"
  /\ pending' = [k \in DOMAIN pending \cup {number[c]} |->
                   IF k = number[c] THEN c ELSE pending[k]]
  /\ early' = IF reader.at = "ended" THEN early ELSE early \cup {c}
  /\ at' = [at EXCEPT ![c] = "registered"]
  /\ UNCHANGED <<number, chan, outcome, seq, closed, reader, peerVars>>

(* A write to a connection the other side has closed may still succeed. *)
Write(c) ==
  /\ at[c] = "registered"
  /\ toServer' = IF link THEN Append(toServer, [seq |-> number[c], for |-> c])
                 ELSE toServer
  /\ at' = [at EXCEPT ![c] = "waiting"]
  /\ UNCHANGED <<number, chan, outcome, clientVars, link, toClient, handled, early>>

WriteFails(c) ==
  /\ at[c] = "registered"
  /\ ~link
  /\ pending' = Without(pending, number[c])
  /\ Return(c, "failed")
  /\ UNCHANGED <<number, chan, seq, closed, reader, peerVars, early>>

(* A closed channel gives the zero Response and no error: "empty", a       *)
(* response whose Success is false and whose message is empty.             *)
TakeResponse(c) ==
  /\ at[c] = "waiting"
  /\ chan[c] # Empty
  /\ Return(c, IF chan[c] = Closed THEN "empty" ELSE chan[c].msg.for)
  /\ chan' = IF chan[c] = Closed THEN chan ELSE [chan EXCEPT ![c] = Empty]
  /\ UNCHANGED <<number, clientVars, peerVars, early>>

(* A plausible slip: leaving the calls of a lost connection to readLoop. *)
TimeOutWhileConnected(c) ==
  /\ at[c] = "waiting"
  /\ reader.at # "ended"
  /\ pending' = Without(pending, number[c])
  /\ Return(c, "failed")
  /\ UNCHANGED <<number, chan, seq, closed, reader, peerVars, early>>

(* Five seconds may pass at any time, also with the response in hand. *)
WaitTimesOut(c) ==
  /\ at[c] = "waiting"
  /\ pending' = Without(pending, number[c])
  /\ Return(c, "failed")
  /\ UNCHANGED <<number, chan, seq, closed, reader, peerVars, early>>

-------------------------------------------------------------------------------
(* readLoop, Close. *)

(* The channel is taken out of the table under pendMu and written to after *)
(* the lock is released.  A response nobody waits for is dropped.          *)
LoopRead ==
  /\ reader.at = "read"
  /\ toClient # <<>>
  /\ toClient' = Tail(toClient)
  /\ LET m == Head(toClient) IN
       IF m.seq \in DOMAIN pending
       THEN /\ reader' = [at |-> "deliver", to |-> pending[m.seq], msg |-> m]
            /\ pending' = Without(pending, m.seq)
       ELSE UNCHANGED <<reader, pending>>
  /\ UNCHANGED <<callerVars, seq, closed, link, toServer, handled, early>>

LoopDeliver ==
  /\ reader.at = "deliver"
  /\ chan[reader.to] = Empty
  /\ chan' = [chan EXCEPT ![reader.to] = Holds(reader.msg)]
  /\ reader' = Reading
  /\ UNCHANGED <<at, number, outcome, seq, pending, closed, peerVars, early>>

(* The connection is gone; what was still on the wire may be lost. *)
LoopFails ==
  /\ reader.at = "read"
  /\ ~link
  /\ reader' = [at |-> "failed"]
  /\ UNCHANGED <<callerVars, seq, pending, closed, peerVars, early>>

(* A plausible slip: waking only the calls whose request was written. *)
LoopEndsForWaiting ==
  /\ reader.at = "failed"
  /\ chan' = [c \in Calls |-> IF \E k \in DOMAIN pending : pending[k] = c /\ at[c] = "waiting"
                              THEN Closed ELSE chan[c]]
  /\ pending' = [k \in {} |-> CHOOSE c \in Calls : TRUE]
  /\ reader' = [at |-> "ended"]
  /\ UNCHANGED <<at, number, outcome, seq, closed, peerVars, early>>

(* Every pending channel is closed under pendMu, and readLoop returns. *)
LoopEnds ==
  /\ reader.at = "failed"
  /\ chan' = [c \in Calls |-> IF \E k \in DOMAIN pending : pending[k] = c
                              THEN Closed ELSE chan[c]]
  /\ pending' = [k \in {} |-> CHOOSE c \in Calls : TRUE]
  /\ reader' = [at |-> "ended"]
  /\ UNCHANGED <<at, number, outcome, seq, closed, peerVars, early>>

Close ==
  /\ ~closed
  /\ closed' = TRUE
  /\ link' = FALSE
  /\ UNCHANGED <<callerVars, seq, pending, reader, toServer, toClient, handled, early>>

-------------------------------------------------------------------------------
(* The server: one request after the other, each answered under its number. *)

ServerHandle ==
  /\ link
  /\ toServer # <<>>
  /\ toServer' = Tail(toServer)
  /\ toClient' = Append(toClient, Head(toServer))
  /\ handled' = handled \cup {Head(toServer).for}
  /\ UNCHANGED <<callerVars, clientVars, link, early>>

ServerHangUp ==
  /\ link
  /\ link' = FALSE
  /\ UNCHANGED <<callerVars, clientVars, toServer, toClient, handled, early>>

-------------------------------------------------------------------------------

Requesting(c) ==
  \/ Refuse(c) \/ Number(c) \/ Register(c)
  \/ Write(c) \/ WriteFails(c)
  \/ TakeResponse(c) \/ WaitTimesOut(c)

ReadLoop == LoopRead \/ LoopDeliver \/ LoopFails \/ LoopEnds

ClientNext ==
  \/ \E c \in Calls : Requesting(c)
  \/ ReadLoop
  \/ Close
  \/ ServerHandle
  \/ ServerHangUp

ClientSpec == ClientInit /\ [][ClientNext]_allClientVars

(* The goroutines are scheduled and the five seconds pass; nothing is asked *)
(* of the server, of the connection, or of the user who closes it.          *)
ClientFairness ==
  /\ \A c \in Calls : WF_allClientVars(\/ Register(c) \/ Write(c) \/ WriteFails(c)
                                   \/ TakeResponse(c) \/ WaitTimesOut(c))
  /\ WF_allClientVars(ReadLoop)

ClientFairSpec == ClientSpec /\ ClientFairness

-------------------------------------------------------------------------------

Messages == [seq : Nat, for : Calls]

ClientTypeOK ==
  /\ at \in [Calls -> {"idle", "numbered", "registered", "waiting", "done"}]
  /\ number \in [Calls -> Nat]
  /\ chan \in [Calls -> {Empty, Closed} \cup [kind : {"response"}, msg : Messages]]
  /\ outcome \in [Calls -> Calls \cup {"none", "failed", "empty"}]
  /\ seq \in Nat
  /\ DOMAIN pending \subseteq Nat
  /\ \A k \in DOMAIN pending : pending[k] \in Calls
  /\ closed \in BOOLEAN
  /\ \/ reader \in [at : {"read", "failed", "ended"}]
     \/ reader \in [at : {"deliver"}, to : Calls, msg : Messages]
  /\ link \in BOOLEAN
  /\ toServer \in Seq(Messages)
  /\ toClient \in Seq(Messages)
  /\ handled \in SUBSET Calls
  /\ early \in SUBSET Calls

(* Where a call stands for its caller.  A call counts as asked once it has  *)
(* its number; the zero Response of a closed channel is a failure to every  *)
(* caller that looks at Success.                                            *)
Stage(c) ==
  CASE at[c] = "idle" -> "idle"
    [] at[c] \in {"numbered", "registered", "waiting"} -> "waiting"
    [] at[c] = "done" /\ outcome[c] = c -> "answered"
    [] at[c] = "done" /\ outcome[c] \in {"failed", "empty"} -> "failed"
    [] OTHER -> "another's answer"

Promise == INSTANCE RequestReply
             WITH Calls <- Calls, call <- [c \in Calls |-> Stage(c)], handled <- handled

(* A response reaches the call it was made for or nobody: however calls     *)
(* overlap, time out while their response is on the way, and lose their     *)
(* connection, Request never returns the response of another call (client.go *)
(* "each request gets its own response channel keyed on the auto-assigned   *)
(* seq number").                                                            *)
AnswersItsOwn == Promise!Spec

(* When readLoop has ended, every call that had registered before has       *)
(* something to take: it does not sit out the five seconds (client.go "Wake *)
(* all pending requesters so they don't hang on the 5-second timeout").  It *)
(* is not promised to a call that registers afterwards, which does.         *)
LostConnectionWakes ==
  reader.at = "ended" => \A c \in early : at[c] \in {"registered", "waiting"} => chan[c] # Empty

(* Every call of Request returns, whatever the server and the connection do *)
(* (client.go "short enough that a wedged server doesn't hang the TUI       *)
(* forever").                                                               *)
EveryRequestReturns == \A c \in Calls : (at[c] # "idle") ~> (at[c] = "done")
===============================================================================
