----------------------------- MODULE RemoteMirror -----------------------------
(***************************************************************************)
(* Attach mode: a TUI that shows a machine on the other end of a DAP       *)
(* connection.  tui.RemoteSource keeps a mirror of its registers and       *)
(* memory.  It is written in three ways: after the TUI's own step, when a  *)
(* stopped event arrives (both read everything again), and by the          *)
(* chippy-state events a run streams, which carry the bytes written since  *)
(* the event before.  The server finds those bytes with a hook on the      *)
(* CPU's bus accesses, chained before a hook the host may have there.      *)
(*                                                                         *)
(* A request is one entry of `inbox` and one answer (module Client says    *)
(* why answers are not mixed up); the TUI waits for it, for five seconds.  *)
(* The server holds cpuMu while it handles one, and so does one iteration  *)
(* of its run loop.  A machine state is its number, and its memory.        *)
(***************************************************************************)
EXTENDS Integers, Sequences, FiniteSets

CONSTANTS
  MaxAddr,      \* addresses are 0 .. MaxAddr
  Values,       \* what a byte may hold
  EventCap,     \* Client.events
  StoppedCap,   \* RemoteSource.stopped
  ExternalCap,  \* RemoteSource.external
  MaxTime,      \* bound: machine steps explored
  MaxKeys,      \* bound: keys the user presses
  MaxTimeOuts   \* bound: requests and waits that time out

ASSUME BoundsAssumption ==
  /\ {MaxAddr, EventCap, StoppedCap, ExternalCap, MaxTime, MaxKeys, MaxTimeOuts} \subseteq Nat
  /\ Values # {}

VARIABLES
  \* the server's process
  time,      \* which machine state this is: all its registers
  ram,       \* its memory
  hook,      \* the access hooks, outermost first: each calls the next
  prevHook,  \* Server.prevAccessHook
  dirty,     \* the bitmap and its bounds: [bits, lo, hi]
  loop,      \* the run loop: "none", "run", "emit" or "clear"
  pause,     \* pauseRequested
  \* the wire
  inbox,     \* requests given up by the TUI and not handled yet, oldest first
  answer,    \* the response to the TUI's request, a set of at most one
  events,    \* Client.events
  \* RemoteSource
  stopped,   \* how many events are buffered in RemoteSource.stopped
  external,  \* RemoteSource.external
  \* the TUI
  todo,      \* what the handler in progress has still to do, the request or
             \*   wait it is blocked in first; <<>>: idle
  running,   \* Model.Running
  pc,        \* mirror CPU.PC, as a machine state number
  regs,      \* the other registers of the mirror
  mirror,    \* mirror RAM
  ring,      \* Model.Rewind: the mirror's registers before each `s`
  keys,      \* keys pressed
  timeouts,  \* requests and waits timed out
  \* history
  lost,      \* the parts of the mirror that an event dropped by a full
             \*   channel, or a request that timed out, has left behind
  own,       \* the parts of the mirror the user wrote since they were read
  unseen     \* the host's hook has missed an access

serverVars == <<time, ram, hook, prevHook, dirty, loop, pause>>
wireVars == <<inbox, answer, events>>
sourceVars == <<stopped, external>>
mirrorVars == <<pc, regs, mirror, ring, own>>
vars == <<time, ram, hook, prevHook, dirty, loop, pause, inbox, answer, events,
          stopped, external, todo, running, pc, regs, mirror, ring, keys, timeouts, lost, own,
          unseen>>

Addrs == 0 .. MaxAddr

Clean == [bits |-> {}, lo |-> MaxAddr + 1, hi |-> -1]

Parts == {"pc", "regs", "memory"}

Stopped == [kind |-> "stopped"]

(* The mirror starts exact: runAttachedTUI reads registers and memory once. *)
Init ==
  /\ time = 0
  /\ ram = [a \in Addrs |-> CHOOSE v \in Values : TRUE]
  /\ hook = <<"host">>   \* the host installed one before the server came
  /\ prevHook = <<>>
  /\ dirty = Clean
  /\ loop = "none"
  /\ pause = FALSE
  /\ inbox = <<>>
  /\ answer = {}
  /\ events = <<>>
  /\ stopped = 0
  /\ external = <<>>
  /\ todo = <<>>
  /\ running = FALSE
  /\ pc = 0
  /\ regs = 0
  /\ mirror = ram
  /\ ring = <<>>
  /\ keys = 0
  /\ timeouts = 0
  /\ lost = {}
  /\ own = {}
  /\ unseen = FALSE

Hooked(h) == \E i \in 1 .. Len(hook) : hook[i] = h

-------------------------------------------------------------------------------
(* The server. *)

(* readLoop's non-blocking send to Client.events. *)
Emit(e) ==
  IF Len(events) < EventCap
  THEN /\ events' = Append(events, e)
       /\ UNCHANGED lost
  ELSE /\ lost' = Parts
       /\ UNCHANGED events

(* A plausible slip: the upper bound of the bitmap starts at the first      *)
(* address marked and is not raised afterwards.                             *)
MarkedFirst(a) ==
  [bits |-> dirty.bits \cup {a},
   lo |-> IF a < dirty.lo THEN a ELSE dirty.lo,
   hi |-> IF dirty.hi < 0 THEN a ELSE dirty.hi]

(* What the dirty hook does with a write. *)
Marked(a) ==
  [bits |-> dirty.bits \cup {a},
   lo |-> IF a < dirty.lo THEN a ELSE dirty.lo,
   hi |-> IF a > dirty.hi THEN a ELSE dirty.hi]

(* One instruction: it may write a byte, and every write calls the hooks. *)
Execute ==
  /\ time < MaxTime
  /\ time' = time + 1
  /\ \/ UNCHANGED <<ram, dirty, unseen>>
     \/ \E a \in Addrs, v \in Values :
          /\ ram' = [ram EXCEPT ![a] = v]
          /\ dirty' = IF Hooked("dirty") THEN Marked(a) ELSE dirty
          /\ unseen' = (unseen \/ ~Hooked("host"))

(* The request the server handles next: one the TUI has given up first,    *)
(* since it was sent first, then the one the TUI waits for.                 *)
Asked(cmds) ==
  IF inbox # <<>> THEN Head(inbox) \in cmds
  ELSE todo # <<>> /\ Head(todo) \in cmds /\ answer = {}

Answered(m) ==
  IF inbox # <<>>
  THEN inbox' = Tail(inbox) /\ UNCHANGED answer
  ELSE answer' = {m} /\ UNCHANGED inbox

(* stepIn, the one step request the TUI makes: refused during a run, else   *)
(* the machine moves and a stopped event follows.  A refusal is an answer   *)
(* the TUI does not read.                                                   *)
HandleStep ==
  /\ Asked({"step"})
  /\ Answered([cmd |-> "step"])
  /\ IF loop = "none"
     THEN Execute /\ Emit(Stopped)
     ELSE UNCHANGED <<time, ram, dirty, unseen, events, lost>>
  /\ UNCHANGED <<hook, prevHook, loop, pause, sourceVars, todo, running, mirrorVars, keys, timeouts>>

(* A plausible slip: a hook of one's own, without the ones already there. *)
InstallWithoutChain ==
  /\ prevHook' = hook
  /\ hook' = <<"dirty">>
  /\ dirty' = Clean

(* installDirtyHook: the bitmap is cleared, the hook put before the others. *)
InstallHook ==
  /\ prevHook' = hook
  /\ hook' = <<"dirty">> \o hook
  /\ dirty' = Clean

RemoveHook ==
  /\ hook' = prevHook
  /\ prevHook' = <<>>

HandleContinue ==
  /\ Asked({"continue"})
  /\ Answered([cmd |-> "continue"])
  /\ IF loop = "none"
     THEN /\ loop' = "run"
          /\ pause' = FALSE
          /\ InstallHook
     ELSE UNCHANGED <<loop, pause, hook, prevHook, dirty>>
  /\ UNCHANGED <<time, ram, events, sourceVars, todo, running, mirrorVars, keys, timeouts, lost, unseen>>

HandlePause ==
  /\ Asked({"pause"})
  /\ Answered([cmd |-> "pause"])
  /\ pause' = (pause \/ loop # "none")
  /\ UNCHANGED <<time, ram, hook, prevHook, dirty, loop, events, sourceVars, todo,
                 running, mirrorVars, keys, timeouts, lost, unseen>>

Reads == {"stackTrace", "variables", "readMemory"}

(* stackTrace, variables, readMemory: what the machine is now. *)
HandleRead ==
  /\ Asked(Reads)
  /\ Answered([cmd |-> Head(todo), time |-> time, ram |-> ram])
  /\ UNCHANGED <<serverVars, events, sourceVars, todo, running, mirrorVars, keys, timeouts, lost, unseen>>

RunIterate ==
  /\ loop = "run"
  /\ ~pause
  /\ Execute
  /\ UNCHANGED <<hook, prevHook, loop, pause, wireVars, sourceVars, todo, running,
                 mirrorVars, keys, timeouts, lost>>

(* flushDirtyRanges: the marked addresses between the bounds. *)
Spans(d) == {a \in d.bits : d.lo <= a /\ a <= d.hi}

(* sendChippyState, at most sixty times a second: seen from here, at times. *)
RunReport ==
  /\ loop = "run"
  /\ LET spans == Spans(dirty) IN
       /\ Emit([kind |-> "state", time |-> time, bytes |-> [a \in spans |-> ram[a]]])
       /\ dirty' = [Clean EXCEPT !.bits = dirty.bits \ spans]
  /\ UNCHANGED <<time, ram, hook, prevHook, loop, pause, inbox, answer, sourceVars, todo,
                 running, mirrorVars, keys, timeouts, unseen>>

(* A breakpoint, a halt, or the pause that was asked for. *)
RunStop ==
  /\ loop = "run"
  /\ loop' = "emit"
  /\ UNCHANGED <<time, ram, hook, prevHook, dirty, pause, wireVars, sourceVars, todo,
                 running, mirrorVars, keys, timeouts, lost, unseen>>

RunEmit ==
  /\ loop = "emit"
  /\ Emit(Stopped)
  /\ loop' = "clear"
  /\ UNCHANGED <<time, ram, hook, prevHook, dirty, pause, inbox, answer, sourceVars, todo,
                 running, mirrorVars, keys, timeouts, unseen>>

(* The deferred clean-up: until it ran, continue and step are refused. *)
RunClear ==
  /\ loop = "clear"
  /\ RemoveHook
  /\ loop' = "none"
  /\ UNCHANGED <<time, ram, dirty, pause, wireVars, sourceVars, todo, running, mirrorVars,
                 keys, timeouts, lost, unseen>>

-------------------------------------------------------------------------------
(* RemoteSource.demuxEvents. *)

(* The routing the code once had: stopped events only to Step's channel. *)
DemuxToStep ==
  /\ events # <<>>
  /\ events' = Tail(events)
  /\ IF Head(events) = Stopped
     THEN /\ stopped' = IF stopped < StoppedCap THEN stopped + 1 ELSE stopped
          /\ UNCHANGED <<external, lost>>
     ELSE /\ external' = IF Len(external) < ExternalCap THEN Append(external, Head(events)) ELSE external
          /\ lost' = IF Len(external) = ExternalCap THEN Parts ELSE lost
          /\ UNCHANGED stopped
  /\ UNCHANGED <<serverVars, inbox, answer, todo, running, mirrorVars, keys, timeouts, unseen>>

(* A stopped event goes to Step's channel and to the TUI's, each without   *)
(* blocking; one more stop than Step's channel holds is no loss, since one *)
(* is enough for the Step that takes it.                                   *)
Demux ==
  /\ events # <<>>
  /\ events' = Tail(events)
  /\ stopped' = IF Head(events) = Stopped /\ stopped < StoppedCap THEN stopped + 1 ELSE stopped
  /\ external' = IF Len(external) < ExternalCap THEN Append(external, Head(events)) ELSE external
  /\ lost' = IF Len(external) = ExternalCap THEN Parts ELSE lost
  /\ UNCHANGED <<serverVars, inbox, answer, todo, running, mirrorVars, keys, timeouts, unseen>>

-------------------------------------------------------------------------------
(* The TUI: one handler at a time, each a list of requests and waits. *)

Refresh == <<"stackTrace", "variables", "readMemory">>

Idle == todo = <<>> /\ keys < MaxKeys

(* `s`: Model.step takes a snapshot of the mirror and pushes it when        *)
(* Source.Step is back, whatever came of it.  No key is read in between, so *)
(* it counts as pushed here.  Its memory is empty: the requests fill the    *)
(* mirror with RAM.Load, which the snapshot does not see.                   *)
KeyStep ==
  /\ Idle
  /\ keys' = keys + 1
  /\ ring' = Append(ring, [pc |-> pc, regs |-> regs])
  /\ todo' = <<"step", "waitForStop">> \o Refresh
  /\ UNCHANGED <<serverVars, wireVars, sourceVars, running, pc, regs, mirror, timeouts, lost,
                 own, unseen>>

(* `<` pops that ring and restores the mirror's registers: no request goes  *)
(* out, the machine stays where it is.                                      *)
KeyUndo ==
  /\ Idle
  /\ ring # <<>>
  /\ keys' = keys + 1
  /\ LET s == ring[Len(ring)] IN pc' = s.pc /\ regs' = s.regs
  /\ ring' = SubSeq(ring, 1, Len(ring) - 1)
  /\ own' = own \cup {"pc", "regs"}
  /\ UNCHANGED <<serverVars, wireVars, sourceVars, todo, running, mirror, timeouts, lost, unseen>>

(* `:pc`, enter in the breakpoint manager, and an edit of the memory panel: *)
(* the mirror is written, the machine is not told.                          *)
KeyEdit ==
  /\ Idle
  /\ keys' = keys + 1
  /\ \/ /\ pc' \in 0 .. time
        /\ own' = own \cup {"pc"}
        /\ UNCHANGED mirror
     \/ /\ \E a \in Addrs, v \in Values : mirror' = [mirror EXCEPT ![a] = v]
        /\ own' = own \cup {"memory"}
        /\ UNCHANGED pc
  /\ UNCHANGED <<serverVars, wireVars, sourceVars, todo, running, regs, ring, timeouts, lost,
                 unseen>>

(* `r`: the flag is turned round before the request is made, and the answer *)
(* to the request is not looked at.                                         *)
KeyRun ==
  /\ Idle
  /\ keys' = keys + 1
  /\ running' = ~running
  /\ todo' = IF running THEN <<"pause">> ELSE <<"continue">>
  /\ UNCHANGED <<serverVars, wireVars, sourceVars, mirrorVars, timeouts, lost, unseen>>

(* dapEventMsg. *)
PumpState ==
  /\ todo = <<>>
  /\ external # <<>> /\ Head(external) # Stopped
  /\ external' = Tail(external)
  /\ LET e == Head(external) IN
       /\ pc' = e.time
       /\ mirror' = [a \in Addrs |-> IF a \in DOMAIN e.bytes THEN e.bytes[a] ELSE mirror[a]]
  /\ own' = own \ {"pc"}
  /\ UNCHANGED <<serverVars, wireVars, stopped, todo, running, regs, ring, keys, timeouts, lost,
                 unseen>>

PumpStopped ==
  /\ todo = <<>>
  /\ external # <<>> /\ Head(external) = Stopped
  /\ external' = Tail(external)
  /\ running' = FALSE
  /\ todo' = Refresh
  /\ UNCHANGED <<serverVars, wireVars, stopped, mirrorVars, keys, timeouts, lost, unseen>>

(* The part of the mirror an answer overwrites. *)
PartRead(m) ==
  CASE m.cmd = "stackTrace" -> {"pc"}
    [] m.cmd = "variables" -> {"regs"}
    [] m.cmd = "readMemory" -> {"memory"}
    [] OTHER -> {}

UpToDate(m) == m.cmd \in Reads => m.time = time

(* The bytes are the machine's when the request was handled; events made   *)
(* since then are still to come.  Reading a part again makes up for what   *)
(* was lost of it, unless older events are still on their way.             *)
Take ==
  /\ \E m \in answer :
       /\ pc' = IF m.cmd = "stackTrace" THEN m.time ELSE pc
       /\ regs' = IF m.cmd = "variables" THEN m.time ELSE regs
       /\ mirror' = IF m.cmd = "readMemory" THEN m.ram ELSE mirror
       /\ own' = own \ PartRead(m)
       /\ lost' = IF events = <<>> /\ external = <<>> /\ loop = "none" /\ UpToDate(m)
                  THEN lost \ PartRead(m) ELSE lost
  /\ answer' = {}
  /\ todo' = Tail(todo)
  /\ UNCHANGED <<serverVars, inbox, events, sourceVars, running, ring, keys, timeouts, unseen>>

(* After a failed stackTrace the other registers are not read either; the  *)
(* failed step of Step ends it.  Memory is read whatever came before.      *)
AfterFailure ==
  CASE Head(todo) = "stackTrace" -> <<"readMemory">>
    [] Head(todo) = "variables" -> Tail(todo)
    [] OTHER -> <<>>

PartsUnread ==
  CASE Head(todo) = "stackTrace" -> {"pc", "regs"}
    [] Head(todo) = "variables" -> {"regs"}
    [] Head(todo) = "readMemory" -> {"memory"}
    [] OTHER -> {}

(* Five seconds may be too short.  The server handles the request all the  *)
(* same; its answer is dropped.  The mirror is then behind by as much.     *)
TimeOut ==
  /\ timeouts < MaxTimeOuts
  /\ timeouts' = timeouts + 1
  /\ todo # <<>> /\ Head(todo) # "waitForStop"
  /\ inbox' = IF answer = {} /\ Head(todo) \notin Reads THEN Append(inbox, Head(todo)) ELSE inbox
  /\ answer' = {}
  /\ todo' = AfterFailure
  /\ running' = (running /\ Head(todo) # "continue")
  /\ lost' = lost \cup PartsUnread
  /\ UNCHANGED <<serverVars, events, sourceVars, mirrorVars, keys, unseen>>

(* Any buffered stop will do, whichever step or run it came from. *)
StopArrived ==
  /\ todo # <<>> /\ Head(todo) = "waitForStop"
  /\ stopped > 0
  /\ stopped' = stopped - 1
  /\ todo' = Tail(todo)
  /\ UNCHANGED <<serverVars, wireVars, external, running, mirrorVars, keys, timeouts, lost, unseen>>

StopTimeOut ==
  /\ todo # <<>> /\ Head(todo) = "waitForStop"
  /\ stopped = 0
  /\ timeouts < MaxTimeOuts
  /\ timeouts' = timeouts + 1
  /\ todo' = <<>>
  /\ UNCHANGED <<serverVars, wireVars, sourceVars, running, mirrorVars, keys, lost, unseen>>

-------------------------------------------------------------------------------

Server ==
  \/ HandleStep \/ HandleContinue \/ HandlePause \/ HandleRead
  \/ RunIterate \/ RunReport \/ RunStop \/ RunEmit \/ RunClear

Tui ==
  \/ KeyStep \/ KeyRun \/ KeyUndo \/ KeyEdit
  \/ PumpState \/ PumpStopped
  \/ Take \/ TimeOut
  \/ StopArrived \/ StopTimeOut

Next == Server \/ Demux \/ Tui

Spec == Init /\ [][Next]_vars

-------------------------------------------------------------------------------

(* The bitmap never holds a mark outside its bounds, and a run is the only  *)
(* time the dirty hook is on the bus.                                       *)
TypeOK ==
  /\ time \in 0 .. MaxTime
  /\ ram \in [Addrs -> Values]
  /\ dirty.bits \in SUBSET (dirty.lo .. dirty.hi)
  /\ loop \in {"none", "run", "emit", "clear"}
  /\ (loop = "none") <=> ~Hooked("dirty")
  /\ inbox \in Seq({"step", "continue", "pause"})
  /\ timeouts \in 0 .. MaxTimeOuts
  /\ Cardinality(answer) \in 0 .. 1
  /\ Len(events) \in 0 .. EventCap
  /\ stopped \in 0 .. StoppedCap
  /\ Len(external) \in 0 .. ExternalCap
  /\ running \in BOOLEAN
  /\ pc \in 0 .. time
  /\ regs \in 0 .. time
  /\ mirror \in [Addrs -> Values]
  /\ ring \in Seq([pc : 0 .. time, regs : 0 .. time])

OnTheWay == external \o events

StopOnTheWay ==
  \/ \E i \in 1 .. Len(OnTheWay) : OnTheWay[i] = Stopped
  \/ \E i \in 1 .. Len(todo) : todo[i] = "readMemory"

(* As long as nothing was dropped and the user wrote no byte of the mirror, *)
(* every byte of it that is not the machine's is still coming: it is marked *)
(* between the bounds, or in an event on the way, or a stop is on the way   *)
(* after which all memory is read again.  That is what the bitmap, its      *)
(* bounds, its clearing at the start of a run and the two routes of a       *)
(* stopped event are for together, however runs, steps, streams and         *)
(* refreshes overlap (steps.go "reads regs and flushes the dirty spans").   *)
NoByteForgotten ==
  \A a \in Addrs :
    \/ mirror[a] = ram[a]
    \/ "memory" \in lost \cup own
    \/ StopOnTheWay
    \/ loop = "run" /\ a \in dirty.bits /\ dirty.lo <= a /\ a <= dirty.hi
    \/ loop = "emit"
    \/ \E i \in 1 .. Len(OnTheWay) : OnTheWay[i] # Stopped /\ a \in DOMAIN OnTheWay[i].bytes

(* When the server has stopped and every event is handled, the TUI shows    *)
(* the machine, but for a part that a dropped event or a request that timed *)
(* out has left behind, or that the user has written in the mirror since it *)
(* was read: PC, the other registers and memory, although each comes by a   *)
(* request of its own (source_remote.go "those panels see a consistent      *)
(* post-operation state").                                                  *)
QuietMirrorIsExact ==
  loop = "none" /\ inbox = <<>> /\ OnTheWay = <<>> /\ todo = <<>>
    => /\ "pc" \in lost \cup own \/ pc = time
       /\ "regs" \in lost \cup own \/ regs = time
       /\ "memory" \in lost \cup own \/ mirror = ram

(* A host's own access hook sees every access, before, during and after the *)
(* runs (steps.go "Composes with any host-installed access hook").          *)
HostSeesEverything == ~unseen
===============================================================================
