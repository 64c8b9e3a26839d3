------------------------------ MODULE DapSession ------------------------------
(***************************************************************************)
(* One DAP session: the goroutine that runs Server.Serve, the run-loop     *)
(* goroutine every `continue` spawns, the editor at the other end of the   *)
(* wire, and the process that hosts the debuggee.  What they share is      *)
(* running, pauseRequested, the runDone channel and, when the host passes  *)
(* one, the mutex cpuMu that serialises access to the machine.             *)
(*                                                                         *)
(* Writes to the wire never block and arrive in order, so a response or an *)
(* event counts as seen by the editor when it is sent.                     *)
(*                                                                         *)
(* A request is a command name; what the commands do to the machine is in  *)
(* Breakpoints and Rewind.  "inspect" stands for the requests that touch   *)
(* the machine without asking whether it runs (readMemory, writeMemory,    *)
(* disassemble, stackTrace, variables...), "step" for the ones that ask    *)
(* first (stepIn, next, stepOut, stepBack, evaluate, setVariable),         *)
(* "disconnect" for disconnect and terminate.                              *)
(***************************************************************************)
EXTENDS Naturals, Sequences, FiniteSets

CONSTANTS
  Settings,     \* the surroundings a session may find, see below
  MaxRequests   \* bound on the requests of a session

AllCommands ==
  {"launch", "launchRun", "attach", "continue", "pause", "step", "inspect",
   "disconnect"}

(* host: "none": launch mode, the server owns the debuggee; "tui": attached *)
(*   to a TUI that steps whenever it likes; "gated": attached to a host     *)
(*   that stops its own loop between OnAttached and OnDisconnected;         *)
(* mutex: AttachConfig.CPUMu # nil;                                         *)
(* commands: the requests the editor uses.                                  *)
Setting ==
  [host : {"none", "tui", "gated"}, mutex : BOOLEAN,
   commands : SUBSET AllCommands]

ASSUME SessionAssumption ==
  /\ Settings \subseteq Setting
  /\ MaxRequests \in Nat

(* Run k is the k-th run loop spawned; it owns the k-th runDone channel. *)
Runs == 1 .. MaxRequests

VARIABLES
  setting,         \* which of them; it never changes
  wire,            \* requests sent and not yet read by Serve
  hungUp,          \* the editor closed the connection
  sent,            \* requests sent so far
  serve,           \* where the Serve goroutine is
  req,             \* the request it dispatches
  loop,            \* where each run-loop goroutine is
  runs,            \* run loops spawned so far
  running,         \* Server.running
  pauseRequested,  \* Server.pauseRequested
  runDone,         \* the channel Server.runDone refers to (0: nil)
  closed,          \* the channels that are closed
  panicked,        \* close of a closed channel: the process dies
  mutex,           \* who holds cpuMu
  debuggee,        \* Server.cpu # nil
  terminated,      \* Server.terminated
  attaches,        \* times OnAttached fired
  detaches,        \* times OnDisconnected fired
  host             \* what the hosting process does with the machine

wireVars == <<setting, wire, hungUp, sent>>
runVars  == <<running, pauseRequested, runDone, closed, runs>>
hostVars == <<attaches, detaches, host>>
vars == <<wireVars, serve, req, loop, runVars, panicked, mutex, debuggee,
          terminated, hostVars>>

HostKind    == setting.host
SharedMutex == setting.mutex
Commands    == setting.commands

NoRequest == "none"

ServePlaces == {"read", "lock", "handle", "spawn", "machine", "awaitRun",
                "finish", "returned", "failed"}
LoopPlaces  == {"none", "poll", "lock", "iterate", "state", "emit", "clear",
                "close", "gone"}
HostPlaces  == {"idle", "stepping", "rewinding"}

(* A run loop is live from its spawn until it clears `running`. *)
Live(k)   == loop[k] \notin {"none", "close", "gone"}
LiveRuns  == {k \in Runs : Live(k)}

(* stdio and tcp mode: the process exits when Serve returns (serveConn). *)
Exited == HostKind = "none" /\ serve \in {"returned", "failed"}

ProcessAlive == ~panicked /\ ~Exited

Init ==
  /\ setting \in Settings
  /\ wire = <<>>
  /\ hungUp = FALSE
  /\ sent = 0
  /\ serve = "read"
  /\ req = NoRequest
  /\ loop = [k \in Runs |-> "none"]
  /\ runs = 0
  /\ running = FALSE
  /\ pauseRequested = FALSE
  /\ runDone = 0
  /\ closed = {}
  /\ panicked = FALSE
  /\ mutex = "free"
  /\ debuggee = (HostKind # "none")
  /\ terminated = FALSE
  /\ attaches = 0
  /\ detaches = 0
  /\ host = "idle"

-------------------------------------------------------------------------------
(* cpuMu.  Without a shared mutex lockCPU and unlockCPU do nothing. *)

Lock(who) ==
  IF SharedMutex THEN mutex = "free" /\ mutex' = who ELSE UNCHANGED mutex

Unlock ==
  IF SharedMutex THEN mutex' = "free" ELSE UNCHANGED mutex

-------------------------------------------------------------------------------
(* The editor.  A session opens with launch or attach; afterwards any      *)
(* request may follow any other, before or after the answer to the last.   *)

ClientSend(c) ==
  /\ ProcessAlive
  /\ ~hungUp
  /\ serve \notin {"returned", "failed"}
  /\ sent < MaxRequests
  /\ sent = 0 => c \in {"launch", "launchRun", "attach"}
  /\ wire' = Append(wire, c)
  /\ sent' = sent + 1
  /\ UNCHANGED <<setting, hungUp, serve, req, loop, runVars, panicked, mutex,
                 debuggee, terminated, hostVars>>

ClientHangUp ==
  /\ ProcessAlive
  /\ ~hungUp
  /\ hungUp' = TRUE
  /\ UNCHANGED <<setting, wire, sent, serve, req, loop, runVars, panicked,
                 mutex, debuggee, terminated, hostVars>>

-------------------------------------------------------------------------------
(* Serve and dispatch. *)

Unlocked(c) == c \in {"continue", "pause"}

(* A plausible slip: a dispatch that takes the mutex for no command. *)
DispatchUnlocked ==
  /\ ProcessAlive
  /\ serve = "read"
  /\ ~terminated
  /\ wire # <<>>
  /\ req' = Head(wire)
  /\ wire' = Tail(wire)
  /\ serve' = "handle"
  /\ UNCHANGED <<setting, hungUp, sent, loop, runVars, panicked, mutex,
                 debuggee, terminated, hostVars>>

ServeRead ==
  /\ ProcessAlive
  /\ serve = "read"
  /\ ~terminated
  /\ wire # <<>>
  /\ req' = Head(wire)
  /\ wire' = Tail(wire)
  /\ serve' = IF Unlocked(req') THEN "handle" ELSE "lock"
  /\ UNCHANGED <<setting, hungUp, sent, loop, runVars, panicked, mutex,
                 debuggee, terminated, hostVars>>

ServeLock ==
  /\ ProcessAlive
  /\ serve = "lock"
  /\ Lock("serve")
  /\ serve' = "handle"
  /\ UNCHANGED <<wireVars, req, loop, runVars, panicked, debuggee, terminated,
                 hostVars>>

(* The handler returns: its deferred unlock runs, Serve reads on. *)
Return ==
  /\ serve' = "read"
  /\ req' = NoRequest
  /\ IF Unlocked(req) THEN UNCHANGED mutex ELSE Unlock

Handling(c) ==
  /\ ProcessAlive
  /\ serve = "handle"
  /\ req = c

(* An error response; nothing else changes. *)
Refuse ==
  /\ Return
  /\ UNCHANGED <<wireVars, loop, runVars, panicked, debuggee, terminated,
                 hostVars>>

(* The three stores of handleContinue and autoStartRun, before `go`. *)
StartRun ==
  /\ pauseRequested' = FALSE
  /\ runs' = runs + 1
  /\ runDone' = runs'
  /\ running' = TRUE
  /\ serve' = "spawn"
  /\ UNCHANGED <<closed, mutex, req>>

(* A plausible slip: starting a run without asking whether one is going. *)
ContinueRegardless ==
  /\ Handling("continue")
  /\ StartRun
  /\ UNCHANGED <<wireVars, loop, panicked, debuggee, terminated, hostVars>>

HandleContinue ==
  /\ Handling("continue")
  /\ \/ (~debuggee \/ running) /\ Refuse
     \/ /\ debuggee /\ ~running
        /\ StartRun
        /\ UNCHANGED <<wireVars, loop, panicked, debuggee, terminated, hostVars>>

SpawnRun ==
  /\ ProcessAlive
  /\ serve = "spawn"
  /\ loop' = [loop EXCEPT ![runs] = "poll"]
  /\ Return
  /\ UNCHANGED <<wireVars, runVars, panicked, debuggee, terminated, hostVars>>

(* bootDebuggee may fail (no rom, a bad path); then there is no debuggee.  *)
(* With stopOnEntry: false autoStartRun starts a run.                      *)
HandleLaunch ==
  \E c \in {"launch", "launchRun"} :
    /\ Handling(c)
    /\ \/ Refuse
       \/ /\ ~debuggee
          /\ debuggee' = TRUE
          /\ IF c = "launchRun" /\ ~running
               THEN StartRun
               ELSE Return /\ UNCHANGED runVars
          /\ UNCHANGED <<wireVars, loop, panicked, terminated, hostVars>>

(* No debuggee, or arguments it cannot read: an error.  Nothing keeps an   *)
(* editor from attaching twice.                                            *)
HandleAttach ==
  /\ Handling("attach")
  /\ \/ Refuse
     \/ /\ debuggee
        /\ attaches' = IF HostKind = "gated" THEN attaches + 1 ELSE attaches
        /\ Return
        /\ UNCHANGED <<wireVars, loop, runVars, panicked, debuggee, terminated,
                       detaches, host>>

HandlePause ==
  /\ Handling("pause")
  /\ \/ ~running /\ Refuse
     \/ /\ running
        /\ pauseRequested' = TRUE
        /\ Return
        /\ UNCHANGED <<wireVars, loop, running, runDone, closed, runs, panicked,
                       debuggee, terminated, hostVars>>

TouchMachine ==
  /\ serve' = "machine"
  /\ UNCHANGED <<wireVars, req, loop, runVars, panicked, mutex, debuggee,
                 terminated, hostVars>>

(* A plausible slip: requireStopped forgetting the running check. *)
StepRegardless ==
  /\ Handling("step")
  /\ IF debuggee THEN TouchMachine ELSE Refuse

(* requireStopped *)
HandleStep ==
  /\ Handling("step")
  /\ IF debuggee /\ ~running THEN TouchMachine ELSE Refuse

HandleInspect ==
  /\ Handling("inspect")
  /\ IF debuggee THEN TouchMachine ELSE Refuse

MachineDone ==
  /\ ProcessAlive
  /\ serve = "machine"
  /\ Return
  /\ UNCHANGED <<wireVars, loop, runVars, panicked, debuggee, terminated,
                 hostVars>>

(* A plausible slip: waiting for the run loop without asking it to stop. *)
WaitWithoutAsking ==
  /\ Handling("disconnect")
  /\ serve' = IF running THEN "awaitRun" ELSE "finish"
  /\ UNCHANGED <<wireVars, req, loop, runVars, panicked, mutex, debuggee,
                 terminated, hostVars>>

(* stopRunLoop, first half: ask the run loop to stop. *)
HandleDisconnect ==
  /\ Handling("disconnect")
  /\ serve' = IF running THEN "awaitRun" ELSE "finish"
  /\ pauseRequested' = (running \/ pauseRequested)
  /\ UNCHANGED <<wireVars, req, loop, running, runDone, closed, runs, panicked,
                 mutex, debuggee, terminated, hostVars>>

(* stopRunLoop, second half: <-s.runDone.  The handler still holds cpuMu. *)
AwaitRun ==
  /\ ProcessAlive
  /\ serve = "awaitRun"
  /\ runDone \in closed
  /\ serve' = "finish"
  /\ UNCHANGED <<wireVars, req, loop, runVars, panicked, mutex, debuggee,
                 terminated, hostVars>>

(* A plausible slip: firing the callback on every exit path. *)
FireAlways ==
  IF HostKind = "gated" /\ attaches > 0
    THEN detaches' = detaches + 1
    ELSE UNCHANGED detaches

FireDisconnected ==
  IF HostKind = "gated" /\ attaches > 0 /\ detaches = 0
    THEN detaches' = 1
    ELSE UNCHANGED detaches

FinishDisconnect ==
  /\ ProcessAlive
  /\ serve = "finish"
  /\ terminated' = TRUE
  /\ FireDisconnected
  /\ Return
  /\ UNCHANGED <<wireVars, loop, runVars, panicked, debuggee, attaches, host>>

(* Serve returns: nil once terminated; an error when the wire is closed,   *)
(* because ReadMessage wraps io.EOF and Serve compares with ==.            *)
ServeReturn ==
  /\ ProcessAlive
  /\ serve = "read"
  /\ \/ terminated /\ serve' = "returned"
     \/ ~terminated /\ wire = <<>> /\ hungUp /\ serve' = "failed"
  /\ FireDisconnected
  /\ UNCHANGED <<wireVars, req, loop, runVars, panicked, mutex, debuggee,
                 terminated, attaches, host>>

-------------------------------------------------------------------------------
(* The run-loop goroutine of run k. *)

LoopStep(k, from) == ProcessAlive /\ loop[k] = from

Goto(k, place) == loop' = [loop EXCEPT ![k] = place]

(* A plausible slip: the loop stops for its own reasons only. *)
PollNothing(k) ==
  /\ LoopStep(k, "poll")
  /\ Goto(k, "lock")
  /\ UNCHANGED <<wireVars, serve, req, runVars, panicked, mutex, debuggee,
                 terminated, hostVars>>

LoopPoll(k) ==
  /\ LoopStep(k, "poll")
  /\ Goto(k, IF pauseRequested THEN "emit" ELSE "lock")
  /\ UNCHANGED <<wireVars, serve, req, runVars, panicked, mutex, debuggee,
                 terminated, hostVars>>

LoopLock(k) ==
  /\ LoopStep(k, "lock")
  /\ Lock("loop")
  /\ Goto(k, "iterate")
  /\ UNCHANGED <<wireVars, serve, req, runVars, panicked, debuggee, terminated,
                 hostVars>>

(* runLoopIter ran one instruction: stop, go on, or first report state.    *)
LoopIterate(k) ==
  /\ LoopStep(k, "iterate")
  /\ Unlock
  /\ \E place \in {"poll", "state", "emit"} : Goto(k, place)
  /\ UNCHANGED <<wireVars, serve, req, runVars, panicked, debuggee, terminated,
                 hostVars>>

(* sendChippyState: lock, copy the registers and dirty bytes, unlock. *)
LoopState(k) ==
  /\ LoopStep(k, "state")
  /\ SharedMutex => mutex = "free"
  /\ Goto(k, "poll")
  /\ UNCHANGED <<wireVars, serve, req, runVars, panicked, mutex, debuggee,
                 terminated, hostVars>>

(* The `stopped` event goes out before the deferred clean-up runs. *)
LoopEmit(k) ==
  /\ LoopStep(k, "emit")
  /\ Goto(k, "clear")
  /\ UNCHANGED <<wireVars, serve, req, runVars, panicked, mutex, debuggee,
                 terminated, hostVars>>

LoopClear(k) ==
  /\ LoopStep(k, "clear")
  /\ running' = FALSE
  /\ Goto(k, "close")
  /\ UNCHANGED <<wireVars, serve, req, pauseRequested, runDone, closed, runs,
                 panicked, mutex, debuggee, terminated, hostVars>>

(* close(s.runDone): whatever channel the field refers to by now. *)
LoopClose(k) ==
  /\ LoopStep(k, "close")
  /\ panicked' = (runDone \in closed)
  /\ closed' = closed \cup {runDone}
  /\ Goto(k, "gone")
  /\ UNCHANGED <<wireVars, serve, req, running, pauseRequested, runDone, runs,
                 mutex, debuggee, terminated, hostVars>>

-------------------------------------------------------------------------------
(* The hosting TUI: Model.step takes CPUMu, the `<` and `R` keys and       *)
(* :rewind do not.                                                         *)

HostStep ==
  /\ ProcessAlive
  /\ HostKind = "tui"
  /\ host = "idle"
  /\ Lock("host")
  /\ host' = "stepping"
  /\ UNCHANGED <<wireVars, serve, req, loop, runVars, panicked, debuggee,
                 terminated, attaches, detaches>>

HostStepDone ==
  /\ ProcessAlive
  /\ host = "stepping"
  /\ Unlock
  /\ host' = "idle"
  /\ UNCHANGED <<wireVars, serve, req, loop, runVars, panicked, debuggee,
                 terminated, attaches, detaches>>

HostRewind ==
  /\ ProcessAlive
  /\ HostKind = "tui"
  /\ host = "idle"
  /\ host' = "rewinding"
  /\ UNCHANGED <<wireVars, serve, req, loop, runVars, panicked, mutex, debuggee,
                 terminated, attaches, detaches>>

HostRewindDone ==
  /\ ProcessAlive
  /\ host = "rewinding"
  /\ host' = "idle"
  /\ UNCHANGED <<wireVars, serve, req, loop, runVars, panicked, mutex, debuggee,
                 terminated, attaches, detaches>>

-------------------------------------------------------------------------------

ClientNext == (\E c \in Commands : ClientSend(c)) \/ ClientHangUp

ServeNext ==
  \/ ServeRead \/ ServeLock
  \/ HandleContinue \/ SpawnRun \/ HandleLaunch \/ HandleAttach
  \/ HandlePause \/ HandleStep \/ HandleInspect \/ MachineDone
  \/ HandleDisconnect \/ AwaitRun \/ FinishDisconnect
  \/ ServeReturn

LoopNext(k) ==
  \/ LoopPoll(k) \/ LoopLock(k) \/ LoopIterate(k) \/ LoopState(k)
  \/ LoopEmit(k) \/ LoopClear(k) \/ LoopClose(k)

HostNext == HostStep \/ HostStepDone \/ HostRewind \/ HostRewindDone

Next == ClientNext \/ ServeNext \/ (\E k \in Runs : LoopNext(k)) \/ HostNext

Spec == Init /\ [][Next]_vars

(* Goroutines that can run do run, and sync.Mutex hands itself to a waiter *)
(* that waits long enough (its starvation mode): weak fairness for every   *)
(* goroutine, strong for the acquisitions.  The editor and the user at the *)
(* TUI owe nothing, except that a started TUI step ends.                   *)
Fairness ==
  /\ WF_vars(ServeNext) /\ SF_vars(ServeLock)
  /\ \A k \in Runs : /\ WF_vars(LoopNext(k))
                     /\ SF_vars(LoopLock(k) \/ LoopState(k))
  /\ WF_vars(HostStepDone \/ HostRewindDone)

FairSpec == Spec /\ Fairness

-------------------------------------------------------------------------------
(* Properties. *)

TypeOK ==
  /\ setting \in Settings
  /\ wire \in Seq(AllCommands)
  /\ hungUp \in BOOLEAN
  /\ sent \in 0 .. MaxRequests
  /\ serve \in ServePlaces
  /\ req \in AllCommands \cup {NoRequest}
  /\ loop \in [Runs -> LoopPlaces]
  /\ runs \in 0 .. MaxRequests
  /\ running \in BOOLEAN
  /\ pauseRequested \in BOOLEAN
  /\ runDone \in 0 .. MaxRequests
  /\ closed \subseteq Runs
  /\ panicked \in BOOLEAN
  /\ mutex \in {"free", "serve", "loop", "host"}
  /\ debuggee \in BOOLEAN
  /\ terminated \in BOOLEAN
  /\ attaches \in Nat
  /\ detaches \in Nat
  /\ host \in HostPlaces

(* Two run loops never step the same CPU: the goroutine a continue spawns  *)
(* is the only live one until it has cleared `running` (handleContinue's   *)
(* "already running" check and the order of runLoop's deferred clean-up).  *)
OneLiveRun == \A j, k \in Runs : Live(j) /\ Live(k) => j = k

(* The promise runLoop rests on: a single-step handler drives the CPU only *)
(* while no run loop is live or about to be spawned.                       *)
StepsOnlyWhenStopped ==
  serve = "machine" /\ req = "step" =>
    LiveRuns = {} /\ ~running

(* Who is inside an instruction or a handler that touches the machine. *)
AtMachine ==
  (IF serve = "machine" THEN {"serve"} ELSE {})
    \cup (IF \E k \in Runs : loop[k] = "iterate" THEN {"loop"} ELSE {})
    \cup (IF host = "stepping" THEN {"host"} ELSE {})

(* With a shared mutex, "steps from either side never race" (docs/dap.md): *)
(* Serve, the run loop and the TUI's step take turns at the machine.       *)
StepsNeverRace == SharedMutex => Cardinality(AtMachine) <= 1

(* runLoop clears `running` and then closes the channel the field refers   *)
(* to.  A continue that is handled in between starts a run with a channel  *)
(* of its own, and the old loop closes that one instead: from then on a    *)
(* disconnect finds the channel of a live run closed and does not wait for *)
(* it, and the end of that run closes it again, which kills the process.   *)
Overtaken ==
  \E k \in Runs : loop[k] \in {"close", "gone"} /\ k \notin closed /\ runDone # k

(* A pause that was accepted ends the run it was meant for, whatever the   *)
(* order of the pause, the spawn and the loop's own reasons to stop, as    *)
(* long as no run was overtaken.  That the process dies of a panic is no   *)
(* end of a run.                                                           *)
PauseStopsRun ==
  \A k \in Runs :
    (Live(k) /\ pauseRequested /\ ~Overtaken) ~> (~Live(k) \/ Exited)

(* "disconnect / terminate: Tears down the run goroutine, closes the trace *)
(* file, exits" (docs/dap.md): unless a run was overtaken, a disconnect    *)
(* gets to its end, and when it does no run loop is left.                  *)
DisconnectCompletes ==
  (req = "disconnect" /\ ~Overtaken) ~> (terminated /\ LiveRuns = {})

(* OnDisconnected "exactly once per Server, AND only if a paired           *)
(* OnAttached has actually fired": never for a probe connection, never     *)
(* twice although both disconnect and Serve's exit fire it, and never      *)
(* forgotten when Serve is gone.                                           *)
DisconnectFiresOnce ==
  /\ detaches <= 1
  /\ detaches > 0 => attaches > 0
  /\ HostKind = "gated" /\ serve \in {"returned", "failed"} /\ attaches > 0 =>
       detaches = 1

===============================================================================
