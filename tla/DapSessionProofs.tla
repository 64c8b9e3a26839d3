--------------------------- MODULE DapSessionProofs ---------------------------
(***************************************************************************)
(* Proofs about DapSession for every number of requests and every choice   *)
(* of settings: every command set and kind of host, with and without a     *)
(* shared mutex.                                                           *)
(*                                                                         *)
(* OneLiveRun and StepsOnlyWhenStopped are not inductive: they need to     *)
(* know that a live run loop has `running` set, that a run announced but   *)
(* not yet spawned is the only one, and that a run implies a debuggee.     *)
(* TypeOK is not inductive either: that a run loop has a channel to close  *)
(* and that the k-th run has a request of its own are part of IInv.        *)
(***************************************************************************)
EXTENDS DapSession, FiniteSetTheorems, TLAPS

(* A request that may still start a run. *)
InFlight == IF serve \in {"lock", "handle"} THEN 1 ELSE 0

(* Every run loop was started by a request of its own. *)
RunsBounded == runs + Len(wire) + InFlight <= sent

Control ==
  \* Run loops are spawned in order, after they were announced.
  /\ \A k \in Runs :
       (k > runs \/ (k = runs /\ serve = "spawn")) => loop[k] = "none"
  \* A run has a channel to close.
  /\ runs # 0 => runDone # 0
  \* Between handleContinue's stores and its `go`, no run loop is live.
  /\ serve = "spawn" => runs # 0 /\ running /\ \A k \in Runs : ~Live(k)
  \* `running` covers every live run loop, and a run needs a debuggee.
  /\ \A k \in Runs : Live(k) => running
  /\ running => debuggee
  /\ OneLiveRun
  /\ StepsOnlyWhenStopped

IInv == TypeOK /\ RunsBounded /\ Control

-------------------------------------------------------------------------------
(* An error response keeps the invariant, whatever the request. *)
LEMMA RefuseKeeps ==
  ASSUME IInv, serve = "handle", Refuse
  PROVE  IInv'
<1>1. /\ serve' = "read" /\ req' = NoRequest /\ mutex' \in {mutex, "free"}
      /\ UNCHANGED <<setting, wire, hungUp, sent, loop, running, pauseRequested,
                     runDone, closed, runs, panicked, debuggee, terminated,
                     attaches, detaches, host>>
  BY DEF Refuse, Return, Unlock, wireVars, runVars, hostVars
<1>2. TypeOK'  BY <1>1 DEF IInv, TypeOK, ServePlaces
<1>3. RunsBounded'  BY <1>1 DEF IInv, RunsBounded, InFlight, TypeOK
<1>4. Control'
  BY <1>1 DEF IInv, Control, OneLiveRun, StepsOnlyWhenStopped, LiveRuns, Live
<1>5. QED  BY <1>2, <1>3, <1>4 DEF IInv

(* Starting a run keeps it, given that none is on. *)
LEMMA StartRunKeeps ==
  ASSUME IInv, serve = "handle", ~running, debuggee' = TRUE, StartRun,
         UNCHANGED <<wireVars, loop, panicked, terminated, hostVars>>
  PROVE  IInv'
<1>1. /\ runs + Len(wire) + 1 <= sent
      /\ runs' = runs + 1 /\ sent' = sent /\ wire' = wire
      /\ runs' \in Runs /\ serve' = "spawn"
  BY SessionAssumption
     DEF IInv, RunsBounded, InFlight, StartRun, TypeOK, wireVars, Runs
<1>2. TypeOK'
  <2>1. /\ pauseRequested' \in BOOLEAN
        /\ running' \in BOOLEAN
        /\ debuggee' \in BOOLEAN
    BY DEF StartRun
  <2>2. /\ runDone' \in 0 .. MaxRequests
        /\ runs' \in 0 .. MaxRequests
        /\ serve' \in ServePlaces
    BY <1>1, SessionAssumption DEF StartRun, ServePlaces, Runs
  <2>3. UNCHANGED <<setting, wire, hungUp, sent, req, loop, closed, panicked, mutex,
                    terminated, attaches, detaches, host>>
    BY DEF StartRun, wireVars, hostVars
  <2>4. QED  BY <2>1, <2>2, <2>3 DEF IInv, TypeOK
<1>3. RunsBounded'
  BY <1>1 DEF IInv, RunsBounded, InFlight, TypeOK
<1>4. \A k \in Runs : ~Live(k) /\ loop'[k] = loop[k]
  BY DEF IInv, Control
<1>5. runDone' = runs' /\ running' = TRUE
  BY DEF StartRun
<1>6. Control'
  BY <1>1, <1>4, <1>5
     DEF IInv, TypeOK, Runs, Control, OneLiveRun, StepsOnlyWhenStopped,
         LiveRuns, Live
<1>7. QED  BY <1>2, <1>3, <1>6 DEF IInv

(* The handlers that refuse, start a run or touch the machine. *)
LEMMA Handlers ==
  ASSUME IInv
  PROVE  /\ HandleContinue => IInv'
         /\ HandleLaunch => IInv'
         /\ HandleAttach => IInv'
         /\ HandlePause => IInv'
         /\ HandleStep => IInv'
         /\ HandleInspect => IInv'
<1>1. ASSUME HandleContinue PROVE IInv'
  BY <1>1, RefuseKeeps, StartRunKeeps
     DEF HandleContinue, Handling, IInv, TypeOK
<1>2. ASSUME HandleLaunch PROVE IInv'
  <2>1. /\ serve = "handle"
        /\ \/ Refuse
           \/ /\ ~debuggee /\ debuggee' = TRUE
              /\ ~running
              /\ StartRun \/ (Return /\ UNCHANGED runVars)
              /\ UNCHANGED <<wireVars, loop, panicked, terminated, hostVars>>
    BY <1>2 DEF HandleLaunch, Handling, IInv, Control
  <2>2. CASE Refuse
    BY <2>1, <2>2, RefuseKeeps
  <2>3. CASE /\ ~running /\ debuggee' = TRUE /\ StartRun
             /\ UNCHANGED <<wireVars, loop, panicked, terminated, hostVars>>
    BY <2>1, <2>3, StartRunKeeps
  <2>4. CASE /\ ~running /\ debuggee' = TRUE /\ Return
             /\ UNCHANGED <<wireVars, loop, runVars, panicked, terminated,
                            hostVars>>
    <3>1. /\ serve' = "read" /\ req' = NoRequest
          /\ mutex' \in {mutex, "free"} /\ debuggee' \in BOOLEAN
      BY <2>4 DEF Return, Unlock
    <3>2. TypeOK'
      BY <2>4, <3>1
         DEF IInv, TypeOK, wireVars, runVars, hostVars, ServePlaces
    <3>3. RunsBounded'
      BY <2>1, <2>4, <3>1
         DEF IInv, RunsBounded, InFlight, TypeOK, wireVars, runVars
    <3>4. Control'
      BY <2>4, <3>1
         DEF IInv, runVars, Control, OneLiveRun, StepsOnlyWhenStopped,
             LiveRuns, Live
    <3>5. QED  BY <3>2, <3>3, <3>4 DEF IInv
  <2>5. QED  BY <2>1, <2>2, <2>3, <2>4
<1>3. ASSUME HandleAttach PROVE IInv'
  <2>1. CASE Refuse
    BY <1>3, <2>1, RefuseKeeps DEF HandleAttach, Handling
  <2>2. CASE ~Refuse
    <3>1. /\ serve = "handle" /\ Return
          /\ attaches' \in {attaches, attaches + 1}
          /\ UNCHANGED <<wireVars, loop, runVars, panicked, debuggee,
                         terminated, detaches, host>>
      BY <1>3, <2>2 DEF HandleAttach, Handling
    <3>2. /\ serve' = "read" /\ req' = NoRequest
          /\ mutex' \in {mutex, "free"}
      BY <3>1 DEF Return, Unlock
    <3>3. TypeOK'
      BY <3>1, <3>2
         DEF IInv, TypeOK, wireVars, runVars, hostVars, ServePlaces
    <3>4. RunsBounded'
      BY <3>1, <3>2
         DEF IInv, RunsBounded, InFlight, TypeOK, wireVars, runVars
    <3>5. Control'
      BY <3>1, <3>2
         DEF IInv, runVars, Control, OneLiveRun, StepsOnlyWhenStopped,
             LiveRuns, Live
    <3>6. QED  BY <3>3, <3>4, <3>5 DEF IInv
  <2>3. QED  BY <2>1, <2>2
<1>4. ASSUME HandlePause PROVE IInv'
  <2>1. CASE Refuse
    BY <1>4, <2>1, RefuseKeeps DEF HandlePause, Handling
  <2>2. CASE ~Refuse
    <3>1. /\ serve = "handle" /\ Return /\ pauseRequested' = TRUE
          /\ UNCHANGED <<wireVars, loop, running, runDone, closed, runs,
                         panicked, debuggee, terminated, hostVars>>
      BY <1>4, <2>2 DEF HandlePause, Handling
    <3>2. /\ serve' = "read" /\ req' = NoRequest
          /\ mutex' \in {mutex, "free"}
      BY <3>1 DEF Return, Unlock
    <3>3. TypeOK'
      BY <3>1, <3>2
         DEF IInv, TypeOK, wireVars, runVars, hostVars, ServePlaces
    <3>4. RunsBounded'
      BY <3>1, <3>2
         DEF IInv, RunsBounded, InFlight, TypeOK, wireVars, runVars
    <3>5. Control'
      BY <3>1, <3>2
         DEF IInv, runVars, Control, OneLiveRun, StepsOnlyWhenStopped,
             LiveRuns, Live
    <3>6. QED  BY <3>3, <3>4, <3>5 DEF IInv
  <2>3. QED  BY <2>1, <2>2
<1>5. ASSUME HandleStep PROVE IInv'
  <2>1. CASE Refuse
    BY <1>5, <2>1, RefuseKeeps DEF HandleStep, Handling
  <2>2. CASE ~Refuse
    <3>1. serve = "handle" /\ ~running /\ TouchMachine
      BY <1>5, <2>2 DEF HandleStep, Handling
    <3>2. TypeOK'
      BY <3>1 DEF IInv, TouchMachine, TypeOK, wireVars, runVars, hostVars,
                  ServePlaces
    <3>3. RunsBounded'
      BY <3>1 DEF IInv, TouchMachine, RunsBounded, InFlight, TypeOK, wireVars,
                  runVars
    <3>4. Control'
      BY <3>1
         DEF IInv, TouchMachine, runVars, Control, OneLiveRun,
             StepsOnlyWhenStopped, LiveRuns, Live
    <3>5. QED  BY <3>2, <3>3, <3>4 DEF IInv
  <2>3. QED  BY <2>1, <2>2
<1>6. ASSUME HandleInspect PROVE IInv'
  <2>1. CASE Refuse
    BY <1>6, <2>1, RefuseKeeps DEF HandleInspect, Handling
  <2>2. CASE ~Refuse
    <3>1. serve = "handle" /\ req # "step" /\ TouchMachine
      BY <1>6, <2>2 DEF HandleInspect, Handling
    <3>2. TypeOK'
      BY <3>1 DEF IInv, TouchMachine, TypeOK, wireVars, runVars, hostVars,
                  ServePlaces
    <3>3. RunsBounded'
      BY <3>1 DEF IInv, TouchMachine, RunsBounded, InFlight, TypeOK, wireVars,
                  runVars
    <3>4. Control'
      BY <3>1
         DEF IInv, TouchMachine, runVars, Control, OneLiveRun,
             StepsOnlyWhenStopped, LiveRuns, Live
    <3>5. QED  BY <3>2, <3>3, <3>4 DEF IInv
  <2>3. QED  BY <2>1, <2>2
<1>7. QED  BY <1>1, <1>2, <1>3, <1>4, <1>5, <1>6

(* Serve takes a request off the wire. *)
LEMMA ReadKeeps ==
  ASSUME IInv, ServeRead
  PROVE  IInv'
<1>1. /\ Head(wire) \in AllCommands /\ Tail(wire) \in Seq(AllCommands)
      /\ Len(Tail(wire)) = Len(wire) - 1 /\ Len(wire) \in Nat
  BY DEF IInv, TypeOK, ServeRead
<1>2. /\ wire' \in Seq(AllCommands) /\ req' \in AllCommands
      /\ serve' \in {"handle", "lock"} /\ serve = "read"
      /\ Len(wire') = Len(wire) - 1
      /\ UNCHANGED <<setting, hungUp, sent, loop, runVars, panicked, mutex,
                     debuggee, terminated, hostVars>>
  BY <1>1 DEF ServeRead
<1>3. TypeOK'
  BY <1>2 DEF IInv, TypeOK, runVars, hostVars, ServePlaces
<1>4. RunsBounded'
  BY <1>1, <1>2 DEF IInv, RunsBounded, InFlight, TypeOK, runVars
<1>5. Control'
  BY <1>2
     DEF IInv, runVars, Control, OneLiveRun, StepsOnlyWhenStopped, LiveRuns,
         Live
<1>6. QED  BY <1>3, <1>4, <1>5 DEF IInv

(* A run loop clears `running`: it was the only live one. *)
LEMMA ClearKeeps ==
  ASSUME IInv, NEW k \in Runs, LoopClear(k)
  PROVE  IInv'
<1>1. loop[k] = "clear" /\ Live(k) /\ serve # "spawn"
  BY DEF IInv, LoopClear, LoopStep, Live, Control
<1>2. loop' = [loop EXCEPT ![k] = "close"] /\ loop \in [Runs -> LoopPlaces]
  BY DEF IInv, TypeOK, LoopClear, Goto
<1>3. \A j \in Runs : ~Live(j)'
  BY <1>1, <1>2 DEF IInv, Control, OneLiveRun, Live
<1>4. /\ running' = FALSE
      /\ UNCHANGED <<wireVars, serve, req, pauseRequested, runDone, closed,
                     runs, panicked, mutex, debuggee, terminated, hostVars>>
  BY DEF LoopClear
<1>5. TypeOK'
  <2>1. running' \in BOOLEAN  BY <1>4
  <2>2. loop' \in [Runs -> LoopPlaces]  BY <1>2 DEF LoopPlaces
  <2>3. QED  BY <1>4, <2>1, <2>2 DEF IInv, TypeOK, wireVars, hostVars
<1>6. RunsBounded'
  BY <1>4 DEF IInv, wireVars, RunsBounded, InFlight
<1>7. Control'
  BY <1>1, <1>2, <1>3, <1>4
     DEF IInv, Control, OneLiveRun, StepsOnlyWhenStopped, LiveRuns
<1>8. QED  BY <1>5, <1>6, <1>7 DEF IInv

(* The editor only adds to the wire. *)
LEMMA ClientKeeps ==
  ASSUME IInv, ClientNext
  PROVE  IInv'
<1>1. ASSUME NEW c \in Commands, ClientSend(c) PROVE IInv'
  <2>1. TypeOK'
    <3>1. c \in AllCommands
      BY SessionAssumption DEF IInv, TypeOK, Setting, Commands
    <3>2. wire' \in Seq(AllCommands) /\ sent' \in 0 .. MaxRequests
      BY <1>1, <3>1, SessionAssumption DEF ClientSend, IInv, TypeOK
    <3>3. QED
      BY <1>1, <3>2 DEF ClientSend, IInv, TypeOK, runVars, hostVars
  <2>2. RunsBounded'
    BY <1>1
       DEF IInv, ClientSend, RunsBounded, InFlight, TypeOK, wireVars, runVars
  <2>3. Control'
    BY <1>1
       DEF IInv, ClientSend, runVars, Control, OneLiveRun,
           StepsOnlyWhenStopped, LiveRuns, Live
  <2>4. QED  BY <2>1, <2>2, <2>3 DEF IInv
<1>2. ASSUME ClientHangUp PROVE IInv'
  <2>1. TypeOK'
    BY <1>2 DEF IInv, ClientHangUp, TypeOK, wireVars, runVars, hostVars
  <2>2. RunsBounded'
    BY <1>2
       DEF IInv, ClientHangUp, RunsBounded, InFlight, TypeOK, wireVars, runVars
  <2>3. Control'
    BY <1>2
       DEF IInv, ClientHangUp, runVars, Control, OneLiveRun,
           StepsOnlyWhenStopped, LiveRuns, Live
  <2>4. QED  BY <2>1, <2>2, <2>3 DEF IInv
<1>3. QED  BY <1>1, <1>2 DEF ClientNext

(* The Serve goroutine: the steps that start, refuse or inspect are above. *)
LEMMA ServeKeeps ==
  ASSUME IInv, ServeNext
  PROVE  IInv'
<1>1. ASSUME ServeLock PROVE IInv'
  <2>1. TypeOK'
    BY <1>1
       DEF IInv, ServeLock, Lock, TypeOK, wireVars, runVars, hostVars,
           ServePlaces
  <2>2. RunsBounded'
    BY <1>1
       DEF IInv, ServeLock, Lock, RunsBounded, InFlight, TypeOK, wireVars,
           runVars
  <2>3. Control'
    BY <1>1
       DEF IInv, ServeLock, Lock, runVars, Control, OneLiveRun,
           StepsOnlyWhenStopped, LiveRuns, Live
  <2>4. QED  BY <2>1, <2>2, <2>3 DEF IInv
<1>2. ASSUME SpawnRun PROVE IInv'
  <2>1. TypeOK'
    BY <1>2, SessionAssumption
       DEF IInv, SpawnRun, Return, Unlock, TypeOK, wireVars, runVars, hostVars,
           ServePlaces, LoopPlaces, Runs
  <2>2. RunsBounded'
    BY <1>2
       DEF IInv, SpawnRun, Return, Unlock, RunsBounded, InFlight, TypeOK,
           wireVars, runVars
  <2>3. Control'
    BY <1>2
       DEF IInv, SpawnRun, Return, Unlock, runVars, Control, OneLiveRun,
           StepsOnlyWhenStopped, LiveRuns, Live, TypeOK
  <2>4. QED  BY <2>1, <2>2, <2>3 DEF IInv
<1>3. ASSUME MachineDone PROVE IInv'
  <2>1. TypeOK'
    BY <1>3
       DEF IInv, MachineDone, Return, Unlock, TypeOK, wireVars, runVars,
           hostVars, ServePlaces
  <2>2. RunsBounded'
    BY <1>3
       DEF IInv, MachineDone, Return, Unlock, RunsBounded, InFlight, TypeOK,
           wireVars, runVars
  <2>3. Control'
    BY <1>3
       DEF IInv, MachineDone, Return, Unlock, runVars, Control, OneLiveRun,
           StepsOnlyWhenStopped, LiveRuns, Live
  <2>4. QED  BY <2>1, <2>2, <2>3 DEF IInv
<1>4. ASSUME HandleDisconnect PROVE IInv'
  <2>1. TypeOK'
    BY <1>4
       DEF IInv, HandleDisconnect, Handling, TypeOK, wireVars, runVars,
           hostVars, ServePlaces
  <2>2. RunsBounded'
    BY <1>4
       DEF IInv, HandleDisconnect, Handling, RunsBounded, InFlight, TypeOK,
           wireVars, runVars
  <2>3. Control'
    BY <1>4
       DEF IInv, HandleDisconnect, Handling, runVars, Control, OneLiveRun,
           StepsOnlyWhenStopped, LiveRuns, Live
  <2>4. QED  BY <2>1, <2>2, <2>3 DEF IInv
<1>5. ASSUME AwaitRun PROVE IInv'
  <2>1. TypeOK'
    BY <1>5
       DEF IInv, AwaitRun, TypeOK, wireVars, runVars, hostVars, ServePlaces
  <2>2. RunsBounded'
    BY <1>5
       DEF IInv, AwaitRun, RunsBounded, InFlight, TypeOK, wireVars, runVars
  <2>3. Control'
    BY <1>5
       DEF IInv, AwaitRun, runVars, Control, OneLiveRun, StepsOnlyWhenStopped,
           LiveRuns, Live
  <2>4. QED  BY <2>1, <2>2, <2>3 DEF IInv
<1>6. ASSUME FinishDisconnect PROVE IInv'
  <2>1. TypeOK'
    BY <1>6
       DEF IInv, FinishDisconnect, Return, Unlock, FireDisconnected, TypeOK,
           wireVars, runVars, hostVars, ServePlaces
  <2>2. RunsBounded'
    BY <1>6
       DEF IInv, FinishDisconnect, Return, Unlock, FireDisconnected,
           RunsBounded, InFlight, TypeOK, wireVars, runVars
  <2>3. Control'
    BY <1>6
       DEF IInv, FinishDisconnect, Return, Unlock, FireDisconnected, runVars,
           Control, OneLiveRun, StepsOnlyWhenStopped, LiveRuns, Live
  <2>4. QED  BY <2>1, <2>2, <2>3 DEF IInv
<1>7. ASSUME ServeReturn PROVE IInv'
  <2>1. TypeOK'
    BY <1>7
       DEF IInv, ServeReturn, FireDisconnected, TypeOK, wireVars, runVars,
           hostVars, ServePlaces
  <2>2. RunsBounded'
    BY <1>7
       DEF IInv, ServeReturn, FireDisconnected, RunsBounded, InFlight, TypeOK,
           wireVars, runVars
  <2>3. Control'
    BY <1>7
       DEF IInv, ServeReturn, FireDisconnected, runVars, Control, OneLiveRun,
           StepsOnlyWhenStopped, LiveRuns, Live
  <2>4. QED  BY <2>1, <2>2, <2>3 DEF IInv
<1>8. QED
  BY <1>1, <1>2, <1>3, <1>4, <1>5, <1>6, <1>7, Handlers, ReadKeeps
     DEF ServeNext

(* The run loops. *)
LEMMA LoopKeeps ==
  ASSUME IInv, NEW k \in Runs, LoopNext(k)
  PROVE  IInv'
<1>1. ASSUME LoopPoll(k) PROVE IInv'
  <2>1. TypeOK'
    BY <1>1
       DEF IInv, LoopPoll, LoopStep, Goto, TypeOK, wireVars, runVars, hostVars,
           LoopPlaces
  <2>2. RunsBounded'
    BY <1>1
       DEF IInv, LoopPoll, LoopStep, Goto, RunsBounded, InFlight, TypeOK,
           wireVars, runVars
  <2>3. Control'
    BY <1>1
       DEF IInv, LoopPoll, LoopStep, Goto, runVars, Control, OneLiveRun,
           StepsOnlyWhenStopped, LiveRuns, Live, TypeOK
  <2>4. QED  BY <2>1, <2>2, <2>3 DEF IInv
<1>2. ASSUME LoopLock(k) PROVE IInv'
  <2>1. TypeOK'
    BY <1>2
       DEF IInv, LoopLock, LoopStep, Goto, Lock, TypeOK, wireVars, runVars,
           hostVars, LoopPlaces
  <2>2. RunsBounded'
    BY <1>2
       DEF IInv, LoopLock, LoopStep, Goto, Lock, RunsBounded, InFlight, TypeOK,
           wireVars, runVars
  <2>3. Control'
    BY <1>2
       DEF IInv, LoopLock, LoopStep, Goto, Lock, runVars, Control, OneLiveRun,
           StepsOnlyWhenStopped, LiveRuns, Live, TypeOK
  <2>4. QED  BY <2>1, <2>2, <2>3 DEF IInv
<1>3. ASSUME LoopIterate(k) PROVE IInv'
  <2>1. TypeOK'
    BY <1>3
       DEF IInv, LoopIterate, LoopStep, Goto, Unlock, TypeOK, wireVars,
           runVars, hostVars, LoopPlaces
  <2>2. RunsBounded'
    BY <1>3
       DEF IInv, LoopIterate, LoopStep, Goto, Unlock, RunsBounded, InFlight,
           TypeOK, wireVars, runVars
  <2>3. Control'
    BY <1>3
       DEF IInv, LoopIterate, LoopStep, Goto, Unlock, runVars, Control,
           OneLiveRun, StepsOnlyWhenStopped, LiveRuns, Live, TypeOK
  <2>4. QED  BY <2>1, <2>2, <2>3 DEF IInv
<1>4. ASSUME LoopState(k) PROVE IInv'
  <2>1. TypeOK'
    BY <1>4
       DEF IInv, LoopState, LoopStep, Goto, TypeOK, wireVars, runVars,
           hostVars, LoopPlaces
  <2>2. RunsBounded'
    BY <1>4
       DEF IInv, LoopState, LoopStep, Goto, RunsBounded, InFlight, TypeOK,
           wireVars, runVars
  <2>3. Control'
    BY <1>4
       DEF IInv, LoopState, LoopStep, Goto, runVars, Control, OneLiveRun,
           StepsOnlyWhenStopped, LiveRuns, Live, TypeOK
  <2>4. QED  BY <2>1, <2>2, <2>3 DEF IInv
<1>5. ASSUME LoopEmit(k) PROVE IInv'
  <2>1. TypeOK'
    BY <1>5
       DEF IInv, LoopEmit, LoopStep, Goto, TypeOK, wireVars, runVars, hostVars,
           LoopPlaces
  <2>2. RunsBounded'
    BY <1>5
       DEF IInv, LoopEmit, LoopStep, Goto, RunsBounded, InFlight, TypeOK,
           wireVars, runVars
  <2>3. Control'
    BY <1>5
       DEF IInv, LoopEmit, LoopStep, Goto, runVars, Control, OneLiveRun,
           StepsOnlyWhenStopped, LiveRuns, Live, TypeOK
  <2>4. QED  BY <2>1, <2>2, <2>3 DEF IInv
<1>6. ASSUME LoopClose(k) PROVE IInv'
  <2>1. TypeOK'
    BY <1>6, SessionAssumption
       DEF IInv, LoopClose, LoopStep, Goto, TypeOK, wireVars, runVars,
           hostVars, LoopPlaces, Runs, Control
  <2>2. RunsBounded'
    BY <1>6
       DEF IInv, LoopClose, LoopStep, Goto, RunsBounded, InFlight, TypeOK,
           wireVars, runVars
  <2>3. Control'
    BY <1>6
       DEF IInv, LoopClose, LoopStep, Goto, runVars, Control, OneLiveRun,
           StepsOnlyWhenStopped, LiveRuns, Live, TypeOK
  <2>4. QED  BY <2>1, <2>2, <2>3 DEF IInv
<1>7. QED  BY <1>1, <1>2, <1>3, <1>4, <1>5, <1>6, ClearKeeps DEF LoopNext

(* The hosting TUI touches nothing of the session but the mutex. *)
LEMMA HostKeeps ==
  ASSUME IInv, HostNext
  PROVE  IInv'
<1>1. ASSUME HostStep PROVE IInv'
  <2>1. TypeOK'
    BY <1>1
       DEF IInv, HostStep, Lock, TypeOK, wireVars, runVars, hostVars,
           HostPlaces
  <2>2. RunsBounded'
    BY <1>1
       DEF IInv, HostStep, Lock, RunsBounded, InFlight, TypeOK, wireVars,
           runVars
  <2>3. Control'
    BY <1>1
       DEF IInv, HostStep, Lock, runVars, Control, OneLiveRun,
           StepsOnlyWhenStopped, LiveRuns, Live
  <2>4. QED  BY <2>1, <2>2, <2>3 DEF IInv
<1>2. ASSUME HostStepDone PROVE IInv'
  <2>1. TypeOK'
    BY <1>2
       DEF IInv, HostStepDone, Unlock, TypeOK, wireVars, runVars, hostVars,
           HostPlaces
  <2>2. RunsBounded'
    BY <1>2
       DEF IInv, HostStepDone, Unlock, RunsBounded, InFlight, TypeOK, wireVars,
           runVars
  <2>3. Control'
    BY <1>2
       DEF IInv, HostStepDone, Unlock, runVars, Control, OneLiveRun,
           StepsOnlyWhenStopped, LiveRuns, Live
  <2>4. QED  BY <2>1, <2>2, <2>3 DEF IInv
<1>3. ASSUME HostRewind PROVE IInv'
  <2>1. TypeOK'
    BY <1>3
       DEF IInv, HostRewind, TypeOK, wireVars, runVars, hostVars, HostPlaces
  <2>2. RunsBounded'
    BY <1>3
       DEF IInv, HostRewind, RunsBounded, InFlight, TypeOK, wireVars, runVars
  <2>3. Control'
    BY <1>3
       DEF IInv, HostRewind, runVars, Control, OneLiveRun,
           StepsOnlyWhenStopped, LiveRuns, Live
  <2>4. QED  BY <2>1, <2>2, <2>3 DEF IInv
<1>4. ASSUME HostRewindDone PROVE IInv'
  <2>1. TypeOK'
    BY <1>4
       DEF IInv, HostRewindDone, TypeOK, wireVars, runVars, hostVars,
           HostPlaces
  <2>2. RunsBounded'
    BY <1>4
       DEF IInv, HostRewindDone, RunsBounded, InFlight, TypeOK, wireVars,
           runVars
  <2>3. Control'
    BY <1>4
       DEF IInv, HostRewindDone, runVars, Control, OneLiveRun,
           StepsOnlyWhenStopped, LiveRuns, Live
  <2>4. QED  BY <2>1, <2>2, <2>3 DEF IInv
<1>5. QED  BY <1>1, <1>2, <1>3, <1>4 DEF HostNext

(* The initial state satisfies it. *)
LEMMA InitInvariant == Init => IInv
<1> SUFFICES ASSUME Init PROVE IInv
  OBVIOUS
<1>1. debuggee \in BOOLEAN /\ setting \in Settings  BY DEF Init
<1>2. TypeOK
  <2>1. wire \in Seq(AllCommands) /\ loop \in [Runs -> LoopPlaces]
    BY DEF Init, LoopPlaces
  <2>2. /\ sent \in 0 .. MaxRequests /\ runs \in 0 .. MaxRequests
        /\ runDone \in 0 .. MaxRequests /\ closed \subseteq Runs
        /\ attaches \in Nat /\ detaches \in Nat
    BY SessionAssumption DEF Init
  <2>3. /\ hungUp \in BOOLEAN /\ running \in BOOLEAN
        /\ pauseRequested \in BOOLEAN /\ panicked \in BOOLEAN
        /\ terminated \in BOOLEAN
    BY DEF Init
  <2>4. /\ serve \in ServePlaces /\ req \in AllCommands \cup {NoRequest}
        /\ mutex \in {"free", "serve", "loop", "host"} /\ host \in HostPlaces
    BY DEF Init, ServePlaces, HostPlaces
  <2>5. QED  BY <1>1, <2>1, <2>2, <2>3, <2>4 DEF TypeOK
<1>3. RunsBounded
  <2>1. Len(wire) = 0  BY DEF Init
  <2>2. QED  BY <2>1 DEF Init, RunsBounded, InFlight
<1>4. \A k \in Runs : loop[k] = "none" /\ ~Live(k)  BY DEF Init, Live
<1>5. Control
  BY <1>4 DEF Init, Control, OneLiveRun, StepsOnlyWhenStopped
<1>6. QED  BY <1>2, <1>3, <1>5 DEF IInv

(* The strengthened invariant is inductive.                                *)
THEOREM SessionInvariant == Spec => []IInv
<1>1. IInv /\ [Next]_vars => IInv'
  <2> SUFFICES ASSUME IInv, [Next]_vars PROVE IInv'
    OBVIOUS
  <2>1. CASE UNCHANGED vars
    BY <2>1
       DEF vars, IInv, RunsBounded, InFlight, TypeOK, wireVars, runVars,
           hostVars, Control, OneLiveRun, StepsOnlyWhenStopped, LiveRuns, Live
  <2>2. QED
    BY <2>1, ClientKeeps, ServeKeeps, LoopKeeps, HostKeeps DEF Next
<1>2. QED  BY InitInvariant, <1>1, PTL DEF Spec

(* Every session variable keeps its range: no send, spawn or callback      *)
(* leaves a channel index, a goroutine place or a holder of cpuMu outside  *)
(* the values the program has.                                             *)
THEOREM SessionTyped == Spec => []TypeOK
<1>1. IInv => TypeOK  BY DEF IInv
<1>2. QED  BY <1>1, SessionInvariant, PTL

(* At most one run loop steps the CPU, however many continues, launches    *)
(* and attaches an editor sends and wherever the previous loop is.         *)
THEOREM AtMostOneRun == Spec => []OneLiveRun
<1>1. IInv => OneLiveRun  BY DEF IInv, Control
<1>2. QED  BY <1>1, SessionInvariant, PTL

(* stepIn, next, stepOut and stepBack drive the CPU only while no run loop *)
(* is live and none is about to be spawned (requireStopped).               *)
THEOREM StepsAloneWithServer == Spec => []StepsOnlyWhenStopped
<1>1. IInv => StepsOnlyWhenStopped  BY DEF IInv, Control
<1>2. QED  BY <1>1, SessionInvariant, PTL

-------------------------------------------------------------------------------
(* The shared mutex. *)

(* Whoever is between lockCPU and unlockCPU holds cpuMu. *)
ServeHolds ==
  serve \in {"handle", "spawn", "machine", "awaitRun", "finish"}
    /\ ~Unlocked(req)

Holders ==
  /\ ServeHolds => mutex = "serve"
  /\ \A k \in Runs : loop[k] = "iterate" => mutex = "loop"
  /\ host = "stepping" => mutex = "host"

LockedHandlers ==
  /\ serve = "machine" => req \in {"step", "inspect"}
  /\ serve \in {"awaitRun", "finish"} => req = "disconnect"

MutexInv == SharedMutex => Holders /\ LockedHandlers

(* Nobody is inside at first. *)
LEMMA MutexInit == Init => MutexInv
  BY DEF Init, MutexInv, Holders, ServeHolds, LockedHandlers, Runs

(* Every step hands the mutex on as lockCPU and unlockCPU do. *)
LEMMA MutexKept ==
  ASSUME SharedMutex, IInv, MutexInv, [Next]_vars
  PROVE  MutexInv'
<1>1. ASSUME ClientNext PROVE MutexInv'
  BY <1>1
     DEF ClientNext, ClientSend, ClientHangUp, MutexInv, Holders, ServeHolds,
         LockedHandlers, Unlocked, wireVars, runVars, hostVars
<1>2. ASSUME ServeRead PROVE MutexInv'
  BY <1>2
     DEF ServeRead, NoRequest, MutexInv, Holders, ServeHolds, LockedHandlers,
         Unlocked, wireVars, runVars, hostVars
<1>3. ASSUME ServeLock PROVE MutexInv'
  BY <1>3
     DEF ServeLock, Lock, NoRequest, MutexInv, Holders, ServeHolds,
         LockedHandlers, Unlocked, wireVars, runVars, hostVars
<1>4. ASSUME HandleContinue PROVE MutexInv'
  BY <1>4
     DEF HandleContinue, Handling, Refuse, Return, StartRun, NoRequest,
         MutexInv, Holders, ServeHolds, LockedHandlers, Unlocked, wireVars,
         runVars, hostVars
<1>5. ASSUME SpawnRun PROVE MutexInv'
  BY <1>5
     DEF SpawnRun, Return, Unlock, NoRequest, MutexInv, Holders, ServeHolds,
         LockedHandlers, Unlocked, wireVars, runVars, hostVars
<1>6. ASSUME HandleLaunch PROVE MutexInv'
  BY <1>6
     DEF HandleLaunch, Handling, Refuse, Return, Unlock, StartRun, NoRequest,
         MutexInv, Holders, ServeHolds, LockedHandlers, Unlocked, wireVars,
         runVars, hostVars
<1>7. ASSUME HandleAttach PROVE MutexInv'
  BY <1>7
     DEF HandleAttach, Handling, Refuse, Return, Unlock, NoRequest, MutexInv,
         Holders, ServeHolds, LockedHandlers, Unlocked, wireVars, runVars,
         hostVars
<1>8. ASSUME HandlePause PROVE MutexInv'
  BY <1>8
     DEF HandlePause, Handling, Refuse, Return, Unlock, NoRequest, MutexInv,
         Holders, ServeHolds, LockedHandlers, Unlocked, wireVars, runVars,
         hostVars
<1>9. ASSUME HandleStep PROVE MutexInv'
  BY <1>9
     DEF HandleStep, Handling, Refuse, Return, Unlock, TouchMachine, NoRequest,
         MutexInv, Holders, ServeHolds, LockedHandlers, Unlocked, wireVars,
         runVars, hostVars
<1>10. ASSUME HandleInspect PROVE MutexInv'
  BY <1>10
     DEF HandleInspect, Handling, Refuse, Return, Unlock, TouchMachine,
         NoRequest, MutexInv, Holders, ServeHolds, LockedHandlers, Unlocked,
         wireVars, runVars, hostVars
<1>11. ASSUME MachineDone PROVE MutexInv'
  BY <1>11
     DEF MachineDone, Return, Unlock, NoRequest, MutexInv, Holders, ServeHolds,
         LockedHandlers, Unlocked, wireVars, runVars, hostVars
<1>12. ASSUME HandleDisconnect PROVE MutexInv'
  BY <1>12
     DEF HandleDisconnect, Handling, NoRequest, MutexInv, Holders, ServeHolds,
         LockedHandlers, Unlocked, wireVars, runVars, hostVars
<1>13. ASSUME AwaitRun PROVE MutexInv'
  BY <1>13
     DEF AwaitRun, NoRequest, MutexInv, Holders, ServeHolds, LockedHandlers,
         Unlocked, wireVars, runVars, hostVars
<1>14. ASSUME FinishDisconnect PROVE MutexInv'
  BY <1>14
     DEF FinishDisconnect, Return, Unlock, NoRequest, MutexInv, Holders,
         ServeHolds, LockedHandlers, Unlocked, wireVars, runVars, hostVars
<1>15. ASSUME ServeReturn PROVE MutexInv'
  BY <1>15
     DEF ServeReturn, NoRequest, MutexInv, Holders, ServeHolds, LockedHandlers,
         Unlocked, wireVars, runVars, hostVars
<1>16. ASSUME NEW k \in Runs, LoopPoll(k) PROVE MutexInv'
  BY <1>16
     DEF LoopPoll, LoopStep, Goto, IInv, TypeOK, MutexInv, Holders, ServeHolds,
         LockedHandlers, Unlocked, wireVars, runVars, hostVars
<1>17. ASSUME NEW k \in Runs, LoopLock(k) PROVE MutexInv'
  BY <1>17
     DEF LoopLock, LoopStep, Goto, Lock, IInv, TypeOK, MutexInv, Holders,
         ServeHolds, LockedHandlers, Unlocked, wireVars, runVars, hostVars
<1>18. ASSUME NEW k \in Runs, LoopIterate(k) PROVE MutexInv'
  BY <1>18
     DEF LoopIterate, LoopStep, Goto, Unlock, OneLiveRun, Live, IInv, Control,
         TypeOK,
         MutexInv, Holders, ServeHolds, LockedHandlers, Unlocked, wireVars,
         runVars, hostVars
<1>19. ASSUME NEW k \in Runs, LoopState(k) PROVE MutexInv'
  BY <1>19
     DEF LoopState, LoopStep, Goto, IInv, TypeOK, MutexInv, Holders,
         ServeHolds, LockedHandlers, Unlocked, wireVars, runVars, hostVars
<1>20. ASSUME NEW k \in Runs, LoopEmit(k) PROVE MutexInv'
  BY <1>20
     DEF LoopEmit, LoopStep, Goto, IInv, TypeOK, MutexInv, Holders, ServeHolds,
         LockedHandlers, Unlocked, wireVars, runVars, hostVars
<1>21. ASSUME NEW k \in Runs, LoopClear(k) PROVE MutexInv'
  BY <1>21
     DEF LoopClear, LoopStep, Goto, IInv, TypeOK, MutexInv, Holders,
         ServeHolds, LockedHandlers, Unlocked, wireVars, runVars, hostVars
<1>22. ASSUME NEW k \in Runs, LoopClose(k) PROVE MutexInv'
  BY <1>22
     DEF LoopClose, LoopStep, Goto, IInv, TypeOK, MutexInv, Holders,
         ServeHolds, LockedHandlers, Unlocked, wireVars, runVars, hostVars
<1>23. ASSUME HostStep PROVE MutexInv'
  BY <1>23
     DEF HostStep, Lock, MutexInv, Holders, ServeHolds, LockedHandlers,
         Unlocked, wireVars, runVars, hostVars
<1>24. ASSUME HostStepDone PROVE MutexInv'
  BY <1>24
     DEF HostStepDone, Unlock, MutexInv, Holders, ServeHolds, LockedHandlers,
         Unlocked, wireVars, runVars, hostVars
<1>25. ASSUME HostRewind PROVE MutexInv'
  BY <1>25
     DEF HostRewind, MutexInv, Holders, ServeHolds, LockedHandlers, Unlocked,
         wireVars, runVars, hostVars
<1>26. ASSUME HostRewindDone PROVE MutexInv'
  BY <1>26
     DEF HostRewindDone, MutexInv, Holders, ServeHolds, LockedHandlers,
         Unlocked, wireVars, runVars, hostVars
<1>27. CASE UNCHANGED vars
  BY <1>27
     DEF vars, MutexInv, Holders, ServeHolds, LockedHandlers, Unlocked,
         wireVars, runVars, hostVars
<1>28. QED
  BY <1>1, <1>2, <1>3, <1>4, <1>5, <1>6, <1>7, <1>8, <1>9, <1>10, <1>11, <1>12,
     <1>13, <1>14, <1>15, <1>16, <1>17, <1>18, <1>19, <1>20, <1>21, <1>22,
     <1>23, <1>24, <1>25, <1>26, <1>27
     DEF Next, ServeNext, LoopNext, HostNext

(* A session keeps its surroundings. *)
LEMMA SettingFixed ==
  ASSUME [Next]_vars
  PROVE  setting' = setting
<1>1. CASE ClientNext
  BY <1>1 DEF ClientNext, ClientSend, ClientHangUp
<1>2. CASE ServeNext
  BY <1>2
     DEF ServeNext, ServeRead, ServeLock, HandleContinue, SpawnRun,
         HandleLaunch, HandleAttach, HandlePause, HandleStep, HandleInspect,
         MachineDone, HandleDisconnect, AwaitRun, FinishDisconnect,
         ServeReturn, Refuse, TouchMachine, wireVars
<1>3. CASE \E k \in Runs : LoopNext(k)
  BY <1>3
     DEF LoopNext, LoopPoll, LoopLock, LoopIterate, LoopState, LoopEmit,
         LoopClear, LoopClose, wireVars
<1>4. CASE HostNext
  BY <1>4
     DEF HostNext, HostStep, HostStepDone, HostRewind, HostRewindDone, wireVars
<1>5. CASE UNCHANGED vars
  BY <1>5 DEF vars, wireVars
<1>6. QED  BY <1>1, <1>2, <1>3, <1>4, <1>5 DEF Next

(* With a shared mutex the Serve goroutine, the run loop and the TUI's     *)
(* step never touch the machine at the same time.                          *)
THEOREM MachineExclusive == Spec => []StepsNeverRace
<1>1. MutexInv => StepsNeverRace
  <2> SUFFICES ASSUME MutexInv, SharedMutex PROVE Cardinality(AtMachine) <= 1
    BY DEF StepsNeverRace
  <2>1. AtMachine \subseteq {mutex}
    BY DEF MutexInv, Holders, ServeHolds, LockedHandlers, Unlocked, AtMachine
  <2>2. IsFiniteSet({mutex}) /\ Cardinality({mutex}) = 1
    BY FS_Singleton
  <2>3. Cardinality(AtMachine) <= Cardinality({mutex})
    BY <2>1, <2>2, FS_Subset
  <2>4. QED  BY <2>2, <2>3
<1>2. MutexInv /\ IInv /\ [Next]_vars => MutexInv'
  <2> SUFFICES ASSUME MutexInv, IInv, [Next]_vars PROVE MutexInv'
    OBVIOUS
  <2>1. CASE SharedMutex  BY <2>1, MutexKept
  <2>2. CASE ~SharedMutex  BY <2>2, SettingFixed DEF MutexInv, SharedMutex
  <2>3. QED  BY <2>1, <2>2
<1>3. QED  BY <1>1, <1>2, MutexInit, SessionInvariant, PTL DEF Spec

-------------------------------------------------------------------------------
(* The host's callbacks. *)

(* Every action but these three leaves the callbacks and the end of Serve  *)
(* alone.                                                                  *)
LEMMA CallbacksUntouched ==
  ASSUME TypeOK, [Next]_vars
  PROVE  \/ HandleAttach \/ FinishDisconnect \/ ServeReturn
         \/ /\ attaches' = attaches /\ detaches' = detaches
            /\ serve' \in {"returned", "failed"} =>
                 serve \in {"returned", "failed"}
<1>1. CASE ClientNext
  BY <1>1 DEF ClientNext, ClientSend, ClientHangUp, hostVars
<1>2. CASE ServeNext
  BY <1>2
     DEF ServeNext, ServeRead, ServeLock, HandleContinue, SpawnRun,
         HandleLaunch, HandlePause, HandleStep, HandleInspect, MachineDone,
         HandleDisconnect, AwaitRun, Refuse, Return, StartRun, TouchMachine,
         hostVars
<1>3. CASE \E k \in Runs : LoopNext(k)
  BY <1>3
     DEF LoopNext, LoopPoll, LoopLock, LoopIterate, LoopState, LoopEmit,
         LoopClear, LoopClose, hostVars
<1>4. CASE HostNext
  BY <1>4 DEF HostNext, HostStep, HostStepDone, HostRewind, HostRewindDone
<1>5. CASE UNCHANGED vars
  BY <1>5 DEF vars, hostVars
<1>6. QED  BY <1>1, <1>2, <1>3, <1>4, <1>5 DEF Next

(* OnDisconnected fires at most once, only after OnAttached, and always    *)
(* when Serve is gone, although disconnect, terminate and Serve's own exit *)
(* all fire it.                                                            *)
THEOREM DetachFiresOnce == Spec => []DisconnectFiresOnce
<1>1. Init => DisconnectFiresOnce
  BY DEF Init, DisconnectFiresOnce
<1>2. IInv /\ DisconnectFiresOnce /\ [Next]_vars => DisconnectFiresOnce'
  <2> SUFFICES ASSUME IInv, DisconnectFiresOnce, [Next]_vars
               PROVE  DisconnectFiresOnce'
    OBVIOUS
  <2>1. attaches \in Nat /\ detaches \in Nat /\ HostKind' = HostKind
    BY SettingFixed DEF IInv, TypeOK, HostKind
  <2>2. CASE HandleAttach
    BY <2>1, <2>2
       DEF HandleAttach, Handling, Refuse, Return, hostVars,
           DisconnectFiresOnce
  <2>3. CASE FinishDisconnect
    BY <2>1, <2>3
       DEF FinishDisconnect, Return, FireDisconnected, DisconnectFiresOnce
  <2>4. CASE ServeReturn
    BY <2>1, <2>4 DEF ServeReturn, FireDisconnected, DisconnectFiresOnce
  <2>5. CASE /\ attaches' = attaches /\ detaches' = detaches
             /\ serve' \in {"returned", "failed"} =>
                  serve \in {"returned", "failed"}
    BY <2>1, <2>5 DEF DisconnectFiresOnce
  <2>6. QED
    BY <2>2, <2>3, <2>4, <2>5, CallbacksUntouched DEF IInv
<1>3. QED  BY <1>1, <1>2, SessionInvariant, PTL DEF Spec

-------------------------------------------------------------------------------
(* What a disconnect leaves behind. *)

NoneLeft == \A k \in Runs : ~Live(k)

(* The channel field belongs to the last run, the only one that may live;  *)
(* nobody starts a run for a session that ended; and as long as no run was *)
(* overtaken a closed channel is that of a run that is gone, and so no     *)
(* channel is closed twice.                                                *)
Teardown ==
  /\ runDone = runs
  /\ \A k \in Runs : Live(k) => k = runs
  /\ terminated => serve \in {"read", "returned"}
  /\ panicked => Overtaken
  /\ ~Overtaken => /\ \A k \in closed : loop[k] = "gone"
                   /\ serve = "finish" \/ terminated => NoneLeft

(* A step that leaves the run loops and their channels alone, and does not *)
(* bring a disconnect to its end.                                          *)
Apart ==
  /\ UNCHANGED <<loop, runDone, runs, closed, terminated, panicked>>
  /\ serve' = "finish" => serve = "finish"
  /\ terminated => serve' \in {"read", "returned"}

LEMMA ApartKeeps ==
  ASSUME Teardown, Apart
  PROVE  Teardown'
BY DEF Teardown, Apart, Overtaken, NoneLeft, Live

(* The three stores of a continue: no run is live, none becomes live. *)
LEMMA StoresKeepTeardown ==
  ASSUME IInv, Teardown, serve = "handle", ~running, StartRun,
         UNCHANGED <<loop, terminated, panicked>>
  PROVE  Teardown'
<1>1. /\ runs' = runs + 1 /\ runDone' = runs' /\ loop' = loop /\ closed' = closed
      /\ serve' = "spawn" /\ ~terminated /\ ~terminated' /\ runs \in Nat
  BY DEF StartRun, Teardown, IInv, TypeOK
<1>2. \A k \in Runs : ~Live(k) /\ ~Live(k)'
  BY <1>1 DEF IInv, Control, Live
<1>3. Overtaken => Overtaken'
  <2> SUFFICES ASSUME NEW k \in Runs, loop[k] \in {"close", "gone"},
                      k \notin closed, runDone # k
               PROVE  runDone' # k
    BY <1>1 DEF Overtaken
  <2>1. ~(k > runs)
    BY DEF IInv, Control
  <2>2. k \in Nat
    BY DEF Runs
  <2> QED BY <1>1, <2>1, <2>2
<1> QED BY <1>1, <1>2, <1>3 DEF Teardown

LEMMA SpawnKeepsTeardown ==
  ASSUME IInv, Teardown, SpawnRun
  PROVE  Teardown'
<1>1. /\ serve = "spawn" /\ serve' = "read" /\ loop' = [loop EXCEPT ![runs] = "poll"]
      /\ UNCHANGED <<runDone, runs, closed, terminated, panicked>>
      /\ loop \in [Runs -> LoopPlaces] /\ closed \subseteq Runs
  BY DEF SpawnRun, Return, runVars, IInv, TypeOK
<1>2. ~terminated /\ \A k \in Runs : ~Live(k) /\ (k = runs => loop[k] = "none")
  BY <1>1 DEF Teardown, IInv, Control
<1>3. \A k \in Runs : k # runs => loop'[k] = loop[k]
  BY <1>1
<1>4. Overtaken => Overtaken'
  BY <1>1, <1>2, <1>3 DEF Overtaken
<1>5. \A k \in Runs : Live(k)' => k = runs'
  BY <1>1, <1>2, <1>3 DEF Live
<1>6. \A k \in closed : loop[k] = "gone" => loop'[k] = "gone"
  BY <1>1, <1>2, <1>3
<1> QED BY <1>1, <1>2, <1>4, <1>5, <1>6 DEF Teardown

(* A live run loop moves on, at last to the close. *)
LEMMA LoopMovesKeep ==
  ASSUME IInv, Teardown, NEW k \in Runs, NEW place \in LoopPlaces \ {"none", "gone"},
         Live(k), loop' = [loop EXCEPT ![k] = place],
         UNCHANGED <<runDone, runs, closed, terminated, panicked, serve>>
  PROVE  Teardown'
<1>1. loop \in [Runs -> LoopPlaces] /\ closed \subseteq Runs /\ k = runs
  BY DEF IInv, TypeOK, Teardown
<1>2. \A j \in Runs : j # k => loop'[j] = loop[j]
  BY <1>1
<1>3. Overtaken => Overtaken'
  BY <1>1, <1>2 DEF Overtaken, Live
<1>4. \A j \in closed : loop[j] = "gone" => loop'[j] = "gone"
  BY <1>1, <1>2 DEF Live
<1>5. \A j \in Runs : Live(j)' => Live(j)
  BY <1>2 DEF Live
<1> QED BY <1>3, <1>4, <1>5 DEF Teardown, NoneLeft

(* The close: of the loop's own channel, or it was overtaken. *)
LEMMA CloseKeepsTeardown ==
  ASSUME IInv, Teardown, NEW k \in Runs, LoopClose(k)
  PROVE  Teardown'
<1>1. /\ loop[k] = "close" /\ loop' = [loop EXCEPT ![k] = "gone"]
      /\ closed' = closed \cup {runDone} /\ panicked' = (runDone \in closed)
      /\ UNCHANGED <<runDone, runs, terminated, serve>>
      /\ loop \in [Runs -> LoopPlaces] /\ closed \subseteq Runs
  BY DEF LoopClose, LoopStep, Goto, IInv, TypeOK
<1>2. \A j \in Runs : j # k => loop'[j] = loop[j]
  BY <1>1
<1>3. loop'[k] = "gone"
  BY <1>1
<1>4. Overtaken => Overtaken'
  BY <1>1, <1>2, <1>3 DEF Overtaken
<1>5. \A j \in Runs : Live(j)' => Live(j)
  BY <1>1, <1>2, <1>3 DEF Live
<1>6. ~Overtaken => \A j \in closed' : loop'[j] = "gone"
  <2> SUFFICES ASSUME ~Overtaken, NEW j \in closed' PROVE loop'[j] = "gone"
    OBVIOUS
  <2>1. runDone = k
    BY <1>1 DEF Overtaken, Teardown
  <2> QED BY <1>1, <1>2, <1>3, <2>1 DEF Teardown
<1>7. panicked' => Overtaken
  <2> SUFFICES ASSUME ~Overtaken, runDone \in closed PROVE FALSE
    BY <1>1
  <2>1. runDone = k /\ loop[runDone] = "gone"
    BY <1>1 DEF Overtaken, Teardown
  <2> QED BY <1>1, <2>1
<1> QED BY <1>1, <1>4, <1>5, <1>6, <1>7 DEF Teardown, NoneLeft

LEMMA TeardownKept ==
  ASSUME IInv, Teardown, [Next]_vars
  PROVE  Teardown'
<1>1. CASE UNCHANGED vars
  BY <1>1, ApartKeeps DEF vars, wireVars, runVars, hostVars, Apart, Teardown
<1>2. CASE ClientNext
  BY <1>2, ApartKeeps
  DEF ClientNext, ClientSend, ClientHangUp, runVars, Apart, Teardown
<1>3. CASE HostNext
  BY <1>3, ApartKeeps
  DEF HostNext, HostStep, HostStepDone, HostRewind, HostRewindDone, wireVars, runVars,
      Apart, Teardown
<1>4. ASSUME NEW k \in Runs, LoopNext(k) PROVE Teardown'
  <2>1. CASE LoopClose(k)
    BY <2>1, CloseKeepsTeardown
  <2>2. CASE ~LoopClose(k)
    <3>1. /\ Live(k) /\ UNCHANGED <<runDone, runs, closed, terminated, panicked, serve>>
          /\ \E place \in LoopPlaces \ {"none", "gone"} :
               loop' = [loop EXCEPT ![k] = place]
      BY <1>4, <2>2
      DEF LoopNext, LoopPoll, LoopLock, LoopIterate, LoopState, LoopEmit, LoopClear,
          LoopStep, Goto, Live, LoopPlaces, runVars
    <3> QED BY <3>1, LoopMovesKeep
  <2> QED BY <2>1, <2>2
<1>5. ASSUME ServeNext PROVE Teardown'
  <2>1. CASE HandleContinue \/ HandleLaunch
    <3>1. /\ serve = "handle" /\ ~terminated /\ UNCHANGED <<loop, terminated, panicked>>
          /\ \/ ~running /\ StartRun
             \/ UNCHANGED runVars /\ serve' = "read"
      BY <2>1
      DEF HandleContinue, HandleLaunch, Handling, Refuse, Return, Teardown
    <3> QED BY <3>1, StoresKeepTeardown, ApartKeeps DEF runVars, Apart
  <2>2. CASE SpawnRun
    BY <2>2, SpawnKeepsTeardown
  <2>3. CASE HandleDisconnect \/ AwaitRun
    <3>1. /\ ~terminated
          /\ UNCHANGED <<loop, runDone, runs, closed, terminated, panicked>>
      BY <2>3
      DEF HandleDisconnect, Handling, AwaitRun, runVars, Teardown
    <3>2. serve' = "finish" /\ ~Overtaken => NoneLeft
      <4>1. CASE HandleDisconnect
        BY <4>1 DEF HandleDisconnect, NoneLeft, IInv, Control
      <4>2. CASE AwaitRun
        BY <4>2 DEF AwaitRun, NoneLeft, Teardown, Live
      <4> QED BY <2>3, <4>1, <4>2
    <3> QED BY <3>1, <3>2 DEF Teardown, Overtaken, NoneLeft, Live
  <2>4. CASE FinishDisconnect
    <3>1. /\ serve = "finish" /\ serve' = "read"
          /\ UNCHANGED <<loop, runDone, runs, closed, panicked>>
      BY <2>4 DEF FinishDisconnect, Return, runVars
    <3> QED BY <3>1 DEF Teardown, Overtaken, NoneLeft, Live
  <2>5. CASE ServeRead \/ ServeLock \/ HandleAttach \/ HandlePause \/ HandleStep
             \/ HandleInspect \/ MachineDone \/ ServeReturn
    <3>1. Apart
      BY <2>5
      DEF ServeRead, ServeLock, Lock, HandleAttach, HandlePause, HandleStep,
          HandleInspect, MachineDone, ServeReturn, Handling, Refuse, Return,
          TouchMachine, wireVars, runVars, Teardown, Apart
    <3> QED BY <3>1, ApartKeeps
  <2> QED BY <1>5, <2>1, <2>2, <2>3, <2>4, <2>5 DEF ServeNext
<1> QED BY <1>1, <1>2, <1>3, <1>4, <1>5 DEF Next

(* stopRunLoop and runLoop's clean-up: whatever was pipelined before it, a *)
(* disconnect that has come to its end has left no run loop, and nobody    *)
(* closed a channel twice, unless a run was overtaken between its two      *)
(* clean-up steps.                                                         *)
THEOREM NoRunIsLeft ==
  Spec => [](~Overtaken => ~panicked /\ (terminated => LiveRuns = {}))
<1>1. Init => Teardown
  BY DEF Init, Teardown, Overtaken, NoneLeft, Live
<1>2. IInv /\ Teardown /\ [Next]_vars => Teardown'
  BY TeardownKept
<1>3. Teardown => (~Overtaken => ~panicked /\ (terminated => LiveRuns = {}))
  BY DEF Teardown, NoneLeft, LiveRuns
<1>4. QED
  BY <1>1, <1>2, <1>3, SessionInvariant, PTL DEF Spec

===============================================================================
