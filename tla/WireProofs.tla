------------------------------ MODULE WireProofs ------------------------------
(***************************************************************************)
(* Proofs about the two users of the wire of attach mode.                  *)
(*                                                                         *)
(* Client, for any number of calls, whatever the server, the connection    *)
(* and the clock do: it implements request and reply, and a connection     *)
(* that is lost wakes everyone who waits.                                  *)
(*                                                                         *)
(* RemoteMirror, for every memory, every size of the three channels and    *)
(* every bound on steps, keys and time-outs: what the mirror may have      *)
(* wrong, and what the host's hook sees.                                   *)
(***************************************************************************)
EXTENDS Client, RemoteMirror, SequenceTheorems, FiniteSetTheorems, TLAPS

-------------------------------------------------------------------------------
(* The client: the inductive invariant. *)

InRequest(c) == at[c] \in {"numbered", "registered", "waiting"}

(* Request numbers its call under seqMu: no two calls share a number. *)
Numbers ==
  /\ \A c \in Calls : number[c] <= seq
  /\ \A c \in Calls : at[c] = "idle" => number[c] = 0
  /\ \A c \in Calls : InRequest(c) => number[c] # 0
  /\ \A c, d \in Calls : number[c] # 0 /\ number[c] = number[d] => c = d

(* The table leads from a number to the call that has it. *)
Table == \A k \in DOMAIN pending : k # 0 /\ number[pending[k]] = k

(* What is on the wire carries the number of the call it was made for. *)
Addressed(m) == m.seq # 0 /\ m.seq = number[m.for]
Wire ==
  /\ \A i \in 1 .. Len(toServer) : Addressed(toServer[i])
  /\ \A i \in 1 .. Len(toClient) : Addressed(toClient[i]) /\ toClient[i].for \in handled

(* So what a call is handed, and what it returns, was made for it. *)
Delivered ==
  /\ reader.at = "deliver" => reader.msg.for = reader.to /\ reader.to \in handled
  /\ \A c \in Calls : chan[c].kind = "response" => chan[c].msg.for = c /\ c \in handled
  /\ \A c \in Calls : at[c] = "done" => outcome[c] \in {c, "failed", "empty"}
  /\ \A c \in Calls : at[c] = "done" /\ outcome[c] = c => c \in handled

ClientInv == ClientTypeOK /\ Numbers /\ Table /\ Wire /\ Delivered

LEMMA InitInvariant == ClientInit => ClientInv
<1> SUFFICES ASSUME ClientInit PROVE ClientInv
  OBVIOUS
<1> USE DEF ClientInit
<1>1. toServer \in Seq(Messages) /\ toClient \in Seq(Messages)
  OBVIOUS
<1>2. reader \in [at : {"read", "failed", "ended"}]
  BY DEF Reading
<1>3. DOMAIN pending = {}
  OBVIOUS
<1>4. ClientTypeOK  BY <1>1, <1>2, <1>3 DEF ClientTypeOK, Empty
<1>5. Numbers  BY DEF Numbers, InRequest
<1>6. Table  BY <1>3 DEF Table
<1>7. Wire  BY DEF Wire
<1>8. Delivered  BY DEF Delivered, Empty, Reading
<1>9. QED  BY <1>4, <1>5, <1>6, <1>7, <1>8 DEF ClientInv

-------------------------------------------------------------------------------
(* One lemma for every action that does more than move one call along. *)

LEMMA RefuseKeeps ==
  ASSUME ClientInv, NEW c \in Calls, Refuse(c)
  PROVE  ClientInv'
<1> USE DEF ClientInv, Refuse, Return, clientVars, peerVars
<1>1. ClientTypeOK'  BY DEF ClientTypeOK
<1>2. Numbers'  BY DEF ClientTypeOK, Numbers, InRequest
<1>3. Table'  BY DEF Table
<1>4. Wire'  BY DEF Wire, Addressed
<1>5. Delivered'  BY CallsAssumption DEF Delivered, ClientTypeOK
<1>6. QED  BY <1>1, <1>2, <1>3, <1>4, <1>5

LEMMA NumberKeeps ==
  ASSUME ClientInv, NEW c \in Calls, Number(c)
  PROVE  ClientInv'
<1> USE DEF ClientInv, Number, peerVars
<1>1. ClientTypeOK'  BY DEF ClientTypeOK
<1>2. Numbers'  BY DEF ClientTypeOK, Numbers, InRequest
<1>3. \A d \in Calls : number[d] # 0 => number'[d] = number[d]
  BY DEF ClientTypeOK, Numbers
<1>4. Table'  BY <1>3 DEF Table, ClientTypeOK
<1>5. Wire'
  <2>1. \A m \in Messages : Addressed(m) => Addressed(m)'
    BY <1>3 DEF Addressed, Messages
  <2>2. /\ \A i \in 1 .. Len(toServer) : toServer[i] \in Messages
        /\ \A i \in 1 .. Len(toClient) : toClient[i] \in Messages
    BY DEF ClientTypeOK
  <2>3. QED  BY <2>1, <2>2 DEF Wire
<1>6. Delivered'  BY DEF Delivered, ClientTypeOK
<1>7. QED  BY <1>1, <1>2, <1>4, <1>5, <1>6

LEMMA RegisterKeeps ==
  ASSUME ClientInv, NEW c \in Calls, Register(c)
  PROVE  ClientInv'
<1> USE DEF ClientInv, Register, peerVars
<1>1. ClientTypeOK'  BY DEF ClientTypeOK
<1>2. Numbers'  BY DEF ClientTypeOK, Numbers, InRequest
<1>3. Table'  BY DEF Table, ClientTypeOK, Numbers, InRequest
<1>4. Wire'  BY DEF Wire, Addressed
<1>5. Delivered'  BY DEF Delivered, ClientTypeOK
<1>6. QED  BY <1>1, <1>2, <1>3, <1>4, <1>5

LEMMA WriteKeeps ==
  ASSUME ClientInv, NEW c \in Calls, Write(c)
  PROVE  ClientInv'
<1> USE DEF ClientInv, Write, clientVars
<1> DEFINE m == [seq |-> number[c], for |-> c]
<1>0. m \in Messages /\ Addressed(m)
  BY DEF Messages, Addressed, Numbers, InRequest, ClientTypeOK
<1>1. ClientTypeOK'  BY <1>0 DEF ClientTypeOK
<1>2. Numbers'  BY DEF ClientTypeOK, Numbers, InRequest
<1>3. Table'  BY DEF Table
<1>4. Wire'
  <2>1. \A i \in 1 .. Len(toServer') : Addressed(toServer'[i])
    BY <1>0 DEF Wire, ClientTypeOK
  <2>2. QED  BY <2>1 DEF Wire, Addressed
<1>5. Delivered'  BY DEF Delivered, ClientTypeOK
<1>6. QED  BY <1>1, <1>2, <1>3, <1>4, <1>5

LEMMA GiveUpKeeps ==
  ASSUME ClientInv, NEW c \in Calls, WriteFails(c) \/ WaitTimesOut(c)
  PROVE  ClientInv'
<1> USE DEF ClientInv
<1>0. /\ at' = [at EXCEPT ![c] = "done"]
      /\ outcome' = [outcome EXCEPT ![c] = "failed"]
      /\ DOMAIN pending' \subseteq DOMAIN pending
      /\ \A k \in DOMAIN pending' : pending'[k] = pending[k]
      /\ UNCHANGED <<number, chan, seq, closed, reader, link, toServer, toClient, handled, early>>
  BY DEF WriteFails, WaitTimesOut, Return, Without, peerVars
<1>1. ClientTypeOK'  BY <1>0 DEF ClientTypeOK
<1>2. Numbers'  BY <1>0 DEF ClientTypeOK, Numbers, InRequest
<1>3. Table'  BY <1>0 DEF Table
<1>4. Wire'  BY <1>0 DEF Wire, Addressed
<1>5. Delivered'
  <2>1. \A d \in Calls : outcome'[d] = IF d = c THEN "failed" ELSE outcome[d]
    BY <1>0 DEF ClientTypeOK
  <2>2. c # "failed"  BY CallsAssumption
  <2>3. \A d \in Calls : at'[d] = "done" /\ d # c => at[d] = "done"
    BY <1>0 DEF ClientTypeOK
  <2>4. QED  BY <1>0, <2>1, <2>2, <2>3 DEF Delivered
<1>6. QED  BY <1>1, <1>2, <1>3, <1>4, <1>5

LEMMA TakeKeeps ==
  ASSUME ClientInv, NEW c \in Calls, TakeResponse(c)
  PROVE  ClientInv'
<1> USE DEF ClientInv, TakeResponse, Return, clientVars, peerVars
<1>0. \/ chan[c] = Closed /\ outcome' = [outcome EXCEPT ![c] = "empty"]
      \/ chan[c].kind = "response" /\ outcome' = [outcome EXCEPT ![c] = c] /\ c \in handled
  BY DEF ClientTypeOK, Delivered, Empty, Closed
<1>1. ClientTypeOK'  BY <1>0 DEF ClientTypeOK
<1>2. Numbers'  BY DEF ClientTypeOK, Numbers, InRequest
<1>3. Table'  BY DEF Table
<1>4. Wire'  BY DEF Wire, Addressed
<1>5. Delivered'  BY <1>0, CallsAssumption DEF Delivered, ClientTypeOK, Empty
<1>6. QED  BY <1>1, <1>2, <1>3, <1>4, <1>5

(* The number of the response leads to the call it was made for. *)
LEMMA LoopReadKeeps ==
  ASSUME ClientInv, LoopRead
  PROVE  ClientInv'
<1> USE DEF ClientInv, LoopRead, callerVars, Without
<1> DEFINE m == Head(toClient)
<1>0. /\ m \in Messages /\ Addressed(m) /\ m.for \in handled
      /\ toClient' \in Seq(Messages) /\ Len(toClient') = Len(toClient) - 1
      /\ \A i \in 1 .. Len(toClient') : toClient'[i] = toClient[i + 1]
      /\ Len(toClient) \in Nat
  <2>1. toClient \in Seq(Messages) /\ toClient # <<>>  BY DEF ClientTypeOK
  <2>2. Len(toClient) \in Nat /\ Len(toClient) >= 1  BY <2>1, EmptySeq, LenProperties
  <2>3. m = toClient[1]  BY <2>1
  <2>4. QED  BY <2>1, <2>2, <2>3, HeadTailProperties DEF Wire
<1>00. m.seq \in DOMAIN pending => pending[m.seq] = m.for
  BY <1>0 DEF Table, Addressed, Numbers, ClientTypeOK, Messages
<1>1. ClientTypeOK'  BY <1>0 DEF ClientTypeOK, Reading
<1>2. Numbers'  BY DEF ClientTypeOK, Numbers, InRequest
<1>3. Table'  BY DEF Table
<1>4. Wire'
  <2>1. \A i \in 1 .. Len(toClient') : i + 1 \in 1 .. Len(toClient)  BY <1>0
  <2>2. QED  BY <1>0, <2>1 DEF Wire, Addressed
<1>5. Delivered'  BY <1>0, <1>00 DEF Delivered
<1>6. QED  BY <1>1, <1>2, <1>3, <1>4, <1>5

LEMMA LoopDeliverKeeps ==
  ASSUME ClientInv, LoopDeliver
  PROVE  ClientInv'
<1> USE DEF ClientInv, LoopDeliver, peerVars
<1>0. /\ reader.to \in Calls /\ reader.msg \in Messages
      /\ reader.msg.for = reader.to /\ reader.to \in handled
  BY DEF ClientTypeOK, Delivered
<1>1. ClientTypeOK'
  <2>1. Holds(reader.msg) \in [kind : {"response"}, msg : Messages]
    BY <1>0 DEF Holds
  <2>2. reader' \in [at : {"read", "failed", "ended"}]  BY DEF Reading
  <2>3. QED  BY <1>0, <2>1, <2>2 DEF ClientTypeOK
<1>2. Numbers'  BY DEF ClientTypeOK, Numbers, InRequest
<1>3. Table'  BY DEF Table
<1>4. Wire'  BY DEF Wire, Addressed
<1>5. Delivered'
  <2>1. reader'.at # "deliver"  BY DEF Reading
  <2>2. \A c \in Calls : chan'[c] = IF c = reader.to THEN Holds(reader.msg) ELSE chan[c]
    BY <1>0 DEF ClientTypeOK
  <2>3. Holds(reader.msg).msg = reader.msg  BY DEF Holds
  <2>4. \A c \in Calls : chan'[c].kind = "response" => chan'[c].msg.for = c /\ c \in handled
    BY <1>0, <2>2, <2>3 DEF Delivered
  <2>5. QED  BY <2>1, <2>4 DEF Delivered
<1>6. QED  BY <1>1, <1>2, <1>3, <1>4, <1>5

LEMMA LoopStopKeeps ==
  ASSUME ClientInv, LoopFails \/ LoopEnds
  PROVE  ClientInv'
<1> USE DEF ClientInv
<1>0. /\ reader' \in [at : {"read", "failed", "ended"}] /\ reader'.at # "deliver"
      /\ DOMAIN pending' \subseteq DOMAIN pending
      /\ \A k \in DOMAIN pending' : pending'[k] = pending[k]
      /\ UNCHANGED <<at, number, outcome, seq, closed, link, toServer, toClient, handled, early>>
  BY DEF LoopFails, LoopEnds, callerVars, peerVars
<1>00. \/ chan' = chan
       \/ chan' = [c \in Calls |-> IF \E k \in DOMAIN pending : pending[k] = c
                                  THEN Closed ELSE chan[c]]
  BY DEF LoopFails, LoopEnds, callerVars
<1>1. ClientTypeOK'
  <2>1. chan' \in [Calls -> {Empty, Closed} \cup [kind : {"response"}, msg : Messages]]
    BY <1>00 DEF ClientTypeOK
  <2>2. QED  BY <1>0, <2>1 DEF ClientTypeOK
<1>2. Numbers'  BY <1>0 DEF ClientTypeOK, Numbers, InRequest
<1>3. Table'  BY <1>0 DEF Table
<1>4. Wire'  BY <1>0 DEF Wire, Addressed
<1>5. Delivered'
  <2>1. \A c \in Calls : chan'[c] = Closed \/ chan'[c] = chan[c]
    BY <1>00
  <2>2. Closed.kind # "response"  BY DEF Closed
  <2>3. QED  BY <1>0, <2>1, <2>2 DEF Delivered
<1>6. QED  BY <1>1, <1>2, <1>3, <1>4, <1>5

LEMMA ServerKeeps ==
  ASSUME ClientInv, ServerHandle
  PROVE  ClientInv'
<1> USE DEF ClientInv, ServerHandle, callerVars, clientVars
<1> DEFINE m == Head(toServer)
<1>0. /\ m \in Messages /\ Addressed(m)
      /\ toServer' \in Seq(Messages) /\ Len(toServer') = Len(toServer) - 1
      /\ \A i \in 1 .. Len(toServer') : toServer'[i] = toServer[i + 1]
      /\ Len(toServer) \in Nat
  <2>1. toServer \in Seq(Messages) /\ toServer # <<>>  BY DEF ClientTypeOK
  <2>2. Len(toServer) \in Nat /\ Len(toServer) >= 1  BY <2>1, EmptySeq, LenProperties
  <2>3. m = toServer[1]  BY <2>1
  <2>4. QED  BY <2>1, <2>2, <2>3, HeadTailProperties DEF Wire
<1>1. ClientTypeOK'
  <2>1. m.for \in Calls  BY <1>0 DEF Messages
  <2>2. toClient' \in Seq(Messages)  BY <1>0 DEF ClientTypeOK
  <2>3. handled' \in SUBSET Calls  BY <2>1 DEF ClientTypeOK
  <2>4. QED  BY <1>0, <2>2, <2>3 DEF ClientTypeOK
<1>2. Numbers'  BY DEF ClientTypeOK, Numbers, InRequest
<1>3. Table'  BY DEF Table
<1>4. Wire'
  <2>1. \A i \in 1 .. Len(toServer') : i + 1 \in 1 .. Len(toServer)  BY <1>0
  <2>2. \A i \in 1 .. Len(toClient') : Addressed(toClient'[i]) /\ toClient'[i].for \in handled'
    BY <1>0 DEF Wire, ClientTypeOK
  <2>3. QED  BY <1>0, <2>1, <2>2 DEF Wire, Addressed
<1>5. Delivered'  BY DEF Delivered
<1>6. QED  BY <1>1, <1>2, <1>3, <1>4, <1>5

LEMMA HangUpKeeps ==
  ASSUME ClientInv, Close \/ ServerHangUp \/ UNCHANGED allClientVars
  PROVE  ClientInv'
<1> USE DEF ClientInv, Close, ServerHangUp, allClientVars, callerVars, clientVars
<1>1. ClientTypeOK'  BY DEF ClientTypeOK
<1>2. Numbers'  BY DEF Numbers, InRequest
<1>3. Table'  BY DEF Table
<1>4. Wire'  BY DEF Wire, Addressed
<1>5. Delivered'  BY DEF Delivered
<1>6. QED  BY <1>1, <1>2, <1>3, <1>4, <1>5

LEMMA StepKeeps == ClientInv /\ [ClientNext]_allClientVars => ClientInv'
BY RefuseKeeps, NumberKeeps, RegisterKeeps, WriteKeeps, GiveUpKeeps, TakeKeeps,
   LoopReadKeeps, LoopDeliverKeeps, LoopStopKeeps, ServerKeeps, HangUpKeeps
   DEF ClientNext, Requesting, ReadLoop

(* The inductive invariant of the client: numbers, table, wire and channels *)
(* agree on which call a response belongs to.                               *)
THEOREM ClientInvariant == ClientSpec => []ClientInv
BY InitInvariant, StepKeeps, PTL DEF ClientSpec

(* Every variable of the client keeps its type: no number, channel or table *)
(* entry leaves its range, whatever the callers and the connection do.      *)
THEOREM ClientTyped == ClientSpec => []ClientTypeOK
BY ClientInvariant, PTL DEF ClientInv

-------------------------------------------------------------------------------
(* Waking. *)

(* A call that registered in time has something to take, or is still in the *)
(* table for readLoop to find, or readLoop is about to hand it its answer.  *)
InTable(c) == number[c] \in DOMAIN pending /\ pending[number[c]] = c
Registered(c) == at[c] \in {"registered", "waiting"}
Reachable ==
  /\ \A c \in early : at[c] # "idle" /\ at[c] # "numbered"
  /\ \A c \in early : Registered(c) =>
       \/ chan[c] # Empty
       \/ reader.at # "ended" /\ InTable(c)
       \/ reader.at = "deliver" /\ reader.to = c

LEMMA InitReachable == ClientInit => Reachable
BY DEF ClientInit, Reachable

LEMMA CallReachable ==
  ASSUME ClientInv, Reachable, NEW c \in Calls, Requesting(c)
  PROVE  Reachable'
<1> USE DEF ClientInv
<1>1. CASE Refuse(c) \/ Number(c)
  <2>1. /\ at[c] = "idle"
        /\ \A d \in Calls \ {c} : at'[d] = at[d] /\ number'[d] = number[d]
        /\ UNCHANGED <<chan, pending, reader, early>>
    <3>1. CASE Refuse(c)  BY <3>1 DEF Refuse, Return, clientVars, ClientTypeOK
    <3>2. CASE Number(c)  BY <3>2 DEF Number, ClientTypeOK
    <3>3. QED  BY <1>1, <3>1, <3>2
  <2>2. c \notin early  BY <2>1 DEF Reachable
  <2>3. early \subseteq Calls \ {c}  BY <2>2 DEF ClientTypeOK
  <2>4. QED  BY <2>1, <2>3 DEF Reachable, InTable, Registered
<1>2. CASE Register(c)
  <2>1. /\ at[c] = "numbered" /\ at'[c] = "registered"
        /\ \A d \in Calls \ {c} : at'[d] = at[d]
        /\ UNCHANGED <<number, chan, reader>>
        /\ early' = IF reader.at = "ended" THEN early ELSE early \cup {c}
    BY <1>2 DEF Register, ClientTypeOK
  <2>2. c \notin early  BY <2>1 DEF Reachable
  <2>3. InTable(c)'  BY <1>2, <2>1 DEF InTable, Register
  <2>4. ASSUME NEW d \in early, InTable(d) PROVE InTable(d)'
    <3>1. d \in Calls /\ d # c  BY <2>2 DEF ClientTypeOK
    <3>2. number[c] # 0  BY <2>1 DEF Numbers, InRequest
    <3>3. number[d] # number[c]  BY <3>1, <3>2 DEF Numbers
    <3>4. QED  BY <1>2, <2>1, <2>4, <3>3 DEF InTable, Register
  <2>5. \A d \in early : d \in Calls \ {c}  BY <2>2 DEF ClientTypeOK
  <2>6. \A d \in early' : d \in early \/ (d = c /\ reader.at # "ended")
    <3>1. CASE reader.at = "ended"  BY <2>1, <3>1
    <3>2. CASE reader.at # "ended"
      <4>1. early' = early \cup {c}  BY <2>1, <3>2
      <4>2. QED  BY <3>2, <4>1
    <3>3. QED  BY <3>1, <3>2
  <2>7. QED  BY <2>1, <2>3, <2>4, <2>5, <2>6 DEF Reachable, Registered
<1>3. CASE Write(c)
  BY <1>3 DEF Write, Reachable, InTable, Registered, clientVars, ClientTypeOK
<1>4. CASE TakeResponse(c)
  <2>1. /\ at'[c] = "done"
        /\ \A d \in Calls \ {c} : at'[d] = at[d] /\ chan'[d] = chan[d]
        /\ UNCHANGED <<number, pending, reader, early>>
    BY <1>4 DEF TakeResponse, Return, clientVars, peerVars, ClientTypeOK
  <2>2. early \subseteq Calls  BY DEF ClientTypeOK
  <2>3. QED  BY <2>1, <2>2 DEF Reachable, InTable, Registered
<1>5. CASE WriteFails(c) \/ WaitTimesOut(c)
  <2>1. /\ at'[c] = "done" /\ Registered(c)
        /\ \A d \in Calls \ {c} : at'[d] = at[d]
        /\ pending' = Without(pending, number[c])
        /\ UNCHANGED <<number, chan, reader, early>>
    BY <1>5 DEF WriteFails, WaitTimesOut, Return, peerVars, ClientTypeOK, Registered
  <2>2. number[c] # 0  BY <2>1 DEF Numbers, InRequest, Registered
  <2>3. ASSUME NEW d \in early, d # c, InTable(d) PROVE InTable(d)'
    <3>1. d \in Calls  BY DEF ClientTypeOK
    <3>2. number[d] # number[c]  BY <2>2, <2>3, <3>1 DEF Numbers
    <3>3. QED  BY <2>1, <2>3, <3>2 DEF InTable, Without
  <2>4. early \subseteq Calls  BY DEF ClientTypeOK
  <2>5. QED  BY <2>1, <2>3, <2>4 DEF Reachable, Registered
<1>6. QED  BY <1>1, <1>2, <1>3, <1>4, <1>5 DEF Requesting

LEMMA LoopReachable ==
  ASSUME ClientInv, Reachable, ReadLoop
  PROVE  Reachable'
<1> USE DEF ClientInv
<1>0. early \subseteq Calls  BY DEF ClientTypeOK
<1>1. CASE LoopRead
  <2> DEFINE m == Head(toClient)
  <2>1. /\ reader.at = "read" /\ UNCHANGED <<at, number, chan, early>>
        /\ \/ UNCHANGED <<reader, pending>>
           \/ /\ m.seq \in DOMAIN pending
              /\ reader' = [at |-> "deliver", to |-> pending[m.seq], msg |-> m]
              /\ pending' = Without(pending, m.seq)
    BY <1>1 DEF LoopRead, callerVars
  <2>2. CASE UNCHANGED <<reader, pending>>
    BY <2>1, <2>2 DEF Reachable, InTable, Registered
  <2>3. CASE /\ m.seq \in DOMAIN pending
             /\ reader' = [at |-> "deliver", to |-> pending[m.seq], msg |-> m]
             /\ pending' = Without(pending, m.seq)
    <3>1. reader'.at = "deliver" /\ reader'.to = pending[m.seq]  BY <2>3
    <3>2. ASSUME NEW d \in early, InTable(d)
          PROVE  InTable(d)' \/ reader'.to = d
      BY <2>1, <2>3, <3>1, <3>2 DEF InTable, Without
    <3>3. QED  BY <2>1, <3>1, <3>2 DEF Reachable, Registered
  <2>4. QED  BY <2>1, <2>2, <2>3
<1>2. CASE LoopDeliver
  <2>1. /\ reader.to \in Calls
        /\ chan'[reader.to] = Holds(reader.msg)
        /\ \A d \in Calls \ {reader.to} : chan'[d] = chan[d]
        /\ reader'.at = "read"
        /\ UNCHANGED <<at, number, pending, early>>
    BY <1>2 DEF LoopDeliver, ClientTypeOK, Reading
  <2>2. Holds(reader.msg) # Empty
    <3>1. Holds(reader.msg).kind = "response" /\ Empty.kind = "empty"  BY DEF Holds, Empty
    <3>2. QED  BY <3>1
  <2>3. QED  BY <1>0, <2>1, <2>2 DEF Reachable, InTable, Registered
<1>3. CASE LoopFails
  <2>1. reader.at = "read" /\ reader'.at = "failed" /\ UNCHANGED <<at, number, chan, pending, early>>
    BY <1>3 DEF LoopFails, callerVars
  <2>2. QED  BY <2>1 DEF Reachable, InTable, Registered
<1>4. CASE LoopEnds
  <2>1. /\ reader.at = "failed"
        /\ UNCHANGED <<at, early>>
        /\ \A d \in Calls : chan'[d] = IF \E k \in DOMAIN pending : pending[k] = d
                                       THEN Closed ELSE chan[d]
    BY <1>4 DEF LoopEnds
  <2>2. Closed # Empty
    <3>1. Closed.kind = "closed" /\ Empty.kind = "empty"  BY DEF Closed, Empty
    <3>2. QED  BY <3>1
  <2>3. \A d \in early : Registered(d) => chan'[d] # Empty
    BY <1>0, <2>1, <2>2 DEF Reachable, InTable
  <2>4. QED  BY <2>1, <2>3 DEF Reachable, Registered
<1>5. QED  BY <1>1, <1>2, <1>3, <1>4 DEF ReadLoop

LEMMA StepReachable == ClientInv /\ Reachable /\ [ClientNext]_allClientVars => Reachable'
<1> SUFFICES ASSUME ClientInv, Reachable, [ClientNext]_allClientVars PROVE Reachable'
  OBVIOUS
<1>1. CASE \E c \in Calls : Requesting(c)  BY <1>1, CallReachable
<1>2. CASE ReadLoop  BY <1>2, LoopReachable
<1>3. CASE Close \/ ServerHandle \/ ServerHangUp \/ UNCHANGED allClientVars
  BY <1>3 DEF Close, ServerHandle, ServerHangUp, allClientVars, callerVars, clientVars,
              Reachable, InTable, Registered
<1>4. QED  BY <1>1, <1>2, <1>3 DEF ClientNext

(* When readLoop has ended, no call that registered before it ended waits   *)
(* for its five seconds.                                                    *)
THEOREM LostConnectionWakesAll == ClientSpec => []LostConnectionWakes
<1>1. ClientInv /\ Reachable => LostConnectionWakes
  BY DEF ClientInv, ClientTypeOK, Reachable, Registered, LostConnectionWakes
<1>2. ClientSpec => []Reachable
  BY InitReachable, StepReachable, ClientInvariant, PTL DEF ClientSpec
<1>3. QED  BY <1>1, <1>2, ClientInvariant, PTL

-------------------------------------------------------------------------------
(* Refinement. *)

Standing == [c \in Calls |-> Stage(c)]

(* A call that an action leaves where it was stands where it stood. *)
LEMMA SameStage ==
  ASSUME NEW c \in Calls, at'[c] = at[c], outcome'[c] = outcome[c]
  PROVE  Stage(c)' = Stage(c)
BY DEF Stage

(* An action of one call changes the standing of that call alone. *)
LEMMA OneStanding ==
  ASSUME NEW c \in Calls, NEW stage, Stage(c)' = stage,
         \A d \in Calls \ {c} : at'[d] = at[d] /\ outcome'[d] = outcome[d]
  PROVE  Standing' = [Standing EXCEPT ![c] = stage]
<1>1. \A d \in Calls \ {c} : Stage(d)' = Stage(d)  BY SameStage
<1>2. QED  BY <1>1 DEF Standing

LEMMA CallRefines ==
  ASSUME ClientInv, NEW c \in Calls, Requesting(c)
  PROVE  [Promise!Next]_(Promise!vars)
<1> USE DEF ClientInv
<1>0. handled' = handled
  BY DEF Requesting, Refuse, Number, Register, Write, WriteFails, TakeResponse, WaitTimesOut, peerVars
<1>1. \A d \in Calls \ {c} : at'[d] = at[d] /\ outcome'[d] = outcome[d]
  BY DEF Requesting, Refuse, Number, Register, Write, WriteFails, TakeResponse, WaitTimesOut, Return, ClientTypeOK
<1>2. CASE Refuse(c)
  <2>1. Stage(c) = "idle"  BY <1>2 DEF Refuse, Stage
  <2>2. at'[c] = "done" /\ outcome'[c] = "failed"  BY <1>2 DEF Refuse, Return, ClientTypeOK
  <2>3. Stage(c)' = "failed"  BY <2>2, CallsAssumption DEF Stage
  <2>4. Standing' = [Standing EXCEPT ![c] = "failed"]  BY <1>1, <2>3, OneStanding
  <2>5. Promise!Fail(c)  BY <1>0, <2>1, <2>4 DEF Promise!Fail, Standing
  <2>6. QED  BY <2>5 DEF Promise!Next
<1>3. CASE Number(c)
  <2>1. Stage(c) = "idle"  BY <1>3 DEF Number, Stage
  <2>2. at'[c] = "numbered"  BY <1>3 DEF Number, ClientTypeOK
  <2>3. Stage(c)' = "waiting"  BY <2>2 DEF Stage
  <2>4. Standing' = [Standing EXCEPT ![c] = "waiting"]  BY <1>1, <2>3, OneStanding
  <2>5. Promise!Ask(c)  BY <1>0, <2>1, <2>4 DEF Promise!Ask, Standing
  <2>6. QED  BY <2>5 DEF Promise!Next
<1>4. CASE Register(c) \/ Write(c)
  <2>1. Stage(c) = "waiting"  BY <1>4 DEF Register, Write, Stage
  <2>2. at'[c] \in {"registered", "waiting"}  BY <1>4 DEF Register, Write, ClientTypeOK
  <2>3. Stage(c)' = "waiting"  BY <2>2 DEF Stage
  <2>4. Standing' = [Standing EXCEPT ![c] = "waiting"]  BY <1>1, <2>3, OneStanding
  <2>5. Standing' = Standing  BY <2>1, <2>4 DEF Standing
  <2>6. QED  BY <1>0, <2>5 DEF Promise!vars, Standing
<1>5. CASE WriteFails(c) \/ WaitTimesOut(c)
  <2>1. Stage(c) = "waiting"  BY <1>5 DEF WriteFails, WaitTimesOut, Stage
  <2>2. at'[c] = "done" /\ outcome'[c] = "failed"
    BY <1>5 DEF WriteFails, WaitTimesOut, Return, ClientTypeOK
  <2>3. Stage(c)' = "failed"  BY <2>2, CallsAssumption DEF Stage
  <2>4. Standing' = [Standing EXCEPT ![c] = "failed"]  BY <1>1, <2>3, OneStanding
  <2>5. Promise!Fail(c)  BY <1>0, <2>1, <2>4 DEF Promise!Fail, Standing
  <2>6. QED  BY <2>5 DEF Promise!Next
<1>6. CASE TakeResponse(c)
  <2>1. Stage(c) = "waiting"  BY <1>6 DEF TakeResponse, Stage
  <2>2. at'[c] = "done"  BY <1>6 DEF TakeResponse, Return, ClientTypeOK
  <2>3. CASE chan[c] = Closed
    <3>1. outcome'[c] = "empty"  BY <1>6, <2>3 DEF TakeResponse, Return, ClientTypeOK
    <3>2. Stage(c)' = "failed"  BY <2>2, <3>1, CallsAssumption DEF Stage
    <3>3. Standing' = [Standing EXCEPT ![c] = "failed"]  BY <1>1, <3>2, OneStanding
    <3>4. Promise!Fail(c)  BY <1>0, <2>1, <3>3 DEF Promise!Fail, Standing
    <3>5. QED  BY <3>4 DEF Promise!Next
  <2>4. CASE chan[c] # Closed
    <3>1. chan[c].kind = "response" /\ chan[c].msg.for = c /\ c \in handled
      BY <1>6, <2>4 DEF TakeResponse, ClientTypeOK, Delivered
    <3>2. outcome'[c] = c  BY <1>6, <2>4, <3>1 DEF TakeResponse, Return, ClientTypeOK
    <3>3. Stage(c)' = "answered"
      <4>1. c \notin {"failed", "empty"}  BY CallsAssumption
      <4>2. QED  BY <2>2, <3>2, <4>1 DEF Stage
    <3>4. Standing' = [Standing EXCEPT ![c] = "answered"]  BY <1>1, <3>3, OneStanding
    <3>5. Promise!Answer(c)  BY <1>0, <2>1, <3>1, <3>4 DEF Promise!Answer, Standing
    <3>6. QED  BY <3>5 DEF Promise!Next
  <2>5. QED  BY <2>3, <2>4
<1>7. QED  BY <1>2, <1>3, <1>4, <1>5, <1>6 DEF Requesting

(* The request the server handles was asked, and its call has no answer.    *)
LEMMA HandleRefines ==
  ASSUME ClientInv, ServerHandle
  PROVE  [Promise!Next]_(Promise!vars)
<1> USE DEF ClientInv
<1> DEFINE c == Head(toServer).for
<1>0. toServer[1] = Head(toServer) /\ Head(toServer) \in Messages /\ Addressed(Head(toServer))
  <2>1. toServer \in Seq(Messages) /\ toServer # <<>>  BY DEF ClientTypeOK, ServerHandle
  <2>2. Len(toServer) \in Nat /\ Len(toServer) >= 1  BY <2>1, EmptySeq, LenProperties
  <2>3. Head(toServer) = toServer[1]  BY <2>1
  <2>4. toServer[1] \in Messages  BY <2>1, <2>2
  <2>5. QED  BY <2>2, <2>3, <2>4 DEF Wire
<1>1. c \in Calls /\ number[c] # 0  BY <1>0 DEF Messages, Addressed
<1>2. handled' = handled \cup {c} /\ UNCHANGED <<at, outcome>>
  BY DEF ServerHandle, callerVars
<1>3. Standing' = Standing
  <2>1. \A d \in Calls : Stage(d)' = Stage(d)  BY <1>2 DEF Stage
  <2>2. QED  BY <2>1 DEF Standing
<1>4. CASE c \in handled
  BY <1>2, <1>3, <1>4 DEF Promise!vars, Standing
<1>5. CASE c \notin handled
  <2>1. at[c] # "idle"  BY <1>1 DEF Numbers
  <2>2. at[c] = "done" => outcome[c] \in {"failed", "empty"}
    BY <1>1, <1>5 DEF Delivered
  <2>3. Stage(c) \in {"waiting", "failed"}
    BY <1>1, <2>1, <2>2, CallsAssumption DEF Stage, ClientTypeOK
  <2>4. Promise!Handle(c)  BY <1>1, <1>2, <1>3, <1>5, <2>3 DEF Promise!Handle, Standing
  <2>5. QED  BY <1>1, <2>4 DEF Promise!Next
<1>6. QED  BY <1>4, <1>5

LEMMA StepRefines == ClientInv /\ [ClientNext]_allClientVars => [Promise!Next]_(Promise!vars)
<1> SUFFICES ASSUME ClientInv, [ClientNext]_allClientVars PROVE [Promise!Next]_(Promise!vars)
  OBVIOUS
<1>1. CASE \E c \in Calls : Requesting(c)  BY <1>1, CallRefines
<1>2. CASE ServerHandle  BY <1>2, HandleRefines
<1>3. CASE ReadLoop \/ Close \/ ServerHangUp \/ UNCHANGED allClientVars
  <2>1. UNCHANGED <<at, outcome, handled>>
    BY <1>3 DEF ReadLoop, LoopRead, LoopDeliver, LoopFails, LoopEnds, Close, ServerHangUp,
                allClientVars, callerVars, peerVars
  <2>2. \A d \in Calls : Stage(d)' = Stage(d)  BY <2>1 DEF Stage
  <2>3. QED  BY <2>1, <2>2 DEF Promise!vars
<1>4. QED  BY <1>1, <1>2, <1>3 DEF ClientNext

(* Request never returns the response of another call, for any number of    *)
(* calls: the client implements request and reply.                          *)
THEOREM ClientKeepsPromise == ClientSpec => AnswersItsOwn
<1>1. ClientInit => Promise!Init
  <2> SUFFICES ASSUME ClientInit PROVE Promise!Init
    OBVIOUS
  <2>1. \A c \in Calls : Stage(c) = "idle"  BY DEF ClientInit, Stage
  <2>2. QED  BY <2>1 DEF ClientInit, Promise!Init
<1>2. QED
  BY <1>1, StepRefines, ClientInvariant, PTL DEF ClientSpec, AnswersItsOwn, Promise!Spec

-------------------------------------------------------------------------------
(* The mirror: the shape of the state. *)

(* What the TUI may still have to do, the request it waits for first.      *)
Todos ==
  {<<>>, <<"pause">>, <<"continue">>,
   <<"step", "waitForStop", "stackTrace", "variables", "readMemory">>,
   <<"waitForStop", "stackTrace", "variables", "readMemory">>,
   <<"stackTrace", "variables", "readMemory">>,
   <<"variables", "readMemory">>, <<"readMemory">>}

(* The request the TUI waits for is one of these. *)
Doing(cmds) == todo # <<>> /\ Head(todo) \in cmds

(* What a snapshot of the mirror holds. *)
Marks(now) == [pc : 0 .. now, regs : 0 .. now]

(* Events the server may have sent by machine state now. *)
Bytes == UNION {[S -> Values] : S \in SUBSET Addrs}
StateEvents(now) == [kind : {"state"}, time : 0 .. now, bytes : Bytes]
EventsBy(now) == {Stopped} \cup StateEvents(now)

QueuesOK ==
  /\ todo \in Todos
  /\ dirty \in [bits : SUBSET Addrs, lo : Int, hi : Int]
  /\ events \in Seq(EventsBy(time))
  /\ external \in Seq(EventsBy(time))
  /\ stopped \in Nat
  /\ lost \in SUBSET Parts

(* The hook of a run lies over the host's, which is put back after it.     *)
HookChain ==
  IF loop = "none" THEN hook = <<"host">> /\ prevHook = <<>>
                   ELSE hook = <<"dirty", "host">> /\ prevHook = <<"host">>

(* The answer is to the request the TUI waits for, and what it read is of  *)
(* a machine state there has been.                                         *)
AnswerOK ==
  \A m \in answer :
    /\ Doing({m.cmd}) /\ m.cmd # "waitForStop"
    /\ m.cmd \in Reads => /\ m.time \in 0 .. time
                          /\ m.ram \in [Addrs -> Values]
                          /\ m.time = time => m.ram = ram

OneAnswer == answer = {} \/ \E m : answer = {m}

ShapeInv ==
  /\ TypeOK
  /\ QueuesOK
  /\ HookChain
  /\ HostSeesEverything
  /\ AnswerOK
  /\ OneAnswer

-------------------------------------------------------------------------------
(* What makes the mirror follow the machine. *)

(* The events behind the first i of those on the way. *)
StopAfter(i) ==
  \E j \in 1 .. Len(OnTheWay) : i < j /\ OnTheWay[j] = Stopped
ByteAfter(i, a) ==
  \E j \in 1 .. Len(OnTheWay) :
    i < j /\ OnTheWay[j] # Stopped /\ a \in DOMAIN OnTheWay[j].bytes

(* The next report of the run brings this byte. *)
InFlush(a) ==
  loop = "run" /\ a \in dirty.bits /\ dirty.lo <= a /\ a <= dirty.hi

(* What the i-th event on the way says of a part, or of a byte, need not   *)
(* be true of the machine any more (for i = 0, what the mirror shows):     *)
(* either it was lost, or something behind that event puts it right.       *)
PartComing(p, i) == p \in lost \/ StopAfter(i) \/ loop \in {"run", "emit"}
ByteComing(a, i) ==
  \/ "memory" \in lost \/ StopAfter(i) \/ ByteAfter(i, a)
  \/ InFlush(a) \/ loop = "emit"

PcFollows ==
  \/ pc = time \/ "pc" \in own
  \/ PartComing("pc", 0) \/ Doing({"stackTrace"})
RegsFollow ==
  \/ regs = time \/ "regs" \in own
  \/ PartComing("regs", 0) \/ Doing({"stackTrace", "variables"})
MemoryFollows ==
  \A a \in Addrs :
    \/ mirror[a] = ram[a] \/ "memory" \in own
    \/ ByteComing(a, 0) \/ Doing(Reads)

(* An event on the way is put right only by what is behind it: a read that *)
(* is answered before the TUI comes to the event would be undone by it.    *)
EventsFollow ==
  \A i \in 1 .. Len(OnTheWay) :
    OnTheWay[i] # Stopped =>
      /\ OnTheWay[i].time = time \/ PartComing("pc", i)
      /\ \A a \in DOMAIN OnTheWay[i].bytes :
           OnTheWay[i].bytes[a] = ram[a] \/ ByteComing(a, i)

(* All the events on the way come after an answer the TUI has not taken.   *)
AnswerFollows ==
  \A m \in answer : m.cmd \in Reads =>
    /\ \A p \in {"pc", "regs"} : m.time = time \/ PartComing(p, 0)
    /\ \A a \in Addrs : m.ram[a] = ram[a] \/ ByteComing(a, 0)

FollowInv ==
  /\ PcFollows
  /\ RegsFollow
  /\ MemoryFollows
  /\ EventsFollow
  /\ AnswerFollows

MirrorInv == ShapeInv /\ FollowInv

-------------------------------------------------------------------------------
(* Lemmas about the operators. *)

LEMMA Bounds ==
  /\ MaxAddr \in Nat /\ EventCap \in Nat /\ StoppedCap \in Nat
  /\ ExternalCap \in Nat /\ MaxTime \in Nat /\ MaxKeys \in Nat
  /\ MaxTimeOuts \in Nat
  BY BoundsAssumption

LEMMA TailOfOne ==
  ASSUME NEW x
  PROVE  Tail(<<x>>) = <<>>
<1>1. <<x>> \in Seq({x}) /\ Len(<<x>>) = 1
  OBVIOUS
<1>2. Tail(<<x>>) \in Seq({x}) /\ Len(Tail(<<x>>)) = 0
  BY <1>1
<1> QED BY <1>2

LEMMA TodoCases ==
  ASSUME todo \in Todos, todo # <<>>
  PROVE  /\ Head(todo) \in {"pause", "continue", "step", "waitForStop",
                            "stackTrace", "variables", "readMemory"}
         /\ Tail(todo) \in Todos
         /\ Head(todo) = "step" => Head(Tail(todo)) = "waitForStop"
         /\ Head(todo) = "waitForStop" =>
              Tail(todo) # <<>> /\ Head(Tail(todo)) = "stackTrace"
         /\ Head(todo) = "stackTrace" =>
              Tail(todo) # <<>> /\ Head(Tail(todo)) = "variables"
         /\ Head(todo) = "variables" =>
              Tail(todo) # <<>> /\ Head(Tail(todo)) = "readMemory"
<1>1. CASE todo = <<"pause">> \/ todo = <<"continue">> \/ todo = <<"readMemory">>
  <2>1. Tail(todo) = <<>>
    BY <1>1, TailOfOne
  <2> QED BY <1>1, <2>1 DEF Todos
<1>2. CASE todo = <<"variables", "readMemory">>
  <2>1. Tail(todo) = <<"readMemory">>
    BY <1>2
  <2> QED BY <1>2, <2>1 DEF Todos
<1>3. CASE todo = <<"stackTrace", "variables", "readMemory">>
  <2>1. Tail(todo) = <<"variables", "readMemory">>
    BY <1>3
  <2> QED BY <1>3, <2>1 DEF Todos
<1>4. CASE todo = <<"waitForStop", "stackTrace", "variables", "readMemory">>
  <2>1. Tail(todo) = <<"stackTrace", "variables", "readMemory">>
    BY <1>4
  <2> QED BY <1>4, <2>1 DEF Todos
<1>5. CASE todo = <<"step", "waitForStop", "stackTrace", "variables", "readMemory">>
  <2>1. Tail(todo) = <<"waitForStop", "stackTrace", "variables", "readMemory">>
    BY <1>5
  <2> QED BY <1>5, <2>1 DEF Todos
<1> QED BY <1>1, <1>2, <1>3, <1>4, <1>5 DEF Todos

(* Events of an earlier machine state are events of a later one.           *)
LEMMA EventsStay ==
  ASSUME NEW now \in Nat, NEW later \in Nat, now <= later,
         NEW q \in Seq(EventsBy(now))
  PROVE  q \in Seq(EventsBy(later))
<1>1. EventsBy(now) \subseteq EventsBy(later)
  BY DEF EventsBy, StateEvents
<1> QED BY <1>1

LEMMA EventFields ==
  ASSUME NEW now, NEW e \in EventsBy(now), e # Stopped
  PROVE  /\ e.time \in 0 .. now
         /\ DOMAIN e.bytes \subseteq Addrs
         /\ \A a \in DOMAIN e.bytes : e.bytes[a] \in Values
  BY DEF EventsBy, StateEvents, Bytes

(* Whichever hooks are on the bus, the host's is one of them. *)
LEMMA HookMembers ==
  ASSUME HookChain
  PROVE  Hooked("host") /\ (Hooked("dirty") <=> loop # "none")
  BY DEF HookChain, Hooked

LEMMA EmptyClean ==
  /\ Clean \in [bits : SUBSET Addrs, lo : Int, hi : Int]
  /\ Clean.bits \in SUBSET (Clean.lo .. Clean.hi)
  BY Bounds DEF Clean

LEMMA MarkedOK ==
  ASSUME ShapeInv, NEW a \in Addrs
  PROVE  /\ Marked(a) \in [bits : SUBSET Addrs, lo : Int, hi : Int]
         /\ Marked(a).bits \in SUBSET (Marked(a).lo .. Marked(a).hi)
         /\ Marked(a).bits = dirty.bits \cup {a}
         /\ Marked(a).lo <= dirty.lo /\ Marked(a).lo <= a
         /\ Marked(a).hi >= dirty.hi /\ Marked(a).hi >= a
  BY Bounds DEF ShapeInv, TypeOK, QueuesOK, Marked, Addrs

(* Between the bounds lie all the marks. *)
LEMMA SpansAll ==
  ASSUME ShapeInv
  PROVE  Spans(dirty) = dirty.bits
  BY DEF ShapeInv, TypeOK, QueuesOK, Spans

(* One instruction. *)
LEMMA ExecuteOK ==
  ASSUME ShapeInv, Execute
  PROVE  /\ time' = time + 1 /\ time' \in 0 .. MaxTime
         /\ ram' \in [Addrs -> Values]
         /\ dirty' \in [bits : SUBSET Addrs, lo : Int, hi : Int]
         /\ dirty'.bits \in SUBSET (dirty'.lo .. dirty'.hi)
         /\ unseen' = FALSE
<1>1. /\ time \in 0 .. MaxTime /\ ram \in [Addrs -> Values] /\ unseen = FALSE
      /\ dirty \in [bits : SUBSET Addrs, lo : Int, hi : Int]
      /\ dirty.bits \in SUBSET (dirty.lo .. dirty.hi)
  BY DEF ShapeInv, TypeOK, QueuesOK, HostSeesEverything
<1>2. time' = time + 1 /\ time' \in 0 .. MaxTime
  BY <1>1, Bounds DEF Execute
<1>3. CASE UNCHANGED <<ram, dirty, unseen>>
  BY <1>1, <1>2, <1>3
<1>4. CASE \E a \in Addrs, v \in Values :
             /\ ram' = [ram EXCEPT ![a] = v]
             /\ dirty' = IF Hooked("dirty") THEN Marked(a) ELSE dirty
             /\ unseen' = (unseen \/ ~Hooked("host"))
  <2>1. PICK a \in Addrs, v \in Values :
             /\ ram' = [ram EXCEPT ![a] = v]
             /\ dirty' = IF Hooked("dirty") THEN Marked(a) ELSE dirty
             /\ unseen' = (unseen \/ ~Hooked("host"))
    BY <1>4
  <2>2. Hooked("host")
    BY HookMembers DEF ShapeInv
  <2> QED BY <1>1, <1>2, <2>1, <2>2, MarkedOK
<1> QED BY <1>3, <1>4 DEF Execute

(* An event sent is in the queue, unless that is full. *)
LEMMA EmitOK ==
  ASSUME ShapeInv, NEW now \in Nat, time <= now, NEW e \in EventsBy(now), Emit(e)
  PROVE  /\ events' \in Seq(EventsBy(now))
         /\ Len(events') \in 0 .. EventCap
         /\ lost' \in SUBSET Parts
<1>1. events \in Seq(EventsBy(now)) /\ lost \in SUBSET Parts
  BY EventsStay DEF ShapeInv, QueuesOK, TypeOK
<1>2. Len(events) \in 0 .. EventCap
  BY DEF ShapeInv, TypeOK
<1>3. CASE Len(events) < EventCap
  <2>1. events' = Append(events, e) /\ lost' = lost
    BY <1>3 DEF Emit
  <2>2. Len(events') = Len(events) + 1
    BY <1>1, <2>1
  <2>3. events' \in Seq(EventsBy(now))
    BY <1>1, <2>1
  <2> QED BY <1>1, <1>2, <1>3, <2>1, <2>2, <2>3, Bounds
<1>4. CASE ~(Len(events) < EventCap)
  BY <1>1, <1>2, <1>4 DEF Emit, Parts
<1> QED BY <1>3, <1>4

(* An answer given to the TUI is to the request it waits for. *)
LEMMA AnsweredOK ==
  ASSUME ShapeInv, NEW cmds, Asked(cmds), NEW m, Answered(m)
  PROVE  /\ inbox' \in Seq({"step", "continue", "pause"})
         /\ OneAnswer'
         /\ \/ answer' = answer /\ inbox # <<>> /\ Head(inbox) \in cmds
            \/ answer' = {m} /\ inbox = <<>> /\ Doing(cmds)
<1>1. inbox \in Seq({"step", "continue", "pause"}) /\ OneAnswer
  BY DEF ShapeInv, TypeOK
<1>2. CASE inbox # <<>>
  <2>1. inbox' = Tail(inbox) /\ answer' = answer /\ Head(inbox) \in cmds
    BY <1>2 DEF Answered, Asked
  <2>2. Tail(inbox) \in Seq({"step", "continue", "pause"})
    BY <1>1, <1>2
  <2> QED BY <1>1, <1>2, <2>1, <2>2 DEF OneAnswer
<1>3. CASE inbox = <<>>
  BY <1>1, <1>3 DEF Answered, Asked, OneAnswer, Doing
<1> QED BY <1>2, <1>3

(* The type invariant, from what the steps show of its parts.              *)
LEMMA TypeFromParts ==
  ASSUME time' \in 0 .. MaxTime, ram' \in [Addrs -> Values],
         dirty'.bits \in SUBSET (dirty'.lo .. dirty'.hi),
         loop' \in {"none", "run", "emit", "clear"}, HookChain',
         inbox' \in Seq({"step", "continue", "pause"}),
         timeouts' \in 0 .. MaxTimeOuts, OneAnswer',
         Len(events') \in 0 .. EventCap, stopped' \in 0 .. StoppedCap,
         Len(external') \in 0 .. ExternalCap, running' \in BOOLEAN,
         pc' \in 0 .. time', regs' \in 0 .. time',
         mirror' \in [Addrs -> Values], ring' \in Seq(Marks(time'))
  PROVE  TypeOK'
<1>1. (loop' = "none") <=> ~Hooked("dirty")'
  BY DEF HookChain, Hooked
<1>2. Cardinality(answer') \in 0 .. 1
  <2>1. ASSUME answer' = {} PROVE Cardinality(answer') = 0
    BY <2>1, FS_EmptySet
  <2>2. ASSUME NEW m, answer' = {m} PROVE Cardinality(answer') = 1
    BY <2>2, FS_Singleton
  <2>3. Cardinality(answer') = 0 \/ Cardinality(answer') = 1
    BY <2>1, <2>2 DEF OneAnswer
  <2> QED BY <2>3
<1> QED BY <1>1, <1>2 DEF TypeOK, Marks

(* The parts that a step of one process leaves alone.                      *)
LEMMA Parts0 ==
  ASSUME ShapeInv
  PROVE  /\ time \in 0 .. MaxTime /\ time \in Nat
         /\ ram \in [Addrs -> Values]
         /\ dirty.bits \in SUBSET (dirty.lo .. dirty.hi)
         /\ dirty \in [bits : SUBSET Addrs, lo : Int, hi : Int]
         /\ loop \in {"none", "run", "emit", "clear"}
         /\ inbox \in Seq({"step", "continue", "pause"})
         /\ timeouts \in 0 .. MaxTimeOuts
         /\ Len(events) \in 0 .. EventCap /\ stopped \in 0 .. StoppedCap
         /\ Len(external) \in 0 .. ExternalCap /\ running \in BOOLEAN
         /\ pc \in 0 .. time /\ regs \in 0 .. time
         /\ mirror \in [Addrs -> Values]
         /\ todo \in Todos
         /\ events \in Seq(EventsBy(time)) /\ external \in Seq(EventsBy(time))
         /\ stopped \in Nat /\ lost \in SUBSET Parts /\ unseen = FALSE
  BY Bounds DEF ShapeInv, TypeOK, QueuesOK, HostSeesEverything

(* Snapshots taken at an earlier machine state stay snapshots.             *)
LEMMA RingOK == ASSUME ShapeInv PROVE ring \in Seq(Marks(time))
  BY DEF ShapeInv, TypeOK, Marks

LEMMA RingStays ==
  ASSUME ShapeInv, UNCHANGED ring, time' \in Nat, time <= time'
  PROVE  ring' \in Seq(Marks(time'))
<1>1. Marks(time) \subseteq Marks(time')
  BY Parts0 DEF Marks
<1>2. ring \in Seq(Marks(time))
  BY RingOK
<1> HIDE DEF Marks
<1> QED BY <1>1, <1>2

-------------------------------------------------------------------------------
(* The shape holds at the start and every step keeps it.                   *)

LEMMA InitShape == Init => ShapeInv
<1> SUFFICES ASSUME Init PROVE ShapeInv
  OBVIOUS
<1>1. ram \in [Addrs -> Values] /\ mirror = ram
  BY BoundsAssumption DEF Init
<1>2. HookChain /\ OneAnswer /\ AnswerOK /\ HostSeesEverything
  BY DEF Init, HookChain, OneAnswer, AnswerOK, HostSeesEverything
<1>3. QueuesOK
  BY EmptyClean DEF Init, QueuesOK, Todos
<1>4. (loop = "none") <=> ~Hooked("dirty")
  BY <1>2, HookMembers
<1>5. Cardinality(answer) \in 0 .. 1
  BY FS_EmptySet DEF Init
<1>6. inbox \in Seq({"step", "continue", "pause"}) /\ Len(events) = 0
      /\ Len(external) = 0 /\ ring \in Seq(Marks(time))
  BY DEF Init
<1>7. time \in 0 .. MaxTime /\ timeouts \in 0 .. MaxTimeOuts
      /\ Len(events) \in 0 .. EventCap /\ stopped \in 0 .. StoppedCap
      /\ Len(external) \in 0 .. ExternalCap /\ pc \in 0 .. time
      /\ regs \in 0 .. time
  BY <1>6, Bounds DEF Init
<1>8. TypeOK
  BY <1>1, <1>4, <1>5, <1>6, <1>7, EmptyClean DEF Init, TypeOK, Marks
<1> QED BY <1>2, <1>3, <1>8 DEF ShapeInv

(* Answers read of the machine keep what they say while it runs on.        *)
LEMMA AnswersStay ==
  ASSUME ShapeInv, time' \in Nat, UNCHANGED todo,
         \/ time' = time /\ ram' = ram
         \/ time' = time + 1,
         \A m \in answer' : m \notin answer =>
           /\ Doing({m.cmd}) /\ m.cmd # "waitForStop"
           /\ m.cmd \notin Reads
  PROVE  AnswerOK'
<1> SUFFICES ASSUME NEW m \in answer'
             PROVE  /\ Doing({m.cmd})' /\ m.cmd # "waitForStop"
                    /\ m.cmd \in Reads => /\ m.time \in 0 .. time'
                                          /\ m.ram \in [Addrs -> Values]
                                          /\ m.time = time' => m.ram = ram'
  BY DEF AnswerOK
<1>1. CASE m \in answer
  <2>1. /\ Doing({m.cmd}) /\ m.cmd # "waitForStop"
        /\ m.cmd \in Reads => /\ m.time \in 0 .. time
                              /\ m.ram \in [Addrs -> Values]
                              /\ m.time = time => m.ram = ram
    BY <1>1 DEF ShapeInv, AnswerOK
  <2>2. Doing({m.cmd})'
    BY <2>1 DEF Doing
  <2>3. ASSUME m.time \in 0 .. time PROVE m.time \in 0 .. time'
    BY <2>3, Parts0
  <2>4. ASSUME m.time \in 0 .. time, m.time = time', m.time = time => m.ram = ram
        PROVE  m.ram = ram'
    BY <2>4, Parts0
  <2> QED BY <2>1, <2>2, <2>3, <2>4
<1>2. CASE m \notin answer
  BY <1>2 DEF Doing
<1> QED BY <1>1, <1>2

LEMMA HandleStepShape == ASSUME ShapeInv, HandleStep PROVE ShapeInv'
<1> DEFINE m == [cmd |-> "step"]
<1>1. /\ inbox' \in Seq({"step", "continue", "pause"}) /\ OneAnswer'
      /\ \/ answer' = answer
         \/ answer' = {m} /\ Doing({"step"})
  BY AnsweredOK DEF HandleStep
<1>2. UNCHANGED <<hook, prevHook, loop, pause, stopped, external, todo, running,
                  pc, regs, mirror, ring, own, keys, timeouts>>
  BY DEF HandleStep, sourceVars, mirrorVars
<1>3. /\ time' \in 0 .. MaxTime /\ ram' \in [Addrs -> Values]
      /\ dirty' \in [bits : SUBSET Addrs, lo : Int, hi : Int]
      /\ dirty'.bits \in SUBSET (dirty'.lo .. dirty'.hi)
      /\ unseen' = FALSE
      /\ \/ time' = time /\ ram' = ram
         \/ time' = time + 1
      /\ events' \in Seq(EventsBy(time'))
      /\ Len(events') \in 0 .. EventCap
      /\ lost' \in SUBSET Parts
  <2>1. CASE loop = "none"
    <3>1. Execute /\ Emit(Stopped)
      BY <2>1 DEF HandleStep
    <3>2. time' = time + 1 /\ time' \in 0 .. MaxTime
      BY <3>1, ExecuteOK
    <3>3. /\ events' \in Seq(EventsBy(time'))
          /\ Len(events') \in 0 .. EventCap
          /\ lost' \in SUBSET Parts
      <4>1. time' \in Nat /\ time <= time' /\ Stopped \in EventsBy(time')
        BY <3>2, Parts0 DEF EventsBy
      <4> QED BY <3>1, <4>1, EmitOK
    <3> QED BY <3>1, <3>2, <3>3, ExecuteOK
  <2>2. CASE loop # "none"
    BY <2>2, Parts0 DEF HandleStep
  <2> QED BY <2>1, <2>2
<1>4. HookChain' /\ HostSeesEverything'
  BY <1>2, <1>3 DEF ShapeInv, HookChain, HostSeesEverything
<1>5. time' \in Nat /\ external' \in Seq(EventsBy(time'))
      /\ pc' \in 0 .. time' /\ regs' \in 0 .. time'
      /\ ring' \in Seq(Marks(time'))
  <2>1. time \in Nat /\ time' \in Nat /\ time <= time'
    BY <1>3, Parts0
  <2> QED BY <1>2, <2>1, Parts0, EventsStay, RingStays
<1>6. AnswerOK'
  <2>1. ASSUME NEW n \in answer', n \notin answer
        PROVE  Doing({n.cmd}) /\ n.cmd # "waitForStop" /\ n.cmd \notin Reads
    BY <1>1, <2>1 DEF Doing, Reads
  <2>2. \/ time' = time /\ ram' = ram
        \/ time' = time + 1
    BY <1>3
  <2>3. UNCHANGED todo /\ time' \in Nat
    BY <1>2, <1>5
  <2> QED BY <2>1, <2>2, <2>3, AnswersStay
<1>7. QueuesOK'
  BY <1>2, <1>3, <1>5, Parts0 DEF QueuesOK
<1>8. TypeOK'
  BY <1>1, <1>2, <1>3, <1>4, <1>5, Parts0, TypeFromParts
<1> QED BY <1>1, <1>4, <1>6, <1>7, <1>8 DEF ShapeInv

LEMMA RunIterateShape == ASSUME ShapeInv, RunIterate PROVE ShapeInv'
<1>1. UNCHANGED <<hook, prevHook, loop, pause, inbox, answer, events, stopped,
                  external, todo, running, pc, regs, mirror, ring, own, keys, timeouts, lost>>
  BY DEF RunIterate, wireVars, sourceVars, mirrorVars
<1>2. /\ time' = time + 1 /\ time' \in 0 .. MaxTime /\ ram' \in [Addrs -> Values]
      /\ dirty' \in [bits : SUBSET Addrs, lo : Int, hi : Int]
      /\ dirty'.bits \in SUBSET (dirty'.lo .. dirty'.hi)
      /\ unseen' = FALSE
  BY ExecuteOK DEF RunIterate
<1>3. HookChain' /\ HostSeesEverything' /\ OneAnswer'
  BY <1>1, <1>2 DEF ShapeInv, HookChain, HostSeesEverything, OneAnswer
<1>4. /\ time' \in Nat
      /\ external' \in Seq(EventsBy(time')) /\ events' \in Seq(EventsBy(time'))
      /\ pc' \in 0 .. time' /\ regs' \in 0 .. time'
      /\ ring' \in Seq(Marks(time'))
  <2>1. time \in Nat /\ time' \in Nat /\ time <= time'
    BY <1>2, Parts0
  <2> QED BY <1>1, <2>1, Parts0, EventsStay, RingStays
<1>5. AnswerOK'
  <2>1. answer' = answer /\ UNCHANGED todo /\ time' \in Nat /\ time' = time + 1
    BY <1>1, <1>2, <1>4
  <2> QED BY <2>1, AnswersStay
<1>6. QueuesOK'
  BY <1>1, <1>2, <1>4, Parts0 DEF QueuesOK
<1>7. TypeOK'
  BY <1>1, <1>2, <1>3, <1>4, Parts0, TypeFromParts
<1> QED BY <1>3, <1>5, <1>6, <1>7 DEF ShapeInv

(* While nothing is asked there is no answer, nor while the TUI waits for  *)
(* the machine to stop.                                                    *)
LEMMA NoAnswer ==
  ASSUME ShapeInv, todo = <<>> \/ Doing({"waitForStop"})
  PROVE  answer = {}
  BY DEF ShapeInv, AnswerOK, Doing

(* The steps that change neither the machine nor the queues of events.     *)
LEMMA SameMachineShape ==
  ASSUME ShapeInv,
         UNCHANGED <<time, ram, events, external, unseen>>,
         pc' \in 0 .. time, regs' \in 0 .. time, mirror' \in [Addrs -> Values],
         ring' \in Seq(Marks(time)), dirty' \in {dirty, Clean},
         loop' \in {"none", "run", "emit", "clear"}, HookChain',
         inbox' \in Seq({"step", "continue", "pause"}),
         timeouts' \in 0 .. MaxTimeOuts, stopped' \in 0 .. StoppedCap,
         todo' \in Todos, lost' \in SUBSET Parts, running' \in BOOLEAN,
         OneAnswer', AnswerOK'
  PROVE  ShapeInv'
<1>1. /\ dirty' \in [bits : SUBSET Addrs, lo : Int, hi : Int]
      /\ dirty'.bits \in SUBSET (dirty'.lo .. dirty'.hi)
  BY Parts0, EmptyClean
<1>2. QueuesOK'
  <2>1. events' \in Seq(EventsBy(time')) /\ external' \in Seq(EventsBy(time'))
    BY Parts0
  <2>2. stopped' \in Nat
    BY Bounds
  <2> QED BY <1>1, <2>1, <2>2 DEF QueuesOK
<1>3. TypeOK'
  BY <1>1, Parts0, TypeFromParts
<1> QED BY <1>2, <1>3 DEF ShapeInv, HostSeesEverything

LEMMA ReplyShape ==
  ASSUME ShapeInv, HandleContinue \/ HandlePause
  PROVE  ShapeInv'
<1>1. PICK c \in {"continue", "pause"} : Asked({c}) /\ Answered([cmd |-> c])
  BY DEF HandleContinue, HandlePause
<1>2. UNCHANGED <<time, ram, events, stopped, external, todo, running, pc, regs,
                  mirror, ring, own, timeouts, lost, unseen>>
  BY DEF HandleContinue, HandlePause, sourceVars, mirrorVars
<1>3. /\ inbox' \in Seq({"step", "continue", "pause"}) /\ OneAnswer'
      /\ \/ answer' = answer
         \/ answer' = {[cmd |-> c]} /\ Doing({c})
  BY <1>1, AnsweredOK
<1>4. AnswerOK'
  <2>1. ASSUME NEW n \in answer', n \notin answer
        PROVE  Doing({n.cmd}) /\ n.cmd # "waitForStop" /\ n.cmd \notin Reads
    BY <1>3, <2>1 DEF Doing, Reads
  <2>2. time' = time /\ ram' = ram /\ UNCHANGED todo /\ time' \in Nat
    BY <1>2, Parts0
  <2> QED BY <2>1, <2>2, AnswersStay
<1>5. /\ dirty' \in {dirty, Clean}
      /\ loop' \in {"none", "run", "emit", "clear"} /\ HookChain'
  <2>1. CASE HandlePause
    BY <2>1, Parts0 DEF HandlePause, ShapeInv, HookChain
  <2>2. CASE HandleContinue /\ loop # "none"
    BY <2>2, Parts0 DEF HandleContinue, ShapeInv, HookChain
  <2>3. CASE HandleContinue /\ loop = "none"
    <3>1. hook = <<"host">>
      BY <2>3 DEF ShapeInv, HookChain
    <3>2. hook' = <<"dirty", "host">> /\ prevHook' = <<"host">>
      BY <2>3, <3>1 DEF HandleContinue, InstallHook
    <3> QED BY <2>3, <3>2 DEF HandleContinue, InstallHook, HookChain
  <2> QED BY <2>1, <2>2, <2>3
<1> QED BY <1>2, <1>3, <1>4, <1>5, Parts0, RingOK, SameMachineShape

LEMMA HandleReadShape == ASSUME ShapeInv, HandleRead PROVE ShapeInv'
<1> DEFINE m == [cmd |-> Head(todo), time |-> time, ram |-> ram]
<1>1. UNCHANGED <<time, ram, hook, prevHook, dirty, loop, events, stopped,
                  external, todo, running, pc, regs, mirror, ring, own, timeouts, lost, unseen>>
  BY DEF HandleRead, serverVars, sourceVars, mirrorVars
<1>2. /\ inbox' \in Seq({"step", "continue", "pause"}) /\ OneAnswer'
      /\ \/ answer' = answer /\ inbox # <<>> /\ Head(inbox) \in Reads
         \/ answer' = {m} /\ inbox = <<>> /\ Doing(Reads)
  BY AnsweredOK DEF HandleRead
<1>3. answer' = {m} /\ Doing(Reads)
  <2>1. inbox # <<>> => Head(inbox) \in {"step", "continue", "pause"}
    BY Parts0
  <2> QED BY <1>2, <2>1 DEF Reads
<1>4. AnswerOK'
  BY <1>1, <1>3, Parts0 DEF AnswerOK, Doing, Reads
<1>5. HookChain'
  BY <1>1 DEF ShapeInv, HookChain
<1> QED BY <1>1, <1>2, <1>4, <1>5, Parts0, RingOK, SameMachineShape

LEMMA RunEndShape ==
  ASSUME ShapeInv, RunStop \/ RunClear
  PROVE  ShapeInv'
<1>1. UNCHANGED <<time, ram, dirty, inbox, answer, events, stopped, external,
                  todo, running, pc, regs, mirror, ring, own, timeouts, lost, unseen>>
  BY DEF RunStop, RunClear, wireVars, sourceVars, mirrorVars
<1>2. loop' \in {"emit", "none"} /\ HookChain'
  BY DEF RunStop, RunClear, RemoveHook, ShapeInv, HookChain
<1>3. OneAnswer' /\ AnswerOK'
  BY <1>1 DEF ShapeInv, OneAnswer, AnswerOK, Doing
<1> QED BY <1>1, <1>2, <1>3, Parts0, RingOK, SameMachineShape

(* The steps that send an event but leave the machine alone.               *)
LEMMA ReportShape ==
  ASSUME ShapeInv, RunReport \/ RunEmit
  PROVE  ShapeInv'
<1>1. UNCHANGED <<time, ram, hook, prevHook, inbox, answer, stopped, external,
                  todo, running, pc, regs, mirror, ring, own, timeouts, unseen>>
  BY DEF RunReport, RunEmit, sourceVars, mirrorVars
<1>2. /\ events' \in Seq(EventsBy(time)) /\ Len(events') \in 0 .. EventCap
      /\ lost' \in SUBSET Parts
  <2>1. CASE RunEmit
    BY <2>1, Parts0, EmitOK DEF RunEmit, EventsBy
  <2>2. CASE RunReport
    <3> DEFINE spans == Spans(dirty)
               e == [kind |-> "state", time |-> time, bytes |-> [a \in spans |-> ram[a]]]
    <3>1. spans \in SUBSET Addrs
      BY Parts0 DEF Spans
    <3>2. [a \in spans |-> ram[a]] \in [spans -> Values]
      BY <3>1, Parts0
    <3>3. [a \in spans |-> ram[a]] \in Bytes
      BY <3>1, <3>2 DEF Bytes
    <3>4. e \in EventsBy(time)
      BY <3>3, Parts0 DEF EventsBy, StateEvents
    <3>5. Emit(e)
      BY <2>2 DEF RunReport
    <3> HIDE DEF e
    <3> QED BY <3>4, <3>5, Parts0, EmitOK
  <2> QED BY <2>1, <2>2
<1>3. dirty' \in {dirty, Clean}
  <2>1. CASE RunEmit
    BY <2>1 DEF RunEmit
  <2>2. CASE RunReport
    <3>1. dirty' = [Clean EXCEPT !.bits = {}]
      BY <2>2, SpansAll DEF RunReport
    <3> QED BY <3>1 DEF Clean
  <2> QED BY <2>1, <2>2
<1>4. loop' \in {"run", "clear"} /\ loop # "none"
  BY DEF RunReport, RunEmit
<1>5. HookChain' /\ OneAnswer' /\ AnswerOK' /\ HostSeesEverything'
  BY <1>1, <1>4 DEF ShapeInv, HookChain, OneAnswer, AnswerOK, Doing,
                    HostSeesEverything
<1>6. /\ dirty' \in [bits : SUBSET Addrs, lo : Int, hi : Int]
      /\ dirty'.bits \in SUBSET (dirty'.lo .. dirty'.hi)
  BY <1>3, Parts0, EmptyClean
<1>7. QueuesOK'
  BY <1>1, <1>2, <1>6, Parts0 DEF QueuesOK
<1>8. TypeOK'
  BY <1>1, <1>2, <1>4, <1>5, <1>6, Parts0, RingOK, TypeFromParts
<1> QED BY <1>5, <1>7, <1>8 DEF ShapeInv

LEMMA DemuxShape == ASSUME ShapeInv, Demux PROVE ShapeInv'
<1>1. UNCHANGED <<time, ram, hook, prevHook, dirty, loop, inbox, answer, todo,
                  running, pc, regs, mirror, ring, own, timeouts, unseen>>
  BY DEF Demux, serverVars, mirrorVars
<1>2. Head(events) \in EventsBy(time) /\ Tail(events) \in Seq(EventsBy(time))
      /\ Len(Tail(events)) = Len(events) - 1 /\ Len(events) > 0
  BY Parts0 DEF Demux
<1>3. events' \in Seq(EventsBy(time)) /\ Len(events') \in 0 .. EventCap
  BY <1>2, Bounds, Parts0 DEF Demux
<1>4. external' \in Seq(EventsBy(time)) /\ Len(external') \in 0 .. ExternalCap
  <2>1. CASE Len(external) < ExternalCap
    <3>1. external' = Append(external, Head(events))
      BY <2>1 DEF Demux
    <3>2. external' \in Seq(EventsBy(time)) /\ Len(external') = Len(external) + 1
      BY <1>2, <3>1, Parts0
    <3> QED BY <2>1, <3>2, Bounds, Parts0
  <2>2. CASE ~(Len(external) < ExternalCap)
    BY <2>2, Parts0 DEF Demux
  <2> QED BY <2>1, <2>2
<1>5. stopped' \in 0 .. StoppedCap /\ stopped' \in Nat
  <2>1. stopped' = stopped \/ (stopped < StoppedCap /\ stopped' = stopped + 1)
    BY DEF Demux
  <2>2. StoppedCap \in Nat /\ stopped \in 0 .. StoppedCap
    BY Bounds, Parts0
  <2> QED BY <2>1, <2>2
<1>6. lost' \in SUBSET Parts
  BY Parts0 DEF Demux
<1>7. HookChain' /\ OneAnswer' /\ AnswerOK' /\ HostSeesEverything'
  BY <1>1 DEF ShapeInv, HookChain, OneAnswer, AnswerOK, Doing, HostSeesEverything
<1>8. QueuesOK'
  BY <1>1, <1>3, <1>4, <1>5, <1>6, Parts0 DEF QueuesOK
<1>9. TypeOK'
  BY <1>1, <1>3, <1>4, <1>5, <1>7, Parts0, RingOK, TypeFromParts
<1> QED BY <1>7, <1>8, <1>9 DEF ShapeInv

LEMMA KeyShape ==
  ASSUME ShapeInv, KeyStep \/ KeyRun \/ KeyUndo \/ KeyEdit PROVE ShapeInv'
<1>1. UNCHANGED <<time, ram, hook, prevHook, dirty, loop, inbox, answer, events,
                  stopped, external, timeouts, lost, unseen>>
  BY DEF KeyStep, KeyRun, KeyUndo, KeyEdit, serverVars, wireVars, sourceVars
<1>2. todo = <<>> /\ running' \in BOOLEAN
  BY Parts0 DEF KeyStep, KeyRun, KeyUndo, KeyEdit, Idle
<1>3. todo' \in Todos
  BY <1>2 DEF KeyStep, KeyRun, KeyUndo, KeyEdit, Refresh, Todos
<1>4. /\ pc' \in 0 .. time /\ regs' \in 0 .. time
      /\ mirror' \in [Addrs -> Values] /\ ring' \in Seq(Marks(time))
  <2>1. CASE KeyStep
    <3>1. [pc |-> pc, regs |-> regs] \in Marks(time)
      BY Parts0 DEF Marks
    <3>2. ring' \in Seq(Marks(time))
      <4> HIDE DEF Marks
      <4> QED BY <2>1, <3>1, RingOK DEF KeyStep
    <3> QED BY <2>1, <3>2, Parts0 DEF KeyStep
  <2>2. CASE KeyRun
    BY <2>2, Parts0, RingOK DEF KeyRun, mirrorVars
  <2>3. CASE KeyUndo
    <3>1. /\ ring # <<>> /\ ring' = SubSeq(ring, 1, Len(ring) - 1)
          /\ pc' = ring[Len(ring)].pc /\ regs' = ring[Len(ring)].regs
          /\ mirror' = mirror
      BY <2>3 DEF KeyUndo
    <3>2. ring \in Seq(Marks(time))
      BY RingOK
    <3>3. ring[Len(ring)] \in Marks(time) /\ ring' \in Seq(Marks(time))
      <4> HIDE DEF Marks
      <4> QED BY <3>1, <3>2
    <3> QED BY <3>1, <3>3, Parts0 DEF Marks
  <2>4. CASE KeyEdit
    BY <2>4, Parts0, RingOK DEF KeyEdit
  <2> QED BY <2>1, <2>2, <2>3, <2>4
<1>5. answer' = {}
  BY <1>1, <1>2, NoAnswer
<1>6. HookChain' /\ OneAnswer' /\ AnswerOK'
  BY <1>1, <1>5 DEF ShapeInv, HookChain, OneAnswer, AnswerOK
<1> QED BY <1>1, <1>2, <1>3, <1>4, <1>6, Parts0, SameMachineShape

LEMMA StopShape == ASSUME ShapeInv, StopArrived \/ StopTimeOut PROVE ShapeInv'
<1>1. UNCHANGED <<time, ram, hook, prevHook, dirty, loop, inbox, answer, events,
                  external, running, pc, regs, mirror, ring, own, lost, unseen>>
  BY DEF StopArrived, StopTimeOut, serverVars, wireVars, sourceVars, mirrorVars
<1>2. Doing({"waitForStop"})
  BY DEF StopArrived, StopTimeOut, Doing
<1>3. todo' \in Todos
  <2>1. <<>> \in Todos
    BY DEF Todos
  <2>2. Tail(todo) \in Todos
    BY <1>2, TodoCases, Parts0 DEF Doing
  <2> QED BY <2>1, <2>2 DEF StopArrived, StopTimeOut
<1>4. stopped' \in 0 .. StoppedCap /\ timeouts' \in 0 .. MaxTimeOuts
  <2>1. CASE StopArrived
    BY <2>1, Bounds, Parts0 DEF StopArrived
  <2>2. CASE StopTimeOut
    BY <2>2, Bounds, Parts0 DEF StopTimeOut, sourceVars
  <2> QED BY <2>1, <2>2
<1>5. answer' = {}
  BY <1>1, <1>2, NoAnswer
<1>6. HookChain' /\ OneAnswer' /\ AnswerOK'
  BY <1>1, <1>5 DEF ShapeInv, HookChain, OneAnswer, AnswerOK
<1> QED BY <1>1, <1>3, <1>4, <1>6, Parts0, RingOK, SameMachineShape

LEMMA TimeOutShape == ASSUME ShapeInv, TimeOut PROVE ShapeInv'
<1>1. UNCHANGED <<time, ram, hook, prevHook, dirty, loop, events, stopped,
                  external, pc, regs, mirror, ring, own, unseen>>
  BY DEF TimeOut, serverVars, sourceVars, mirrorVars
<1>2. /\ todo # <<>> /\ Head(todo) # "waitForStop" /\ answer' = {}
      /\ todo' = AfterFailure /\ lost' = lost \cup PartsUnread
  BY DEF TimeOut
<1>3. todo' \in Todos
  BY <1>2, TodoCases, Parts0 DEF AfterFailure, Todos
<1>4. lost' \in SUBSET Parts
  BY <1>2, Parts0 DEF PartsUnread, Parts
<1>5. inbox' \in Seq({"step", "continue", "pause"})
  <2>1. Head(todo) \notin Reads => Head(todo) \in {"step", "continue", "pause"}
    BY <1>2, TodoCases, Parts0 DEF Reads
  <2> QED BY <2>1, Parts0 DEF TimeOut
<1>6. timeouts' \in 0 .. MaxTimeOuts /\ running' \in BOOLEAN
  BY Bounds, Parts0 DEF TimeOut
<1>7. HookChain' /\ OneAnswer' /\ AnswerOK'
  BY <1>1, <1>2 DEF ShapeInv, HookChain, OneAnswer, AnswerOK
<1> QED BY <1>1, <1>3, <1>4, <1>5, <1>6, <1>7, Parts0, RingOK, SameMachineShape

LEMMA PumpShape == ASSUME ShapeInv, PumpState \/ PumpStopped PROVE ShapeInv'
<1>1. UNCHANGED <<time, ram, hook, prevHook, dirty, loop, inbox, answer, events,
                  stopped, regs, ring, timeouts, lost, unseen>>
  BY DEF PumpState, PumpStopped, serverVars, wireVars, mirrorVars
<1>2. todo = <<>> /\ external # <<>> /\ external' = Tail(external)
  BY DEF PumpState, PumpStopped
<1>3. /\ Head(external) \in EventsBy(time)
      /\ external' \in Seq(EventsBy(time)) /\ Len(external') = Len(external) - 1
      /\ Len(external) > 0
  BY <1>2, Parts0
<1>4. Len(external') \in 0 .. ExternalCap
  BY <1>3, Bounds, Parts0
<1>5. pc' \in 0 .. time /\ mirror' \in [Addrs -> Values]
  <2>1. CASE PumpStopped
    BY <2>1, Parts0 DEF PumpStopped, mirrorVars
  <2>2. CASE PumpState
    <3> DEFINE e == Head(external)
    <3>1. /\ e.time \in 0 .. time /\ \A a \in DOMAIN e.bytes : e.bytes[a] \in Values
      BY <1>3, <2>2, EventFields DEF PumpState
    <3>2. /\ pc' = e.time
          /\ mirror' = [a \in Addrs |-> IF a \in DOMAIN e.bytes THEN e.bytes[a]
                                        ELSE mirror[a]]
      BY <2>2 DEF PumpState
    <3> HIDE DEF e
    <3> QED BY <3>1, <3>2, Parts0
  <2> QED BY <2>1, <2>2
<1>6. todo' \in Todos /\ running' \in BOOLEAN
  BY <1>2, Parts0 DEF PumpState, PumpStopped, Refresh, Todos
<1>7. answer' = {}
  BY <1>1, <1>2, NoAnswer
<1>8. HookChain' /\ OneAnswer' /\ AnswerOK' /\ HostSeesEverything'
  BY <1>1, <1>7 DEF ShapeInv, HookChain, OneAnswer, AnswerOK, HostSeesEverything
<1>9. QueuesOK'
  BY <1>1, <1>3, <1>6, Parts0 DEF QueuesOK
<1>10. TypeOK'
  BY <1>1, <1>4, <1>5, <1>6, <1>8, Parts0, RingOK, TypeFromParts
<1> QED BY <1>8, <1>9, <1>10 DEF ShapeInv

(* The answer that Take takes. *)
LEMMA Taken ==
  ASSUME ShapeInv, Take
  PROVE  \E m \in answer :
           /\ pc' = IF m.cmd = "stackTrace" THEN m.time ELSE pc
           /\ regs' = IF m.cmd = "variables" THEN m.time ELSE regs
           /\ mirror' = IF m.cmd = "readMemory" THEN m.ram ELSE mirror
           /\ own' = own \ PartRead(m)
           /\ lost' = IF /\ events = <<>> /\ external = <<>> /\ loop = "none"
                         /\ UpToDate(m)
                      THEN lost \ PartRead(m) ELSE lost
           /\ todo # <<>> /\ m.cmd = Head(todo) /\ m.cmd # "waitForStop"
           /\ m.cmd \in Reads => /\ m.time \in 0 .. time
                                 /\ m.ram \in [Addrs -> Values]
                                 /\ m.time = time => m.ram = ram
  BY DEF Take, ShapeInv, AnswerOK, Doing

LEMMA TakeShape == ASSUME ShapeInv, Take PROVE ShapeInv'
<1>1. UNCHANGED <<time, ram, hook, prevHook, dirty, loop, inbox, events, stopped,
                  external, running, ring, timeouts, unseen>>
      /\ answer' = {} /\ todo' = Tail(todo)
  BY DEF Take, serverVars, sourceVars
<1>2. PICK m \in answer :
           /\ pc' = IF m.cmd = "stackTrace" THEN m.time ELSE pc
           /\ regs' = IF m.cmd = "variables" THEN m.time ELSE regs
           /\ mirror' = IF m.cmd = "readMemory" THEN m.ram ELSE mirror
           /\ own' = own \ PartRead(m)
           /\ lost' = IF /\ events = <<>> /\ external = <<>> /\ loop = "none"
                         /\ UpToDate(m)
                      THEN lost \ PartRead(m) ELSE lost
           /\ todo # <<>> /\ m.cmd = Head(todo) /\ m.cmd # "waitForStop"
           /\ m.cmd \in Reads => /\ m.time \in 0 .. time
                                 /\ m.ram \in [Addrs -> Values]
                                 /\ m.time = time => m.ram = ram
  BY Taken
<1>3. pc' \in 0 .. time /\ regs' \in 0 .. time /\ mirror' \in [Addrs -> Values]
  BY <1>2, Parts0 DEF Reads
<1>4. todo' \in Todos /\ lost' \in SUBSET Parts
  BY <1>1, <1>2, TodoCases, Parts0
<1>5. HookChain' /\ OneAnswer' /\ AnswerOK' /\ HostSeesEverything'
  BY <1>1 DEF ShapeInv, HookChain, OneAnswer, AnswerOK, HostSeesEverything
<1>6. QueuesOK'
  BY <1>1, <1>4, Parts0 DEF QueuesOK
<1>7. TypeOK'
  BY <1>1, <1>3, <1>5, Parts0, RingOK, TypeFromParts
<1> QED BY <1>5, <1>6, <1>7 DEF ShapeInv

LEMMA StutterShape == ASSUME ShapeInv, UNCHANGED vars PROVE ShapeInv'
<1>1. UNCHANGED <<time, ram, hook, prevHook, dirty, loop, inbox, answer, events,
                  stopped, external, todo, running, pc, regs, mirror, ring, own, timeouts,
                  lost, unseen>>
  BY DEF vars
<1>2. HookChain' /\ OneAnswer' /\ AnswerOK'
  BY <1>1 DEF ShapeInv, HookChain, OneAnswer, AnswerOK, Doing
<1> QED BY <1>1, <1>2, Parts0, RingOK, SameMachineShape

LEMMA NextShape == ShapeInv /\ [Next]_vars => ShapeInv'
<1> SUFFICES ASSUME ShapeInv, [Next]_vars PROVE ShapeInv'
  OBVIOUS
<1>1. CASE Server
  BY <1>1, HandleStepShape, RunIterateShape, ReplyShape, HandleReadShape,
     RunEndShape, ReportShape DEF Server
<1>2. CASE Demux
  BY <1>2, DemuxShape
<1>3. CASE Tui
  BY <1>3, KeyShape, StopShape, TimeOutShape, PumpShape, TakeShape DEF Tui
<1>4. CASE UNCHANGED vars
  BY <1>4, StutterShape
<1> QED BY <1>1, <1>2, <1>3, <1>4 DEF Next

-------------------------------------------------------------------------------
(* The events on the way. *)

LEMMA WayParts ==
  ASSUME ShapeInv
  PROVE  /\ external \in Seq(EventsBy(time)) /\ events \in Seq(EventsBy(time))
         /\ OnTheWay \in Seq(EventsBy(time))
         /\ Len(OnTheWay) = Len(external) + Len(events)
         /\ Len(OnTheWay) \in Nat
         /\ \A j \in 1 .. Len(external) : OnTheWay[j] = external[j]
         /\ \A j \in 1 .. Len(events) : OnTheWay[Len(external) + j] = events[j]
  BY Parts0 DEF OnTheWay

(* An event sent goes to the end. *)
LEMMA WayAppend ==
  ASSUME NEW S, NEW ext \in Seq(S), NEW evs \in Seq(S), NEW e
  PROVE  LET old == ext \o evs
             new == ext \o Append(evs, e)
         IN  /\ Len(old) \in Nat
             /\ Len(new) = Len(old) + 1
             /\ \A j \in 1 .. Len(old) : new[j] = old[j]
             /\ new[Len(old) + 1] = e
  OBVIOUS

(* The demultiplexer moves the oldest event from one queue to the other.   *)
LEMMA WayMove ==
  ASSUME NEW S, NEW ext \in Seq(S), NEW evs \in Seq(S), evs # <<>>
  PROVE  Append(ext, Head(evs)) \o Tail(evs) = ext \o evs
  OBVIOUS

(* The TUI takes the oldest. *)
LEMMA WayTail ==
  ASSUME NEW S, NEW ext \in Seq(S), NEW evs \in Seq(S), ext # <<>>
  PROVE  LET old == ext \o evs
             new == Tail(ext) \o evs
         IN  /\ Len(new) \in Nat
             /\ Len(old) = Len(new) + 1
             /\ old[1] = Head(ext)
             /\ \A j \in 1 .. Len(new) : new[j] = old[j + 1]
  OBVIOUS

-------------------------------------------------------------------------------
(* The mirror follows at the start, and every step keeps that. *)

LEMMA InitFollow == Init => FollowInv
<1> SUFFICES ASSUME Init PROVE FollowInv
  OBVIOUS
<1>1. Len(OnTheWay) = 0
  BY DEF Init, OnTheWay
<1> QED
  BY <1>1 DEF Init, FollowInv, PcFollows, RegsFollow, MemoryFollows, EventsFollow,
              AnswerFollows

(* With everything given up for lost there is nothing to follow.           *)
LEMMA AllLost ==
  ASSUME lost' = Parts
  PROVE  FollowInv'
<1>1. \A i : /\ PartComing("pc", i)' /\ PartComing("regs", i)'
            /\ \A a : ByteComing(a, i)'
  BY DEF PartComing, ByteComing, Parts
<1> QED
  BY <1>1 DEF FollowInv, PcFollows, RegsFollow, MemoryFollows, EventsFollow,
              AnswerFollows

(* Behind a stop everything is read again. *)
LEMMA StopSent ==
  ASSUME ShapeInv, UNCHANGED external, Emit(Stopped)
  PROVE  FollowInv'
<1>1. CASE lost' = Parts
  BY <1>1, AllLost
<1>2. CASE events' = Append(events, Stopped)
  <2>1. /\ Len(OnTheWay) \in Nat
        /\ Len(OnTheWay') = Len(OnTheWay) + 1
        /\ OnTheWay'[Len(OnTheWay')] = Stopped
    BY <1>2, WayAppend, WayParts DEF OnTheWay
  <2>2. \A i \in 0 .. Len(OnTheWay) : StopAfter(i)'
    BY <2>1 DEF StopAfter
  <2>3. \A i \in 0 .. Len(OnTheWay) :
          /\ \A p : PartComing(p, i)' /\ \A a : ByteComing(a, i)'
    BY <2>2 DEF PartComing, ByteComing
  <2>4. 0 \in 0 .. Len(OnTheWay)
    BY <2>1
  <2>5. ASSUME NEW i \in 1 .. Len(OnTheWay'), OnTheWay'[i] # Stopped
        PROVE  i \in 0 .. Len(OnTheWay)
    BY <2>1, <2>5
  <2>6. EventsFollow'
    BY <2>3, <2>5 DEF EventsFollow
  <2> QED
    BY <2>3, <2>4, <2>6 DEF FollowInv, PcFollows, RegsFollow, MemoryFollows,
                            AnswerFollows
<1> QED BY <1>1, <1>2 DEF Emit

(* What is coming stays so while nothing is taken from what is on the way. *)
LEMMA ComingStays ==
  ASSUME UNCHANGED <<events, external>>, lost \subseteq lost',
         loop \in {"run", "emit"} => loop' \in {"run", "emit"},
         loop = "emit" => loop' = "emit",
         loop = "run" /\ loop' = "run" => UNCHANGED dirty,
         NEW i
  PROVE  /\ \A p : PartComing(p, i) => PartComing(p, i)'
         /\ \A a : ByteComing(a, i) => ByteComing(a, i)'
<1>1. OnTheWay' = OnTheWay
  BY DEF OnTheWay
<1>2. StopAfter(i) => StopAfter(i)'
  BY <1>1 DEF StopAfter
<1>3. \A a : ByteAfter(i, a) => ByteAfter(i, a)'
  BY <1>1 DEF ByteAfter
<1>4. \A a : InFlush(a) => InFlush(a)' \/ loop' = "emit"
  BY DEF InFlush
<1> QED BY <1>2, <1>3, <1>4 DEF PartComing, ByteComing

(* The steps that leave the machine, the mirror and the events alone.      *)
LEMMA SameMachineFollow ==
  ASSUME FollowInv,
         UNCHANGED <<time, ram, events, external, pc, regs, mirror, own>>,
         lost \subseteq lost',
         loop \in {"run", "emit"} => loop' \in {"run", "emit"},
         loop = "emit" => loop' = "emit",
         loop = "run" /\ loop' = "run" => UNCHANGED dirty,
         Doing({"stackTrace"}) => Doing({"stackTrace"})' \/ "pc" \in lost',
         Doing({"stackTrace", "variables"}) =>
           Doing({"stackTrace", "variables"})' \/ "regs" \in lost',
         Doing(Reads) => Doing(Reads)' \/ "memory" \in lost',
         \A m \in answer' : m \notin answer /\ m.cmd \in Reads =>
           m.time = time /\ m.ram = ram
  PROVE  FollowInv'
<1>1. \A i : /\ \A p : PartComing(p, i) => PartComing(p, i)'
            /\ \A a : ByteComing(a, i) => ByteComing(a, i)'
  BY ComingStays
<1>2. PcFollows'
  BY <1>1 DEF FollowInv, PcFollows, PartComing
<1>3. RegsFollow'
  BY <1>1 DEF FollowInv, RegsFollow, PartComing
<1>4. MemoryFollows'
  BY <1>1 DEF FollowInv, MemoryFollows, ByteComing
<1>5. OnTheWay' = OnTheWay
  BY DEF OnTheWay
<1>6. EventsFollow'
  BY <1>1, <1>5 DEF FollowInv, EventsFollow
<1>7. AnswerFollows'
  <2> SUFFICES ASSUME NEW m \in answer', m.cmd \in Reads
               PROVE  /\ \A p \in {"pc", "regs"} : m.time = time' \/ PartComing(p, 0)'
                      /\ \A a \in Addrs : m.ram[a] = ram'[a] \/ ByteComing(a, 0)'
    BY DEF AnswerFollows
  <2>1. CASE m \in answer
    BY <1>1, <2>1 DEF FollowInv, AnswerFollows
  <2>2. CASE m \notin answer
    BY <2>2
  <2> QED BY <2>1, <2>2
<1> QED BY <1>2, <1>3, <1>4, <1>6, <1>7 DEF FollowInv

LEMMA ReplyFollow ==
  ASSUME ShapeInv, FollowInv, HandleContinue \/ HandlePause
  PROVE  FollowInv'
<1>1. PICK c \in {"continue", "pause"} : Asked({c}) /\ Answered([cmd |-> c])
  BY DEF HandleContinue, HandlePause
<1>2. UNCHANGED <<time, ram, events, external, todo, pc, regs, mirror, ring, own, lost>>
  BY DEF HandleContinue, HandlePause, sourceVars, mirrorVars
<1>3. answer' = answer \/ answer' = {[cmd |-> c]}
  BY <1>1, AnsweredOK
<1>4. \A m \in answer' : m \notin answer => m.cmd \notin Reads
  BY <1>3 DEF Reads
<1>5. /\ loop # "none" => loop' = loop /\ dirty' = dirty
      /\ \A cmds : Doing(cmds)' = Doing(cmds)
  BY <1>2 DEF HandleContinue, HandlePause, Doing
<1> QED BY <1>2, <1>4, <1>5, SameMachineFollow

LEMMA HandleReadFollow ==
  ASSUME ShapeInv, FollowInv, HandleRead
  PROVE  FollowInv'
<1> DEFINE m == [cmd |-> Head(todo), time |-> time, ram |-> ram]
<1>1. UNCHANGED <<time, ram, dirty, loop, events, external, todo, pc, regs,
                  mirror, ring, own, lost>>
  BY DEF HandleRead, serverVars, sourceVars, mirrorVars
<1>2. answer' = answer \/ answer' = {m}
  BY AnsweredOK DEF HandleRead
<1>3. \A n \in answer' : n \notin answer => n.time = time /\ n.ram = ram
  BY <1>2
<1>4. \A cmds : Doing(cmds)' = Doing(cmds)
  BY <1>1 DEF Doing
<1> QED BY <1>1, <1>3, <1>4, SameMachineFollow

LEMMA RunEndFollow ==
  ASSUME ShapeInv, FollowInv, RunStop \/ RunClear
  PROVE  FollowInv'
<1>1. UNCHANGED <<time, ram, dirty, answer, events, external, todo, pc, regs,
                  mirror, ring, own, lost>>
  BY DEF RunStop, RunClear, wireVars, sourceVars, mirrorVars
<1>2. \/ loop = "run" /\ loop' = "emit"
      \/ loop = "clear" /\ loop' = "none"
  BY DEF RunStop, RunClear
<1>3. \A cmds : Doing(cmds)' = Doing(cmds)
  BY <1>1 DEF Doing
<1> QED BY <1>1, <1>2, <1>3, SameMachineFollow

LEMMA KeyFollow ==
  ASSUME ShapeInv, FollowInv, KeyStep \/ KeyRun
  PROVE  FollowInv'
<1>1. UNCHANGED <<time, ram, dirty, loop, answer, events, external, pc, regs,
                  mirror, own, lost>>
  BY DEF KeyStep, KeyRun, serverVars, wireVars, sourceVars, mirrorVars
<1>2. todo = <<>>
  BY DEF KeyStep, KeyRun, Idle
<1>3. \A cmds : ~Doing(cmds)
  BY <1>2 DEF Doing
<1> QED BY <1>1, <1>3, SameMachineFollow

(* The user's own writes to the mirror: what they leave is his. *)
LEMMA OwnFollow ==
  ASSUME ShapeInv, FollowInv, KeyUndo \/ KeyEdit
  PROVE  FollowInv'
<1>1. UNCHANGED <<time, ram, dirty, loop, answer, events, external, todo, lost>>
  BY DEF KeyUndo, KeyEdit, serverVars, wireVars, sourceVars
<1>2. /\ pc' = pc \/ "pc" \in own'
      /\ regs' = regs \/ "regs" \in own'
      /\ mirror' = mirror \/ "memory" \in own'
      /\ own \subseteq own'
  BY DEF KeyUndo, KeyEdit
<1>3. \A i : /\ \A p : PartComing(p, i) => PartComing(p, i)'
            /\ \A a : ByteComing(a, i) => ByteComing(a, i)'
  BY <1>1, ComingStays
<1>4. ~Doing({"stackTrace"}) /\ ~Doing({"stackTrace", "variables"}) /\ ~Doing(Reads)
  BY DEF KeyUndo, KeyEdit, Idle, Doing
<1>5. PcFollows' /\ RegsFollow' /\ MemoryFollows'
  BY <1>1, <1>2, <1>3, <1>4 DEF FollowInv, PcFollows, RegsFollow, MemoryFollows
<1>6. OnTheWay' = OnTheWay
  BY <1>1 DEF OnTheWay
<1>7. EventsFollow'
  BY <1>1, <1>3, <1>6 DEF FollowInv, EventsFollow
<1>8. AnswerFollows'
  BY <1>1, <1>3 DEF FollowInv, AnswerFollows
<1> QED BY <1>5, <1>7, <1>8 DEF FollowInv

LEMMA StopFollow ==
  ASSUME ShapeInv, FollowInv, StopArrived \/ StopTimeOut
  PROVE  FollowInv'
<1>1. UNCHANGED <<time, ram, dirty, loop, answer, events, external, pc, regs,
                  mirror, ring, own, lost>>
  BY DEF StopArrived, StopTimeOut, serverVars, wireVars, sourceVars, mirrorVars
<1>2. /\ ~Doing({"stackTrace"}) /\ ~Doing({"stackTrace", "variables"})
      /\ ~Doing(Reads)
  BY DEF StopArrived, StopTimeOut, Doing, Reads
<1> QED BY <1>1, <1>2, SameMachineFollow

LEMMA TimeOutFollow ==
  ASSUME ShapeInv, FollowInv, TimeOut
  PROVE  FollowInv'
<1>1. UNCHANGED <<time, ram, dirty, loop, events, external, pc, regs, mirror, ring, own>>
  BY DEF TimeOut, serverVars, sourceVars, mirrorVars
<1>2. /\ todo # <<>> /\ answer' = {} /\ todo' = AfterFailure
      /\ lost' = lost \cup PartsUnread
  BY DEF TimeOut
<1>3. Doing({"stackTrace"}) => "pc" \in lost' /\ "regs" \in lost' /\ Doing(Reads)'
  <2> SUFFICES ASSUME Head(todo) = "stackTrace"
               PROVE  "pc" \in lost' /\ "regs" \in lost' /\ Doing(Reads)'
    BY DEF Doing
  <2>1. todo' = <<"readMemory">> /\ lost' = lost \cup {"pc", "regs"}
    BY <1>2 DEF AfterFailure, PartsUnread
  <2> QED BY <2>1 DEF Doing, Reads
<1>4. Doing({"variables"}) => "regs" \in lost' /\ Doing(Reads)'
  <2> SUFFICES ASSUME Head(todo) = "variables"
               PROVE  "regs" \in lost' /\ Doing(Reads)'
    BY DEF Doing
  <2>1. todo' = Tail(todo) /\ lost' = lost \cup {"regs"}
    BY <1>2 DEF AfterFailure, PartsUnread
  <2>2. Tail(todo) # <<>> /\ Head(Tail(todo)) = "readMemory"
    BY <1>2, TodoCases, Parts0
  <2> QED BY <2>1, <2>2 DEF Doing, Reads
<1>5. Doing({"readMemory"}) => "memory" \in lost'
  BY <1>2 DEF Doing, PartsUnread
<1>6. /\ Doing({"stackTrace", "variables"}) <=>
           Doing({"stackTrace"}) \/ Doing({"variables"})
      /\ Doing(Reads) <=> \/ Doing({"stackTrace"}) \/ Doing({"variables"})
                          \/ Doing({"readMemory"})
  BY DEF Doing, Reads
<1>7. lost \subseteq lost'
  BY <1>2
<1> QED BY <1>1, <1>2, <1>3, <1>4, <1>5, <1>6, <1>7, SameMachineFollow

LEMMA HandleStepFollow ==
  ASSUME ShapeInv, FollowInv, HandleStep
  PROVE  FollowInv'
<1>1. CASE loop = "none"
  BY <1>1, StopSent DEF HandleStep, sourceVars
<1>2. CASE loop # "none"
  <2>1. UNCHANGED <<time, ram, dirty, loop, events, external, todo, pc, regs,
                    mirror, ring, own, lost>>
    BY <1>2 DEF HandleStep, sourceVars, mirrorVars
  <2>2. answer' = answer \/ answer' = {[cmd |-> "step"]}
    BY AnsweredOK DEF HandleStep
  <2>3. \A m \in answer' : m \notin answer => m.cmd \notin Reads
    BY <2>2 DEF Reads
  <2>4. \A cmds : Doing(cmds)' = Doing(cmds)
    BY <2>1 DEF Doing
  <2> QED BY <2>1, <2>3, <2>4, SameMachineFollow
<1> QED BY <1>1, <1>2

LEMMA RunEmitFollow ==
  ASSUME ShapeInv, FollowInv, RunEmit
  PROVE  FollowInv'
  BY StopSent DEF RunEmit, sourceVars

(* A byte the run writes is marked, between the bounds.                    *)
LEMMA RunIterateFollow ==
  ASSUME ShapeInv, FollowInv, RunIterate
  PROVE  FollowInv'
<1>1. /\ loop = "run" /\ Execute
      /\ UNCHANGED <<loop, answer, events, external, todo, pc, regs, mirror, ring, own, lost>>
  BY DEF RunIterate, wireVars, sourceVars, mirrorVars
<1>2. \A p, i : PartComing(p, i)'
  BY <1>1 DEF PartComing
<1>3. ASSUME NEW a \in Addrs
      PROVE  InFlush(a)' \/ (ram'[a] = ram[a] /\ (InFlush(a) => InFlush(a)'))
  <2>1. CASE UNCHANGED <<ram, dirty, unseen>>
    BY <1>1, <2>1 DEF InFlush
  <2>2. ASSUME NEW b \in Addrs, NEW v \in Values,
               ram' = [ram EXCEPT ![b] = v],
               dirty' = IF Hooked("dirty") THEN Marked(b) ELSE dirty
        PROVE  InFlush(a)' \/ (ram'[a] = ram[a] /\ (InFlush(a) => InFlush(a)'))
    <3>1. dirty' = Marked(b)
      BY <1>1, <2>2, HookMembers DEF ShapeInv
    <3>2. /\ dirty'.bits = dirty.bits \cup {b}
          /\ dirty'.lo <= dirty.lo /\ dirty'.lo <= b
          /\ dirty'.hi >= dirty.hi /\ dirty'.hi >= b
          /\ dirty'.lo \in Int /\ dirty'.hi \in Int
          /\ dirty.lo \in Int /\ dirty.hi \in Int /\ a \in Int
      <4>1. /\ Marked(b) \in [bits : SUBSET Addrs, lo : Int, hi : Int]
            /\ Marked(b).bits = dirty.bits \cup {b}
            /\ Marked(b).lo <= dirty.lo /\ Marked(b).lo <= b
            /\ Marked(b).hi >= dirty.hi /\ Marked(b).hi >= b
        BY MarkedOK
      <4>2. dirty.lo \in Int /\ dirty.hi \in Int
        BY Parts0
      <4>3. a \in Int
        BY Bounds DEF Addrs
      <4> QED BY <3>1, <4>1, <4>2, <4>3
    <3>3. CASE a = b
      BY <1>1, <3>2, <3>3 DEF InFlush
    <3>4. CASE a # b
      <4>1. ram'[a] = ram[a]
        BY <2>2, <3>4, Parts0
      <4> QED BY <1>1, <3>2, <4>1 DEF InFlush
    <3> QED BY <3>3, <3>4
  <2> QED BY <1>1, <2>1, <2>2 DEF Execute
<1>4. OnTheWay' = OnTheWay
  BY <1>1 DEF OnTheWay
<1>5. ASSUME NEW i, NEW a \in Addrs
      PROVE  ByteComing(a, i)' \/ (ram'[a] = ram[a] /\ (ByteComing(a, i) => ByteComing(a, i)'))
  <2>1. StopAfter(i)' = StopAfter(i)
    BY <1>4 DEF StopAfter
  <2>2. ByteAfter(i, a)' = ByteAfter(i, a)
    BY <1>4 DEF ByteAfter
  <2> QED BY <1>1, <1>3, <2>1, <2>2 DEF ByteComing
<1>6. PcFollows' /\ RegsFollow'
  BY <1>2 DEF PcFollows, RegsFollow
<1>7. MemoryFollows'
  <2>1. Doing(Reads)' = Doing(Reads)
    BY <1>1 DEF Doing
  <2> QED BY <1>1, <1>5, <2>1 DEF FollowInv, MemoryFollows
<1>8. EventsFollow'
  <2> SUFFICES ASSUME NEW i \in 1 .. Len(OnTheWay), OnTheWay[i] # Stopped,
                      NEW a \in DOMAIN OnTheWay[i].bytes
               PROVE  OnTheWay[i].bytes[a] = ram'[a] \/ ByteComing(a, i)'
    BY <1>2, <1>4 DEF EventsFollow
  <2>1. a \in Addrs
    <3>1. OnTheWay[i] \in EventsBy(time)
      BY WayParts
    <3> QED BY <3>1, EventFields
  <2>2. OnTheWay[i].bytes[a] = ram[a] \/ ByteComing(a, i)
    BY DEF FollowInv, EventsFollow
  <2> QED BY <1>5, <2>1, <2>2
<1>9. AnswerFollows'
  BY <1>1, <1>2, <1>5 DEF FollowInv, AnswerFollows
<1> QED BY <1>6, <1>7, <1>8, <1>9 DEF FollowInv

(* A report carries all that is marked, as it is now.                      *)
LEMMA RunReportFollow ==
  ASSUME ShapeInv, FollowInv, RunReport
  PROVE  FollowInv'
<1> DEFINE spans == Spans(dirty)
           e == [kind |-> "state", time |-> time, bytes |-> [a \in spans |-> ram[a]]]
<1>1. /\ loop = "run" /\ Emit(e)
      /\ UNCHANGED <<time, ram, loop, answer, external, todo, pc, regs, mirror, ring, own>>
  BY DEF RunReport, sourceVars, mirrorVars
<1>2. CASE lost' = Parts
  BY <1>2, AllLost
<1>3. CASE events' = Append(events, e) /\ lost' = lost
  <2>1. e # Stopped /\ e.time = time /\ DOMAIN e.bytes = spans
        /\ \A a \in spans : e.bytes[a] = ram[a]
    BY DEF Stopped
  <2> HIDE DEF e
  <2>2. /\ Len(OnTheWay) \in Nat
        /\ Len(OnTheWay') = Len(OnTheWay) + 1
        /\ \A j \in 1 .. Len(OnTheWay) : OnTheWay'[j] = OnTheWay[j]
        /\ OnTheWay'[Len(OnTheWay) + 1] = e
    BY <1>1, <1>3, WayAppend, WayParts DEF OnTheWay
  <2>3. \A p, i : PartComing(p, i)'
    BY <1>1 DEF PartComing
  <2>4. ASSUME NEW i \in 0 .. Len(OnTheWay), NEW a, ByteComing(a, i)
        PROVE  ByteComing(a, i)'
    <3>1. StopAfter(i) => StopAfter(i)'
      BY <2>2 DEF StopAfter
    <3>2. ByteAfter(i, a) => ByteAfter(i, a)'
      BY <2>2 DEF ByteAfter
    <3>3. InFlush(a) => ByteAfter(i, a)'
      <4>1. InFlush(a) => a \in spans
        BY DEF InFlush, Spans
      <4> HIDE DEF spans
      <4>2. Len(OnTheWay) + 1 \in 1 .. Len(OnTheWay') /\ i < Len(OnTheWay) + 1
        BY <2>2
      <4> QED BY <2>1, <2>2, <4>1, <4>2 DEF ByteAfter
    <3> QED BY <1>1, <1>3, <2>4, <3>1, <3>2, <3>3 DEF ByteComing
  <2>5. 0 \in 0 .. Len(OnTheWay)
    BY <2>2
  <2>6. MemoryFollows'
    <3>1. Doing(Reads)' = Doing(Reads)
      BY <1>1 DEF Doing
    <3> QED BY <1>1, <2>4, <2>5, <3>1 DEF FollowInv, MemoryFollows
  <2>7. EventsFollow'
    <3> SUFFICES ASSUME NEW i \in 1 .. Len(OnTheWay'), OnTheWay'[i] # Stopped,
                        NEW a \in DOMAIN OnTheWay'[i].bytes
                 PROVE  OnTheWay'[i].bytes[a] = ram'[a] \/ ByteComing(a, i)'
      BY <2>3 DEF EventsFollow
    <3>1. CASE i = Len(OnTheWay) + 1
      BY <1>1, <2>1, <2>2, <3>1
    <3>2. CASE i # Len(OnTheWay) + 1
      <4>1. i \in 1 .. Len(OnTheWay) /\ i \in 0 .. Len(OnTheWay)
            /\ OnTheWay'[i] = OnTheWay[i]
        BY <2>2, <3>2
      <4>2. OnTheWay[i].bytes[a] = ram[a] \/ ByteComing(a, i)
        BY <4>1 DEF FollowInv, EventsFollow
      <4> QED BY <1>1, <2>4, <4>1, <4>2
    <3> QED BY <3>1, <3>2
  <2>8. PcFollows' /\ RegsFollow'
    BY <2>3 DEF PcFollows, RegsFollow
  <2>9. AnswerFollows'
    BY <1>1, <2>3, <2>4, <2>5 DEF FollowInv, AnswerFollows
  <2> QED BY <2>6, <2>7, <2>8, <2>9 DEF FollowInv
<1> QED BY <1>1, <1>2, <1>3 DEF Emit

LEMMA DemuxFollow ==
  ASSUME ShapeInv, FollowInv, Demux
  PROVE  FollowInv'
<1>1. UNCHANGED <<time, ram, dirty, loop, answer, todo, pc, regs, mirror, ring, own>>
  BY DEF Demux, serverVars, mirrorVars
<1>2. CASE Len(external) = ExternalCap
  BY <1>2, AllLost DEF Demux
<1>3. CASE Len(external) # ExternalCap
  <2>1. external' = Append(external, Head(events)) /\ events' = Tail(events)
        /\ lost' = lost /\ events # <<>>
    BY <1>3, Parts0, Bounds DEF Demux
  <2>2. OnTheWay' = OnTheWay
    BY <2>1, Parts0, WayMove DEF OnTheWay
  <2>3. /\ \A i : StopAfter(i)' = StopAfter(i)
        /\ \A i, a : ByteAfter(i, a)' = ByteAfter(i, a)
    BY <2>2 DEF StopAfter, ByteAfter
  <2>4. \A a : InFlush(a)' = InFlush(a)
    BY <1>1 DEF InFlush
  <2>5. /\ \A p, i : PartComing(p, i)' = PartComing(p, i)
        /\ \A a, i : ByteComing(a, i)' = ByteComing(a, i)
    BY <1>1, <2>1, <2>3, <2>4 DEF PartComing, ByteComing
  <2>6. \A cmds : Doing(cmds)' = Doing(cmds)
    BY <1>1 DEF Doing
  <2> QED
    BY <1>1, <2>2, <2>5, <2>6 DEF FollowInv, PcFollows, RegsFollow, MemoryFollows,
                                  EventsFollow, AnswerFollows
<1> QED BY <1>2, <1>3

(* The TUI takes the oldest event: what was behind it is behind the mirror. *)
LEMMA PumpWay ==
  ASSUME ShapeInv, external # <<>>, external' = Tail(external),
         UNCHANGED <<events, lost, loop, dirty>>
  PROVE  /\ Len(OnTheWay) >= 1 /\ OnTheWay[1] = Head(external)
         /\ \A i \in 1 .. Len(OnTheWay') :
              i + 1 \in 1 .. Len(OnTheWay) /\ OnTheWay'[i] = OnTheWay[i + 1]
         /\ \A i \in 0 .. Len(OnTheWay') :
              /\ \A p : PartComing(p, i + 1) => PartComing(p, i)'
              /\ \A a : ByteComing(a, i + 1) => ByteComing(a, i)'
         /\ OnTheWay[1] # Stopped =>
              /\ \A p : PartComing(p, 0) => PartComing(p, 0)'
              /\ \A a : a \notin DOMAIN OnTheWay[1].bytes =>
                   (ByteComing(a, 0) => ByteComing(a, 0)')
<1>1. /\ Len(OnTheWay') \in Nat
      /\ Len(OnTheWay) = Len(OnTheWay') + 1
      /\ OnTheWay[1] = Head(external)
      /\ \A j \in 1 .. Len(OnTheWay') : OnTheWay'[j] = OnTheWay[j + 1]
  BY WayParts, WayTail DEF OnTheWay
<1>2. \A a : InFlush(a)' = InFlush(a)
  BY DEF InFlush
<1>3. ASSUME NEW j \in 1 .. Len(OnTheWay), j # 1
      PROVE  j - 1 \in 1 .. Len(OnTheWay') /\ OnTheWay'[j - 1] = OnTheWay[j]
  BY <1>1, <1>3
<1>4. ASSUME NEW i \in 0 .. Len(OnTheWay')
      PROVE  /\ StopAfter(i + 1) => StopAfter(i)'
             /\ \A a : ByteAfter(i + 1, a) => ByteAfter(i, a)'
  <2>1. ASSUME NEW j \in 1 .. Len(OnTheWay), i + 1 < j
        PROVE  /\ j - 1 \in 1 .. Len(OnTheWay') /\ i < j - 1
               /\ OnTheWay'[j - 1] = OnTheWay[j]
    BY <1>1, <1>3, <2>1
  <2>2. StopAfter(i + 1) => StopAfter(i)'
    BY <2>1 DEF StopAfter
  <2>3. \A a : ByteAfter(i + 1, a) => ByteAfter(i, a)'
    BY <2>1 DEF ByteAfter
  <2> QED BY <2>2, <2>3
<1>5. ASSUME OnTheWay[1] # Stopped
      PROVE  /\ StopAfter(0) => StopAfter(0)'
             /\ \A a : a \notin DOMAIN OnTheWay[1].bytes =>
                  (ByteAfter(0, a) => ByteAfter(0, a)')
  <2>1. ASSUME NEW j \in 1 .. Len(OnTheWay), j # 1
        PROVE  /\ j - 1 \in 1 .. Len(OnTheWay') /\ 0 < j - 1
               /\ OnTheWay'[j - 1] = OnTheWay[j]
    BY <1>1, <1>3, <2>1
  <2>2. StopAfter(0) => StopAfter(0)'
    BY <1>5, <2>1 DEF StopAfter
  <2>3. ASSUME NEW a, a \notin DOMAIN OnTheWay[1].bytes, ByteAfter(0, a)
        PROVE  ByteAfter(0, a)'
    BY <2>1, <2>3 DEF ByteAfter
  <2> QED BY <2>2, <2>3
<1>6. \A i \in 1 .. Len(OnTheWay') : i + 1 \in 1 .. Len(OnTheWay)
  BY <1>1
<1> QED BY <1>1, <1>2, <1>4, <1>5, <1>6 DEF PartComing, ByteComing

LEMMA PumpFollow ==
  ASSUME ShapeInv, FollowInv, PumpState \/ PumpStopped
  PROVE  FollowInv'
<1>1. /\ UNCHANGED <<time, ram, dirty, loop, answer, events, regs, lost>>
      /\ todo = <<>> /\ external # <<>> /\ external' = Tail(external)
  BY DEF PumpState, PumpStopped, serverVars, wireVars, mirrorVars
<1> DEFINE e == OnTheWay[1]
<1>2. /\ Len(OnTheWay) >= 1 /\ e = Head(external)
      /\ \A i \in 1 .. Len(OnTheWay') :
           i + 1 \in 1 .. Len(OnTheWay) /\ OnTheWay'[i] = OnTheWay[i + 1]
      /\ \A i \in 0 .. Len(OnTheWay') :
           /\ \A p : PartComing(p, i + 1) => PartComing(p, i)'
           /\ \A a : ByteComing(a, i + 1) => ByteComing(a, i)'
      /\ e # Stopped =>
           /\ \A p : PartComing(p, 0) => PartComing(p, 0)'
           /\ \A a : a \notin DOMAIN e.bytes => (ByteComing(a, 0) => ByteComing(a, 0)')
  BY <1>1, PumpWay
<1>3. Len(OnTheWay') \in Nat /\ Len(OnTheWay) \in Nat /\ e \in EventsBy(time)
  <2>1. Len(OnTheWay') \in Nat
    BY <1>1, WayParts, WayTail DEF OnTheWay
  <2> QED BY <1>2, <2>1, WayParts
<1>4. EventsFollow'
  <2> SUFFICES ASSUME NEW i \in 1 .. Len(OnTheWay'), OnTheWay'[i] # Stopped
               PROVE  /\ OnTheWay'[i].time = time' \/ PartComing("pc", i)'
                      /\ \A a \in DOMAIN OnTheWay'[i].bytes :
                           OnTheWay'[i].bytes[a] = ram'[a] \/ ByteComing(a, i)'
    BY DEF EventsFollow
  <2>1. i + 1 \in 1 .. Len(OnTheWay) /\ OnTheWay'[i] = OnTheWay[i + 1]
        /\ i \in 0 .. Len(OnTheWay')
    BY <1>2, <1>3
  <2>2. /\ OnTheWay[i + 1].time = time \/ PartComing("pc", i + 1)
        /\ \A a \in DOMAIN OnTheWay[i + 1].bytes :
             OnTheWay[i + 1].bytes[a] = ram[a] \/ ByteComing(a, i + 1)
    BY <2>1 DEF FollowInv, EventsFollow
  <2> QED BY <1>1, <1>2, <2>1, <2>2
<1>5. AnswerFollows'
  BY <1>1, NoAnswer DEF AnswerFollows
<1>6. CASE PumpStopped
  <2>1. todo' = <<"stackTrace", "variables", "readMemory">>
    BY <1>6 DEF PumpStopped, Refresh
  <2>2. Doing({"stackTrace"})' /\ Doing({"stackTrace", "variables"})' /\ Doing(Reads)'
    BY <2>1 DEF Doing, Reads
  <2> QED BY <1>4, <1>5, <2>2 DEF FollowInv, PcFollows, RegsFollow, MemoryFollows
<1>7. CASE PumpState
  <2>1. /\ e # Stopped /\ pc' = e.time /\ own' = own \ {"pc"}
        /\ mirror' = [a \in Addrs |-> IF a \in DOMAIN e.bytes THEN e.bytes[a]
                                      ELSE mirror[a]]
    BY <1>2, <1>7 DEF PumpState
  <2>2. /\ e.time = time \/ PartComing("pc", 1)
        /\ \A a \in DOMAIN e.bytes : e.bytes[a] = ram[a] \/ ByteComing(a, 1)
    <3>1. 1 \in 1 .. Len(OnTheWay)
      BY <1>2, <1>3
    <3> QED BY <2>1, <3>1 DEF FollowInv, EventsFollow
  <2>3. ~Doing({"stackTrace"}) /\ ~Doing({"stackTrace", "variables"}) /\ ~Doing(Reads)
    BY <1>1 DEF Doing
  <2>4. /\ \A p : PartComing(p, 1) => PartComing(p, 0)'
        /\ \A a : ByteComing(a, 1) => ByteComing(a, 0)'
    <3>1. 0 \in 0 .. Len(OnTheWay') /\ 0 + 1 = 1
      BY <1>3
    <3> QED BY <1>2, <3>1
  <2> HIDE DEF e
  <2>5. PcFollows' /\ RegsFollow'
    BY <1>1, <1>2, <2>1, <2>2, <2>3, <2>4 DEF FollowInv, PcFollows, RegsFollow
  <2>6. MemoryFollows'
    <3> SUFFICES ASSUME NEW a \in Addrs
                 PROVE  mirror'[a] = ram'[a] \/ "memory" \in own' \/ ByteComing(a, 0)'
      BY DEF MemoryFollows
    <3>1. CASE a \in DOMAIN e.bytes
      BY <1>1, <2>1, <2>2, <2>4, <3>1
    <3>2. CASE a \notin DOMAIN e.bytes
      <4>1. mirror[a] = ram[a] \/ "memory" \in own' \/ ByteComing(a, 0)
        BY <2>1, <2>3 DEF FollowInv, MemoryFollows
      <4> QED BY <1>1, <1>2, <2>1, <3>2, <4>1
    <3> QED BY <3>1, <3>2
  <2> QED BY <1>4, <1>5, <2>5, <2>6 DEF FollowInv
<1> QED BY <1>6, <1>7

(* What an answer overwrites. *)
LEMMA PartReadIs ==
  ASSUME NEW m
  PROVE  /\ "pc" \in PartRead(m) <=> m.cmd = "stackTrace"
         /\ "regs" \in PartRead(m) <=> m.cmd = "variables"
         /\ "memory" \in PartRead(m) <=> m.cmd = "readMemory"
<1>1. CASE m.cmd = "stackTrace"
  BY <1>1 DEF PartRead
<1>2. CASE m.cmd = "variables"
  BY <1>2 DEF PartRead
<1>3. CASE m.cmd = "readMemory"
  BY <1>3 DEF PartRead
<1>4. CASE m.cmd \notin Reads
  BY <1>4 DEF PartRead, Reads
<1> QED BY <1>1, <1>2, <1>3, <1>4 DEF Reads

LEMMA TakeFollow ==
  ASSUME ShapeInv, FollowInv, Take
  PROVE  FollowInv'
<1>1. UNCHANGED <<time, ram, dirty, loop, events, external>>
      /\ answer' = {} /\ todo' = Tail(todo)
  BY DEF Take, serverVars, sourceVars
<1>2. PICK m \in answer :
           /\ pc' = IF m.cmd = "stackTrace" THEN m.time ELSE pc
           /\ regs' = IF m.cmd = "variables" THEN m.time ELSE regs
           /\ mirror' = IF m.cmd = "readMemory" THEN m.ram ELSE mirror
           /\ own' = own \ PartRead(m)
           /\ lost' = IF /\ events = <<>> /\ external = <<>> /\ loop = "none"
                         /\ UpToDate(m)
                      THEN lost \ PartRead(m) ELSE lost
           /\ todo # <<>> /\ m.cmd = Head(todo) /\ m.cmd # "waitForStop"
           /\ m.cmd \in Reads => /\ m.time \in 0 .. time
                                 /\ m.ram \in [Addrs -> Values]
                                 /\ m.time = time => m.ram = ram
  BY Taken
<1>3. m.cmd \in Reads =>
        /\ \A p \in {"pc", "regs"} : m.time = time \/ PartComing(p, 0)
        /\ \A a \in Addrs : m.ram[a] = ram[a] \/ ByteComing(a, 0)
  BY DEF FollowInv, AnswerFollows
<1>4. OnTheWay' = OnTheWay
  BY <1>1 DEF OnTheWay
<1>5. \A i : StopAfter(i)' = StopAfter(i) /\ \A a : ByteAfter(i, a)' = ByteAfter(i, a)
  BY <1>4 DEF StopAfter, ByteAfter
<1>6. \A a : InFlush(a)' = InFlush(a)
  BY <1>1 DEF InFlush
(* What is lost stays so but for the part just read, and that is exact.    *)
<1>7. /\ "pc" \in lost => "pc" \in lost' \/ (m.cmd = "stackTrace" /\ m.time = time)
      /\ "regs" \in lost => "regs" \in lost' \/ (m.cmd = "variables" /\ m.time = time)
      /\ "memory" \in lost =>
           "memory" \in lost' \/ (m.cmd = "readMemory" /\ m.time = time)
      /\ "pc" \in own => "pc" \in own' \/ m.cmd = "stackTrace"
      /\ "regs" \in own => "regs" \in own' \/ m.cmd = "variables"
      /\ "memory" \in own => "memory" \in own' \/ m.cmd = "readMemory"
  BY <1>2, PartReadIs DEF UpToDate, Reads
<1>8. /\ \A i : PartComing("pc", i) =>
             PartComing("pc", i)' \/ (m.cmd = "stackTrace" /\ m.time = time)
      /\ \A i : PartComing("regs", i) =>
             PartComing("regs", i)' \/ (m.cmd = "variables" /\ m.time = time)
      /\ \A a, i : ByteComing(a, i) =>
             ByteComing(a, i)' \/ (m.cmd = "readMemory" /\ m.time = time)
  BY <1>1, <1>5, <1>6, <1>7 DEF PartComing, ByteComing
<1>9. /\ m.cmd = "stackTrace" => Doing({"stackTrace", "variables"})' /\ Doing(Reads)'
      /\ m.cmd = "variables" => Doing(Reads)'
  <2>1. /\ m.cmd = "stackTrace" => todo' # <<>> /\ Head(todo') = "variables"
        /\ m.cmd = "variables" => todo' # <<>> /\ Head(todo') = "readMemory"
    BY <1>1, <1>2, TodoCases, Parts0
  <2> QED BY <2>1 DEF Doing, Reads
<1>10. PcFollows'
  <2>1. CASE m.cmd = "stackTrace"
    <3>1. pc' = m.time /\ (m.time = time \/ PartComing("pc", 0))
      BY <1>2, <1>3, <2>1 DEF Reads
    <3> QED BY <1>1, <1>8, <3>1 DEF PcFollows
  <2>2. CASE m.cmd # "stackTrace"
    <3>1. pc' = pc /\ (pc = time \/ "pc" \in own' \/ PartComing("pc", 0))
      BY <1>2, <1>7, <2>2 DEF FollowInv, PcFollows, Doing
    <3> QED BY <1>1, <1>8, <2>2, <3>1 DEF PcFollows
  <2> QED BY <2>1, <2>2
<1>11. RegsFollow'
  <2>1. CASE m.cmd = "variables"
    <3>1. regs' = m.time /\ (m.time = time \/ PartComing("regs", 0))
      BY <1>2, <1>3, <2>1 DEF Reads
    <3> QED BY <1>1, <1>8, <3>1 DEF RegsFollow
  <2>2. CASE m.cmd = "stackTrace"
    BY <1>9, <2>2 DEF RegsFollow
  <2>3. CASE m.cmd \notin {"stackTrace", "variables"}
    <3>1. regs' = regs /\ (regs = time \/ "regs" \in own' \/ PartComing("regs", 0))
      BY <1>2, <1>7, <2>3 DEF FollowInv, RegsFollow, Doing
    <3> QED BY <1>1, <1>8, <2>3, <3>1 DEF RegsFollow
  <2> QED BY <2>1, <2>2, <2>3
<1>12. MemoryFollows'
  <2>1. CASE m.cmd = "readMemory"
    <3> SUFFICES ASSUME NEW a \in Addrs
                 PROVE  mirror'[a] = ram'[a] \/ ByteComing(a, 0)'
      BY DEF MemoryFollows
    <3>1. /\ mirror' = m.ram /\ (m.time = time => m.ram = ram)
          /\ m.ram[a] = ram[a] \/ ByteComing(a, 0)
      BY <1>2, <1>3, <2>1 DEF Reads
    <3> QED BY <1>1, <1>8, <3>1
  <2>2. CASE m.cmd \in {"stackTrace", "variables"}
    BY <1>9, <2>2 DEF MemoryFollows
  <2>3. CASE m.cmd \notin Reads
    <3>1. mirror' = mirror
          /\ \A a \in Addrs : mirror[a] = ram[a] \/ "memory" \in own' \/ ByteComing(a, 0)
      BY <1>2, <1>7, <2>3 DEF FollowInv, MemoryFollows, Doing, Reads
    <3> QED BY <1>1, <1>8, <2>3, <3>1 DEF MemoryFollows, Reads
  <2> QED BY <2>1, <2>2, <2>3 DEF Reads
<1>13. EventsFollow'
  <2>1. CASE events = <<>> /\ external = <<>>
    <3>1. Len(OnTheWay) = 0
      BY <2>1, WayParts
    <3> QED BY <1>4, <3>1 DEF EventsFollow
  <2>2. CASE ~(events = <<>> /\ external = <<>>)
    <3>1. lost' = lost
      BY <1>2, <2>2
    <3>2. /\ \A i : PartComing("pc", i)' = PartComing("pc", i)
          /\ \A a, i : ByteComing(a, i)' = ByteComing(a, i)
      BY <1>1, <1>5, <1>6, <3>1 DEF PartComing, ByteComing
    <3> QED BY <1>1, <1>4, <3>2 DEF FollowInv, EventsFollow
  <2> QED BY <2>1, <2>2
<1>14. AnswerFollows'
  BY <1>1 DEF AnswerFollows
<1> QED BY <1>10, <1>11, <1>12, <1>13, <1>14 DEF FollowInv

LEMMA StutterFollow == ASSUME FollowInv, UNCHANGED vars PROVE FollowInv'
<1>1. UNCHANGED <<time, ram, dirty, loop, answer, events, external, todo, pc, regs,
                  mirror, ring, own, lost>>
  BY DEF vars
<1>2. \A cmds : Doing(cmds)' = Doing(cmds)
  BY <1>1 DEF Doing
<1> QED BY <1>1, <1>2, SameMachineFollow

LEMMA NextFollow == MirrorInv /\ [Next]_vars => FollowInv'
<1> SUFFICES ASSUME ShapeInv, FollowInv, [Next]_vars PROVE FollowInv'
  BY DEF MirrorInv
<1>1. CASE Server
  BY <1>1, HandleStepFollow, RunIterateFollow, ReplyFollow, HandleReadFollow,
     RunEndFollow, RunReportFollow, RunEmitFollow DEF Server
<1>2. CASE Demux
  BY <1>2, DemuxFollow
<1>3. CASE Tui
  BY <1>3, KeyFollow, OwnFollow, StopFollow, TimeOutFollow, PumpFollow, TakeFollow DEF Tui
<1>4. CASE UNCHANGED vars
  BY <1>4, StutterFollow
<1> QED BY <1>1, <1>2, <1>3, <1>4 DEF Next

-------------------------------------------------------------------------------
(* The theorems. *)

(* Every step of the server, of the two goroutines between and of the TUI  *)
(* keeps the shape of the state and the mirror's claim on what is coming.  *)
THEOREM MirrorInvariant == Spec => []MirrorInv
<1>1. Init => MirrorInv
  BY InitShape, InitFollow DEF MirrorInv
<1>2. MirrorInv /\ [Next]_vars => MirrorInv'
  BY NextShape, NextFollow DEF MirrorInv
<1> QED BY <1>1, <1>2, PTL DEF Spec

(* Every variable keeps its type: no mark of the bitmap lies outside its   *)
(* bounds, no channel holds more than its capacity, and the dirty hook is  *)
(* on the bus during a run and at no other time.                           *)
THEOREM MirrorTyped == Spec => []TypeOK
<1>1. MirrorInv => TypeOK
  BY DEF MirrorInv, ShapeInv
<1> QED BY <1>1, MirrorInvariant, PTL

(* A host's own access hook misses no access, before, during and after the *)
(* runs.                                                                   *)
THEOREM HostHookComplete == Spec => []HostSeesEverything
<1>1. MirrorInv => HostSeesEverything
  BY DEF MirrorInv, ShapeInv
<1> QED BY <1>1, MirrorInvariant, PTL

(* Every byte of the mirror that is not the machine's was lost with a      *)
(* dropped event or a failed read, or was written there by the user, or is *)
(* still coming.                                                           *)
THEOREM NoneForgotten == Spec => []NoByteForgotten
<1>1. MirrorInv => NoByteForgotten
  <2> SUFFICES ASSUME MirrorInv, NEW a \in Addrs, mirror[a] # ram[a],
                      "memory" \notin lost \cup own, ~StopOnTheWay,
                      loop # "emit",
                      ~(loop = "run" /\ a \in dirty.bits /\ dirty.lo <= a /\ a <= dirty.hi)
               PROVE  \E i \in 1 .. Len(OnTheWay) :
                        OnTheWay[i] # Stopped /\ a \in DOMAIN OnTheWay[i].bytes
    BY DEF NoByteForgotten
  <2>1. ByteComing(a, 0) \/ Doing(Reads)
    BY DEF MirrorInv, FollowInv, MemoryFollows
  <2>2. ~Doing(Reads)
    <3>1. todo \in Todos
      BY Parts0 DEF MirrorInv
    <3>2. ASSUME Doing(Reads)
          PROVE  todo \in {<<"stackTrace", "variables", "readMemory">>,
                          <<"variables", "readMemory">>, <<"readMemory">>}
      BY <3>1, <3>2 DEF Todos, Doing, Reads
    <3>3. ASSUME Doing(Reads) PROVE \E i \in 1 .. Len(todo) : todo[i] = "readMemory"
      <4>1. CASE todo = <<"stackTrace", "variables", "readMemory">>
        BY <4>1
      <4>2. CASE todo = <<"variables", "readMemory">>
        BY <4>2
      <4>3. CASE todo = <<"readMemory">>
        BY <4>3
      <4> QED BY <3>2, <3>3, <4>1, <4>2, <4>3
    <3> QED BY <3>3 DEF StopOnTheWay
  <2>3. ~StopAfter(0)
    BY DEF StopAfter, StopOnTheWay
  <2>4. ByteAfter(0, a)
    BY <2>1, <2>2, <2>3 DEF ByteComing, InFlush
  <2> QED BY <2>4 DEF ByteAfter
<1> QED BY <1>1, MirrorInvariant, PTL

(* When the server has stopped and every event is handled, the TUI shows   *)
(* the machine, but for the parts that were lost and those the user wrote  *)
(* in the mirror alone, with `<` among others, since they were last read.  *)
THEOREM QuietMirror == Spec => []QuietMirrorIsExact
<1>1. MirrorInv => QuietMirrorIsExact
  <2> SUFFICES ASSUME MirrorInv, loop = "none", OnTheWay = <<>>, todo = <<>>
               PROVE  /\ "pc" \in lost \cup own \/ pc = time
                      /\ "regs" \in lost \cup own \/ regs = time
                      /\ "memory" \in lost \cup own \/ mirror = ram
    BY DEF QuietMirrorIsExact
  <2>1. /\ \A cmds : ~Doing(cmds)
        /\ ~StopAfter(0) /\ \A a : ~ByteAfter(0, a) /\ ~InFlush(a)
    BY DEF Doing, StopAfter, ByteAfter, InFlush
  <2>2. /\ "pc" \in lost \cup own \/ pc = time
        /\ "regs" \in lost \cup own \/ regs = time
    BY <2>1 DEF MirrorInv, FollowInv, PcFollows, RegsFollow, PartComing
  <2>3. "memory" \in lost \cup own \/ \A a \in Addrs : mirror[a] = ram[a]
    BY <2>1 DEF MirrorInv, FollowInv, MemoryFollows, ByteComing
  <2>4. ram \in [Addrs -> Values] /\ mirror \in [Addrs -> Values]
    BY Parts0 DEF MirrorInv
  <2> QED BY <2>2, <2>3, <2>4
<1> QED BY <1>1, MirrorInvariant, PTL
===============================================================================
