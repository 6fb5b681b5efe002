---------------------------- MODULE DeviceProofs ----------------------------
(***************************************************************************)
(* Proofs about Device, for any threads, stack addresses, queue entries    *)
(* and channels: IInv is an invariant of Spec, and Spec implements the     *)
(* contract of transfer.                                                   *)
(***************************************************************************)
EXTENDS Device, TLAPS

\* No stack address is also the name of a thread's own Aio.
LEMMA AddressKinds ==
    /\ Frames \subseteq Addresses
    /\ Threads \subseteq Addresses
    /\ NoFrame \notin Frames
    /\ \A f \in Frames, t \in Threads : f # t
  BY FramesAssumption DEF Addresses

\* Initially no transfer is in progress and the driver holds nothing.
LEMMA InitIInv == Init => IInv
<1> SUFFICES ASSUME Init PROVE IInv
  OBVIOUS
<1>1. TypeOK
  BY AddressKinds DEF Init, TypeOK, Fresh, Failed
<1>2. BusyIffQueued
  BY DEF Init, BusyIffQueued
<1>3. ReadBeforeWrite
  BY DEF Init, ReadBeforeWrite
<1> QED
  BY <1>1, <1>2, <1>3 DEF IInv

-----------------------------------------------------------------------------
(***************************************************************************)
(* What the system calls do to the invariant, whoever makes them.          *)
(***************************************************************************)

\* A request for an Aio that is not busy becomes its one request.
LEMMA QueuedBusy ==
  ASSUME TypeOK, BusyIffQueued,
         NEW t \in Threads, NEW a \in Addresses,
         NEW channel \in Channels, NEW event \in Events,
         aio[a] # "busy" \/ abandoned,
         Queued(t, a, channel, event),
         UNCHANGED abandoned
  PROVE  queue' \subseteq Request /\ BusyIffQueued'
<1>1. PICK s \in Slots :
          queue' = queue \cup {[slot |-> s, aio |-> a, channel |-> channel, event |-> event]}
  BY DEF Queued
<1> DEFINE new == [slot |-> s, aio |-> a, channel |-> channel, event |-> event]
<1>2. aio' = [aio EXCEPT ![a] = "busy"]
  BY DEF Queued
<1>3. new.aio = a /\ new \in queue' /\ queue \subseteq queue'
  BY <1>1
<1>4. queue' \subseteq Request
  BY <1>1 DEF TypeOK, Request
<1>5. \A b \in Addresses : aio'[b] = "busy" => \E r \in queue' : r.aio = b
  BY <1>2, <1>3 DEF TypeOK, BusyIffQueued, Outstanding
<1>6. ASSUME ~abandoned' PROVE \A r \in queue' : aio'[r.aio] = "busy"
  BY <1>1, <1>2, <1>6 DEF TypeOK, BusyIffQueued, Request
<1>7. ASSUME ~abandoned' PROVE \A r \in queue : r.aio # a
  BY <1>7 DEF BusyIffQueued
<1>8. ASSUME ~abandoned' PROVE \A r, q \in queue' : r.aio = q.aio => r = q
  BY <1>1, <1>3, <1>7, <1>8 DEF BusyIffQueued
<1> QED
  BY <1>4, <1>5, <1>6, <1>8 DEF BusyIffQueued, Outstanding

\* A call that is skipped or refused leaves the driver and the Aios alone.
LEMMA NotQueued ==
  ASSUME IInv, NEW t \in Threads, pc[t] = "idle",
         Skipped(t) \/ Refused(t), UNCHANGED threadVars
  PROVE  IInv'
<1> USE DEF IInv, TypeOK, threadVars
<1>1. CASE Skipped(t)
  BY <1>1 DEF Skipped, BusyIffQueued, ReadBeforeWrite, Outstanding
<1>2. CASE Refused(t)
  <2>1. TypeOK'
    BY <1>2 DEF Refused
  <2>2. BusyIffQueued'
    BY <1>2 DEF Refused, BusyIffQueued, Outstanding
  <2>3. ReadBeforeWrite'
    BY <1>2 DEF Refused, ReadBeforeWrite, IsError, Failed
  <2> QED
    BY <2>1, <2>2, <2>3
<1> QED
  BY <1>1, <1>2

\* The driver concludes requests, while no thread moves.
LEMMA ConcludeIInv ==
  ASSUME IInv, NEW requests \in SUBSET queue,
         Conclude(requests), UNCHANGED threadVars,
         ctx' \in [Threads -> {Failed, Fresh}],
         \A t \in Threads : IsError(ctx'[t]) <=> IsError(ctx[t])
  PROVE  IInv'
<1> USE AddressKinds DEF IInv, threadVars
<1>1. /\ queue' = queue \ requests
      /\ \A a \in Addresses :
            aio'[a] = IF aio[a] # "dead" /\ \E r \in requests : r.aio = a
                      THEN "done" ELSE aio[a]
  BY DEF Conclude
<1>2. aio' \in [Addresses -> {"dead", "ready", "busy", "done"}]
  BY DEF Conclude, TypeOK
<1>3. TypeOK'
  BY <1>1, <1>2 DEF TypeOK
<1>4. ASSUME NEW a \in Addresses, aio'[a] = "busy"
      PROVE  \E r \in queue' : r.aio = a
  <2>1. aio[a] = "busy" /\ ~ \E r \in requests : r.aio = a
    BY <1>1, <1>4
  <2>2. \E r \in queue : r.aio = a
    BY <2>1 DEF BusyIffQueued, Outstanding
  <2> QED
    BY <1>1, <2>1, <2>2
<1>5. ASSUME ~abandoned' PROVE \A r \in queue' : aio'[r.aio] = "busy"
  BY <1>1, <1>5 DEF BusyIffQueued, TypeOK, Request
<1>6. ASSUME ~abandoned' PROVE \A r, s \in queue' : r.aio = s.aio => r = s
  BY <1>1, <1>6 DEF BusyIffQueued
<1>7. BusyIffQueued'
  BY <1>4, <1>5, <1>6 DEF BusyIffQueued, Outstanding
<1>8. ReadBeforeWrite'
  <2>1. ASSUME NEW t \in Threads, pc[t] # "idle"
        PROVE  frame[t] \in Addresses
    BY <2>1 DEF TypeOK
  <2>2. ASSUME NEW t \in Threads, pc[t] = "read", ~abandoned
        PROVE  aio'[frame[t]] = "ready"
    BY <1>1, <2>1, <2>2 DEF ReadBeforeWrite, BusyIffQueued
  <2>3. ASSUME NEW a \in Addresses, aio[a] # "ready" PROVE aio'[a] # "ready"
    BY <1>1, <2>3
  <2> QED
    BY <2>1, <2>2, <2>3 DEF ReadBeforeWrite
<1> QED
  BY <1>3, <1>7, <1>8

-----------------------------------------------------------------------------
(***************************************************************************)
(* The steps of callers and of the driver.                                 *)
(***************************************************************************)

\* Read and Write: a thread submits its own Aio, which is not busy.
LEMMA SubmitOwn ==
  ASSUME IInv,
         NEW t \in Threads, NEW channel \in Channels, NEW event \in Events,
         pc[t] = "idle", aio[t] # "busy",
         Skipped(t) \/ Refused(t) \/ Queued(t, t, channel, event),
         UNCHANGED threadVars
  PROVE  IInv'
<1>1. CASE Skipped(t) \/ Refused(t)
  BY <1>1, NotQueued
<1>2. CASE Queued(t, t, channel, event)
  <2>1. /\ aio' = [aio EXCEPT ![t] = "busy"]
        /\ ctx' = [ctx EXCEPT ![t] = Fresh]
        /\ ~IsError(ctx[t])
    BY <1>2 DEF Queued
  <2>2. queue' \subseteq Request /\ BusyIffQueued'
    BY <1>2, QueuedBusy, AddressKinds DEF IInv, threadVars
  <2>3. TypeOK'
    BY <2>1, <2>2, AddressKinds DEF IInv, TypeOK, threadVars
  <2>4. ReadBeforeWrite'
    BY <2>1, AddressKinds
    DEF IInv, TypeOK, ReadBeforeWrite, threadVars, IsError, Fresh
  <2> QED
    BY <2>2, <2>3, <2>4 DEF IInv
<1> QED
  BY <1>1, <1>2

\* Cancel, CancelRead and CancelWrite.
LEMMA CancelIInv ==
  ASSUME IInv, NEW t \in Threads, NEW channel \in Channels,
         NEW events \in SUBSET Events, pc[t] = "idle",
         cancel_implementation(t, channel, events), UNCHANGED threadVars
  PROVE  IInv'
<1>1. CASE Skipped(t) \/ Refused(t)
  BY <1>1, NotQueued
<1> DEFINE hit == {r \in queue : r.channel = U8(channel) /\ r.event \in events}
<1>2. CASE /\ ~IsError(ctx[t])
           /\ Conclude(hit)
           /\ ctx' = [ctx EXCEPT ![t] = Fresh]
  <2>1. hit \in SUBSET queue
    OBVIOUS
  <2>2. /\ ctx' \in [Threads -> {Failed, Fresh}]
        /\ \A u \in Threads : IsError(ctx'[u]) <=> IsError(ctx[u])
    BY <1>2 DEF IInv, TypeOK, IsError, Fresh
  <2> QED
    BY <1>2, <2>1, <2>2, ConcludeIInv
<1> QED
  BY <1>1, <1>2 DEF cancel_implementation

LEMMA CallerStepIInv ==
  ASSUME IInv, NEW t \in Threads, CallerStep(t)
  PROVE  IInv'
<1>1. CASE Read(t)
  BY <1>1, SubmitOwn DEF Read, read_implementation, Events
<1>2. CASE Write(t)
  BY <1>2, SubmitOwn DEF Write, write_implementation, Events
<1>3. CASE CancelRead(t)
  BY <1>3, CancelIInv DEF CancelRead, Events
<1>4. CASE CancelWrite(t)
  BY <1>4, CancelIInv DEF CancelWrite, Events
<1>5. CASE Cancel(t)
  BY <1>5, CancelIInv DEF Cancel
<1>6. CASE ResetError(t)
  <2> USE <1>6 DEF IInv, ResetError, threadVars
  <2>1. TypeOK'
    BY DEF TypeOK
  <2>2. BusyIffQueued'
    BY DEF BusyIffQueued, Outstanding
  <2>3. ReadBeforeWrite'
    BY DEF TypeOK, ReadBeforeWrite, IsError, Fresh
  <2> QED
    BY <2>1, <2>2, <2>3
<1>7. CASE TransferBegin(t)
  <2>1. PICK f \in Frames :
          /\ aio[f] = "dead"
          /\ frame' = [frame EXCEPT ![t] = f]
          /\ aio' = [aio EXCEPT ![f] = "ready"]
    BY <1>7 DEF TransferBegin
  <2>2. /\ pc[t] = "idle"
        /\ pc' = [pc EXCEPT ![t] = "read"]
        /\ UNCHANGED <<ctx, sent, queue, abandoned>>
    BY <1>7 DEF TransferBegin, Goto
  <2> USE AddressKinds DEF IInv
  <2>3. \A u \in Threads : frame[u] # f
    BY <2>1 DEF TypeOK
  <2>4. TypeOK'
    BY <2>1, <2>2, <2>3 DEF TypeOK
  <2>5. BusyIffQueued'
    BY <2>1, <2>2 DEF TypeOK, BusyIffQueued, Outstanding, Request
  <2>6. ReadBeforeWrite'
    BY <2>1, <2>2, <2>3 DEF TypeOK, ReadBeforeWrite
  <2> QED
    BY <2>4, <2>5, <2>6
<1> QED
  BY <1>1, <1>2, <1>3, <1>4, <1>5, <1>6, <1>7 DEF CallerStep

LEMMA CompleteIInv ==
  ASSUME IInv, NEW r \in queue, Complete(r)
  PROVE  IInv'
<1>1. {r} \in SUBSET queue
  OBVIOUS
<1>2. /\ ctx' \in [Threads -> {Failed, Fresh}]
      /\ \A t \in Threads : IsError(ctx'[t]) <=> IsError(ctx[t])
  BY DEF IInv, TypeOK, Complete
<1> QED
  BY <1>1, <1>2, ConcludeIInv DEF Complete

-----------------------------------------------------------------------------
(***************************************************************************)
(* The steps of transfer.                                                  *)
(***************************************************************************)

LEMMA TransferReadIInv ==
  ASSUME IInv, NEW t \in Threads, TransferRead(t)
  PROVE  IInv'
<1> USE AddressKinds
<1>1. /\ pc[t] = "read"
      /\ pc' = [pc EXCEPT ![t] = "write"]
      /\ UNCHANGED <<frame, sent, abandoned>>
      /\ frame[t] \in Frames
      /\ ~abandoned => aio[frame[t]] = "ready"
  BY DEF IInv, TypeOK, ReadBeforeWrite, TransferRead, Goto
<1>2. CASE Skipped(t) \/ Refused(t)
  <2>1. /\ UNCHANGED <<aio, queue>>
        /\ ctx' \in [Threads -> {Failed, Fresh}]
        /\ IsError(ctx'[t])
        /\ \A u \in Threads \ {t} : ctx'[u] = ctx[u]
    BY <1>2 DEF IInv, TypeOK, Skipped, Refused, IsError, Failed
  <2>2. TypeOK'
    BY <1>1, <2>1 DEF IInv, TypeOK
  <2>3. BusyIffQueued'
    BY <1>1, <2>1 DEF IInv, BusyIffQueued, Outstanding
  <2>4. ReadBeforeWrite'
    BY <1>1, <2>1 DEF IInv, TypeOK, ReadBeforeWrite
  <2> QED
    BY <2>2, <2>3, <2>4 DEF IInv
<1>3. CASE Queued(t, frame[t], 0, "DATA_READY")
  <2>1. /\ aio' = [aio EXCEPT ![frame[t]] = "busy"]
        /\ ctx' = [ctx EXCEPT ![t] = Fresh]
        /\ ~IsError(ctx[t])
    BY <1>3 DEF Queued
  <2>2. queue' \subseteq Request /\ BusyIffQueued'
    BY <1>1, <1>3, QueuedBusy, ChannelsAssumption DEF IInv, Events
  <2>3. TypeOK'
    BY <1>1, <2>1, <2>2 DEF IInv, TypeOK
  <2>4. ReadBeforeWrite'
    BY <1>1, <2>1 DEF IInv, TypeOK, ReadBeforeWrite, IsError, Fresh
  <2> QED
    BY <2>2, <2>3, <2>4 DEF IInv
<1> QED
  BY <1>2, <1>3 DEF TransferRead, read_implementation

LEMMA TransferWriteIInv ==
  ASSUME IInv, NEW t \in Threads, TransferWrite(t)
  PROVE  IInv'
<1> USE AddressKinds DEF IInv
<1>1. /\ pc[t] = "write"
      /\ pc' = [pc EXCEPT ![t] = "poll"]
      /\ UNCHANGED <<frame, abandoned, aio, queue>>
      /\ ctx' \in [Threads -> {Failed, Fresh}]
      /\ \A u \in Threads \ {t} : ctx'[u] = ctx[u]
      /\ \/ IsError(ctx'[t]) /\ sent' = sent
         \/ /\ ~IsError(ctx[t]) /\ ~IsError(ctx'[t])
            /\ sent' = [sent EXCEPT ![t] = TRUE]
  BY DEF TypeOK, TransferWrite, Goto, Skipped, Refused, IsError, Failed, Fresh
<1>2. TypeOK'
  BY <1>1 DEF TypeOK
<1>3. BusyIffQueued'
  BY <1>1 DEF BusyIffQueued, Outstanding
<1>4. ReadBeforeWrite'
  BY <1>1 DEF TypeOK, ReadBeforeWrite
<1> QED
  BY <1>2, <1>3, <1>4

\* TransferPoll and TransferWait: the loop goes round.
LEMMA TransferLoopIInv ==
  ASSUME IInv, NEW t \in Threads, TransferPoll(t) \/ TransferWait(t)
  PROVE  IInv'
<1> USE DEF IInv
<1>1. /\ pc[t] \in {"poll", "wait"}
      /\ \/ pc' = [pc EXCEPT ![t] = "poll"]
         \/ pc' = [pc EXCEPT ![t] = "wait"]
      /\ UNCHANGED <<ctx, frame, sent, aio, queue, abandoned>>
  BY DEF TransferPoll, TransferWait, Goto
<1>2. TypeOK'
  BY <1>1 DEF TypeOK
<1>3. BusyIffQueued'
  BY <1>1 DEF BusyIffQueued, Outstanding
<1>4. ReadBeforeWrite'
  BY <1>1 DEF TypeOK, ReadBeforeWrite
<1> QED
  BY <1>2, <1>3, <1>4

\* An Aio that goes out of scope is not pointed to, or it is abandoned.
LEMMA TransferReturnIInv ==
  ASSUME IInv, NEW t \in Threads, TransferReturn(t)
  PROVE  IInv'
<1> USE AddressKinds DEF IInv
<1>1. /\ pc[t] = "poll"
      /\ pc' = [pc EXCEPT ![t] = "idle"]
      /\ abandoned' = (abandoned \/ Outstanding(frame[t]))
      /\ aio' = [aio EXCEPT ![frame[t]] = "dead"]
      /\ frame' = [frame EXCEPT ![t] = NoFrame]
      /\ sent' = [sent EXCEPT ![t] = FALSE]
      /\ UNCHANGED <<ctx, queue>>
  BY DEF TransferReturn, Goto
<1>2. frame[t] \in Frames
  BY <1>1 DEF TypeOK
<1>3. \A u \in Threads \ {t} : frame[u] # frame[t]
  BY <1>2 DEF TypeOK
<1>4. TypeOK'
  BY <1>1, <1>2, <1>3 DEF TypeOK
<1>5. BusyIffQueued'
  BY <1>1, <1>2 DEF TypeOK, BusyIffQueued, Outstanding, Request
<1>6. ReadBeforeWrite'
  BY <1>1, <1>2, <1>3 DEF TypeOK, ReadBeforeWrite
<1> QED
  BY <1>4, <1>5, <1>6

LEMMA TransferStepIInv ==
  ASSUME IInv, NEW t \in Threads, TransferStep(t)
  PROVE  IInv'
  BY TransferReadIInv, TransferWriteIInv, TransferLoopIInv, TransferReturnIInv
  DEF TransferStep

-----------------------------------------------------------------------------
LEMMA StutterIInv == IInv /\ UNCHANGED vars => IInv'
  BY DEF IInv, TypeOK, BusyIffQueued, ReadBeforeWrite, Outstanding, vars

\* IInv holds in every reachable state: the Aio that a transfer polls is busy
\* exactly while the driver holds its read, as long as none was abandoned.
THEOREM Invariance == Spec => []IInv
<1>1. IInv /\ [Next]_vars => IInv'
  BY CallerStepIInv, TransferStepIInv, CompleteIInv, StutterIInv DEF Next
<1> QED
  BY InitIInv, <1>1, PTL DEF Spec

\* The types and the ownership of stack addresses (TypeOK).
THEOREM TypeCorrect == Spec => []TypeOK
<1>1. IInv => TypeOK
  BY DEF IInv
<1> QED
  BY <1>1, Invariance, PTL

\* What transfer waits for is the answer to its own read (BusyIffQueued).
THEOREM WaitsForOwnRead == Spec => []BusyIffQueued
<1>1. IInv => BusyIffQueued
  BY DEF IInv
<1> QED
  BY <1>1, Invariance, PTL

\* The source goes out only after the read was taken (ReadBeforeWrite).
THEOREM NoAnswerMissed == Spec => []ReadBeforeWrite
<1>1. IInv => ReadBeforeWrite
  BY DEF IInv
<1> QED
  BY <1>1, Invariance, PTL

-----------------------------------------------------------------------------
(***************************************************************************)
(* Device implements TransferContract.  Each step of the code is one step  *)
(* of the contract or leaves its variables alone; once a destination was   *)
(* abandoned, any step is one (Undefined).                                 *)
(***************************************************************************)
LEMMA RefinesInit == Init => Contract!Init
<1> SUFFICES ASSUME Init PROVE Contract!Init
  OBVIOUS
<1>1. \A t \in Threads : IsError(ctx[t]) = FALSE
  BY DEF Init, IsError, Fresh
<1>2. \A t \in Threads : (pc[t] # "idle") = FALSE
  BY DEF Init
<1>3. \A t \in Threads : LoanOf(t) = "none"
  BY DEF Init, LoanOf
<1>4. [t \in Threads |-> IsError(ctx[t])] = [t \in Threads |-> FALSE]
  BY <1>1
<1>5. [t \in Threads |-> pc[t] # "idle"] = [t \in Threads |-> FALSE]
  BY <1>2
<1>6. [t \in Threads |-> LoanOf(t)] = [t \in Threads |-> "none"]
  BY <1>3
<1> QED
  BY <1>4, <1>5, <1>6 DEF Init, Contract!Init

\* The loan of a transfer depends on its frame, its Aio and the queue.
LEMMA LoanStable ==
  ASSUME UNCHANGED <<frame, aio, queue>>
  PROVE  \A t \in Threads : LoanOf(t)' = LoanOf(t)
  BY DEF LoanOf, Outstanding

\* An error of t is a fault of t in the contract.
LEMMA FailedMapped ==
  ASSUME TypeOK, NEW t \in Threads, ctx' = [ctx EXCEPT ![t] = Failed]
  PROVE  [u \in Threads |-> IsError(ctx[u])]'
         = [[u \in Threads |-> IsError(ctx[u])] EXCEPT ![t] = TRUE]
<1>1. IsError(ctx'[t]) = TRUE
  BY DEF TypeOK, IsError, Failed
<1>2. \A u \in Threads \ {t} : ctx'[u] = ctx[u]
  BY DEF TypeOK
<1>3. ASSUME NEW u \in Threads
      PROVE  IsError(ctx'[u]) = IF u = t THEN TRUE ELSE IsError(ctx[u])
  <2>1. CASE u = t
    BY <1>1, <2>1
  <2>2. CASE u # t
    BY <1>2, <2>2
  <2> QED
    BY <2>1, <2>2
<1> QED
  BY <1>3

\* A context that stays in error, or stays without, is the same to the contract.
LEMMA FailedStable ==
  ASSUME \A u \in Threads : IsError(ctx'[u]) = IsError(ctx[u])
  PROVE  [u \in Threads |-> IsError(ctx[u])]' = [u \in Threads |-> IsError(ctx[u])]
  OBVIOUS

LEMMA LoanFunctionStable ==
  ASSUME UNCHANGED <<frame, aio, queue>>
  PROVE  [u \in Threads |-> LoanOf(u)]' = [u \in Threads |-> LoanOf(u)]
  BY LoanStable

\* A call by t that is skipped or refused: Fault, or nothing.
LEMMA RefinesNotQueued ==
  ASSUME IInv, NEW t \in Threads, Skipped(t) \/ Refused(t),
         UNCHANGED threadVars
  PROVE  Contract!Fault(t) \/ UNCHANGED Contract!vars
<1>1. UNCHANGED <<frame, aio, queue, sent, pc, abandoned>>
  BY DEF Skipped, Refused, threadVars
<1>2. [u \in Threads |-> LoanOf(u)]' = [u \in Threads |-> LoanOf(u)]
  BY <1>1, LoanFunctionStable
<1>3. [u \in Threads |-> pc[u] # "idle"]' = [u \in Threads |-> pc[u] # "idle"]
  BY <1>1
<1>4. CASE Skipped(t)
  <2>1. ctx' = ctx
    BY <1>4 DEF Skipped
  <2>2. [u \in Threads |-> IsError(ctx[u])]' = [u \in Threads |-> IsError(ctx[u])]
    BY <2>1
  <2> QED
    BY <1>1, <1>2, <1>3, <2>2 DEF Contract!vars
<1>5. CASE Refused(t)
  <2>1. [u \in Threads |-> IsError(ctx[u])]'
        = [[u \in Threads |-> IsError(ctx[u])] EXCEPT ![t] = TRUE]
    BY <1>5, FailedMapped DEF Refused, IInv
  <2> QED
    BY <1>1, <1>2, <1>3, <2>1 DEF Contract!Fault
<1> QED
  BY <1>4, <1>5

-----------------------------------------------------------------------------
(***************************************************************************)
(* Entering, staying in and leaving the call.                              *)
(***************************************************************************)
LEMMA InCallEnter ==
  ASSUME TypeOK, NEW t \in Threads, pc' = [pc EXCEPT ![t] = "read"]
  PROVE  [u \in Threads |-> pc[u] # "idle"]'
         = [[u \in Threads |-> pc[u] # "idle"] EXCEPT ![t] = TRUE]
<1>1. (pc'[t] # "idle") = TRUE
  BY DEF TypeOK
<1>2. \A u \in Threads \ {t} : pc'[u] = pc[u]
  BY DEF TypeOK
<1>3. ASSUME NEW u \in Threads
      PROVE  (pc'[u] # "idle") = IF u = t THEN TRUE ELSE pc[u] # "idle"
  <2>1. CASE u = t
    BY <1>1, <2>1
  <2>2. CASE u # t
    BY <1>2, <2>2
  <2> QED
    BY <2>1, <2>2
<1> QED
  BY <1>3

LEMMA InCallLeave ==
  ASSUME TypeOK, NEW t \in Threads, pc' = [pc EXCEPT ![t] = "idle"]
  PROVE  [u \in Threads |-> pc[u] # "idle"]'
         = [[u \in Threads |-> pc[u] # "idle"] EXCEPT ![t] = FALSE]
<1>1. (pc'[t] # "idle") = FALSE
  BY DEF TypeOK
<1>2. \A u \in Threads \ {t} : pc'[u] = pc[u]
  BY DEF TypeOK
<1>3. ASSUME NEW u \in Threads
      PROVE  (pc'[u] # "idle") = IF u = t THEN FALSE ELSE pc[u] # "idle"
  <2>1. CASE u = t
    BY <1>1, <2>1
  <2>2. CASE u # t
    BY <1>2, <2>2
  <2> QED
    BY <2>1, <2>2
<1> QED
  BY <1>3

LEMMA InCallStay ==
  ASSUME TypeOK, NEW t \in Threads, pc[t] # "idle",
         NEW next \in {"write", "poll", "wait"},
         pc' = [pc EXCEPT ![t] = next]
  PROVE  [u \in Threads |-> pc[u] # "idle"]' = [u \in Threads |-> pc[u] # "idle"]
<1>1. ASSUME NEW u \in Threads PROVE (pc'[u] # "idle") = (pc[u] # "idle")
  <2>1. CASE u = t
    BY <2>1 DEF TypeOK
  <2>2. CASE u # t
    BY <2>2 DEF TypeOK
  <2> QED
    BY <2>1, <2>2
<1> QED
  BY <1>1

\* A context that is set to Fresh while it was without an error.
LEMMA FreshStable ==
  ASSUME TypeOK, NEW t \in Threads, ~IsError(ctx[t]),
         ctx' = [ctx EXCEPT ![t] = Fresh]
  PROVE  [u \in Threads |-> IsError(ctx[u])]' = [u \in Threads |-> IsError(ctx[u])]
<1>1. ctx[t] = Fresh
  BY DEF TypeOK, IsError, Fresh, Failed
<1>2. ctx' = ctx
  BY <1>1 DEF TypeOK
<1> QED
  BY <1>2

-----------------------------------------------------------------------------
(***************************************************************************)
(* The steps of callers and of the driver, before anything is abandoned.   *)
(***************************************************************************)

\* The loans do not notice a request for a thread's own Aio.
LEMMA RefinesSubmitOwn ==
  ASSUME IInv, NEW t \in Threads, NEW channel, NEW event,
         Queued(t, t, channel, event), UNCHANGED threadVars
  PROVE  UNCHANGED Contract!vars
<1>1. PICK s \in Slots :
          queue' = queue \cup {[slot |-> s, aio |-> t, channel |-> channel, event |-> event]}
  BY DEF Queued
<1>2. /\ aio' = [aio EXCEPT ![t] = "busy"]
      /\ ctx' = [ctx EXCEPT ![t] = Fresh]
      /\ ~IsError(ctx[t])
      /\ UNCHANGED <<pc, frame, sent, abandoned>>
  BY DEF Queued, threadVars
<1>3. ASSUME NEW u \in Threads PROVE LoanOf(u)' = LoanOf(u)
  <2>1. CASE frame[u] = NoFrame
    BY <1>2, <2>1 DEF LoanOf
  <2>2. CASE frame[u] # NoFrame
    <3>1. frame[u] \in Addresses /\ frame[u] # t
      BY <2>2, AddressKinds DEF IInv, TypeOK
    <3>2. aio'[frame[u]] = aio[frame[u]]
      BY <1>2, <3>1 DEF IInv, TypeOK
    <3>3. (\E r \in queue' : r.aio = frame[u]) <=> (\E r \in queue : r.aio = frame[u])
      BY <1>1, <3>1
    <3> QED
      BY <1>2, <2>2, <3>2, <3>3 DEF LoanOf, Outstanding
  <2> QED
    BY <2>1, <2>2
<1>4. [u \in Threads |-> LoanOf(u)]' = [u \in Threads |-> LoanOf(u)]
  BY <1>3
<1>5. [u \in Threads |-> pc[u] # "idle"]' = [u \in Threads |-> pc[u] # "idle"]
  BY <1>2
<1>6. [u \in Threads |-> IsError(ctx[u])]' = [u \in Threads |-> IsError(ctx[u])]
  BY <1>2, FreshStable DEF IInv
<1> QED
  BY <1>2, <1>4, <1>5, <1>6 DEF Contract!vars

\* Concluding requests gives back the destinations they were for.
LEMMA RefinesConclude ==
  ASSUME IInv, NEW requests \in SUBSET queue,
         Conclude(requests), UNCHANGED threadVars,
         [u \in Threads |-> IsError(ctx[u])]' = [u \in Threads |-> IsError(ctx[u])]
  PROVE  \E S \in SUBSET Threads : Contract!GiveBack(S)
<1> DEFINE S == {u \in Threads : LoanOf(u) = "lent" /\ LoanOf(u)' # "lent"}
<1>1. /\ queue' = queue \ requests
      /\ \A a \in Addresses :
            aio'[a] = IF aio[a] # "dead" /\ \E r \in requests : r.aio = a
                      THEN "done" ELSE aio[a]
      /\ UNCHANGED <<pc, frame, sent, abandoned>>
  BY DEF Conclude, threadVars
<1>2. ASSUME NEW u \in Threads
      PROVE  LoanOf(u)' = IF u \in S THEN "returned" ELSE LoanOf(u)
  <2>1. CASE frame[u] = NoFrame
    BY <1>1, <2>1 DEF LoanOf
  <2>2. CASE frame[u] # NoFrame
    <3>1. frame[u] \in Addresses /\ aio[frame[u]] # "dead"
      BY <2>2, AddressKinds DEF IInv, TypeOK
    <3>2. CASE \E r \in requests : r.aio = frame[u]
      <4>1. LoanOf(u) = "lent"
        BY <2>2, <3>2 DEF LoanOf, Outstanding
      <4>2. aio'[frame[u]] = "done"
        BY <1>1, <3>1, <3>2
      <4>3. LoanOf(u)' \in {"lent", "returned"}
        BY <1>1, <2>2, <4>2 DEF LoanOf
      <4> QED
        BY <4>1, <4>3
    <3>3. CASE ~ \E r \in requests : r.aio = frame[u]
      <4>1. aio'[frame[u]] = aio[frame[u]]
        BY <1>1, <3>1, <3>3
      <4>2. (\E r \in queue' : r.aio = frame[u]) <=> (\E r \in queue : r.aio = frame[u])
        BY <1>1, <3>3
      <4>3. LoanOf(u)' = LoanOf(u)
        BY <1>1, <2>2, <4>1, <4>2 DEF LoanOf, Outstanding
      <4> QED
        BY <4>3
    <3> QED
      BY <3>2, <3>3
  <2> QED
    BY <2>1, <2>2
<1>3. [u \in Threads |-> LoanOf(u)]'
      = [u \in Threads |-> IF u \in S THEN "returned" ELSE [v \in Threads |-> LoanOf(v)][u]]
  BY <1>2
<1>4. [u \in Threads |-> pc[u] # "idle"]' = [u \in Threads |-> pc[u] # "idle"]
  BY <1>1
<1>5. \A u \in S : [v \in Threads |-> LoanOf(v)][u] = "lent"
  OBVIOUS
<1>6. Contract!GiveBack(S)
  BY <1>1, <1>3, <1>4, <1>5 DEF Contract!GiveBack
<1> QED
  BY <1>6

LEMMA RefinesCancel ==
  ASSUME IInv, NEW t \in Threads, NEW channel, NEW events,
         cancel_implementation(t, channel, events), UNCHANGED threadVars
  PROVE  Contract!Next \/ UNCHANGED Contract!vars
<1>1. CASE Skipped(t) \/ Refused(t)
  BY <1>1, RefinesNotQueued DEF Contract!Next, Contract!ThreadStep
<1> DEFINE hit == {r \in queue : r.channel = U8(channel) /\ r.event \in events}
<1>2. CASE /\ ~IsError(ctx[t])
           /\ Conclude(hit)
           /\ ctx' = [ctx EXCEPT ![t] = Fresh]
  <2>1. hit \in SUBSET queue
    OBVIOUS
  <2>2. [u \in Threads |-> IsError(ctx[u])]' = [u \in Threads |-> IsError(ctx[u])]
    BY <1>2, FreshStable DEF IInv
  <2>3. \E S \in SUBSET Threads : Contract!GiveBack(S)
    BY <1>2, <2>1, <2>2, RefinesConclude
  <2> QED
    BY <2>3 DEF Contract!Next
<1> QED
  BY <1>1, <1>2 DEF cancel_implementation

LEMMA RefinesComplete ==
  ASSUME IInv, NEW r \in queue, Complete(r)
  PROVE  Contract!Next
<1>1. {r} \in SUBSET queue
  OBVIOUS
<1>2. [u \in Threads |-> IsError(ctx[u])]' = [u \in Threads |-> IsError(ctx[u])]
  BY DEF Complete
<1>3. \E S \in SUBSET Threads : Contract!GiveBack(S)
  BY <1>1, <1>2, RefinesConclude DEF Complete
<1> QED
  BY <1>3 DEF Contract!Next

LEMMA RefinesResetError ==
  ASSUME IInv, NEW t \in Threads, ResetError(t)
  PROVE  Contract!Recover(t)
<1>1. /\ pc[t] = "idle"
      /\ ctx' = [ctx EXCEPT ![t] = Fresh]
      /\ UNCHANGED <<pc, frame, sent, abandoned, aio, queue>>
  BY DEF ResetError, threadVars
<1>2. [u \in Threads |-> LoanOf(u)]' = [u \in Threads |-> LoanOf(u)]
  BY <1>1, LoanFunctionStable
<1>3. [u \in Threads |-> pc[u] # "idle"]' = [u \in Threads |-> pc[u] # "idle"]
  BY <1>1
<1>4. IsError(ctx'[t]) = FALSE
  BY <1>1 DEF IInv, TypeOK, IsError, Fresh
<1>5. \A u \in Threads \ {t} : ctx'[u] = ctx[u]
  BY <1>1 DEF IInv, TypeOK
<1>6. ASSUME NEW u \in Threads
      PROVE  IsError(ctx'[u]) = IF u = t THEN FALSE ELSE IsError(ctx[u])
  <2>1. CASE u = t
    BY <1>4, <2>1
  <2>2. CASE u # t
    BY <1>5, <2>2
  <2> QED
    BY <2>1, <2>2
<1>7. [u \in Threads |-> IsError(ctx[u])]'
      = [[u \in Threads |-> IsError(ctx[u])] EXCEPT ![t] = FALSE]
  BY <1>6
<1>8. ~ [u \in Threads |-> pc[u] # "idle"][t]
  BY <1>1
<1> QED
  BY <1>1, <1>2, <1>3, <1>7, <1>8 DEF Contract!Recover

\* Without an abandoned Aio, a dead stack address has no request, so that the
\* transfer that uses it next starts without a loan.
LEMMA RefinesBegin ==
  ASSUME IInv, ~abandoned, NEW t \in Threads, TransferBegin(t)
  PROVE  Contract!Enter(t)
<1>1. PICK f \in Frames :
        /\ aio[f] = "dead"
        /\ frame' = [frame EXCEPT ![t] = f]
        /\ aio' = [aio EXCEPT ![f] = "ready"]
  BY DEF TransferBegin
<1>2. /\ pc[t] = "idle"
      /\ pc' = [pc EXCEPT ![t] = "read"]
      /\ UNCHANGED <<ctx, sent, queue, abandoned>>
  BY DEF TransferBegin, Goto
<1>3. ~ \E r \in queue : r.aio = f
  BY <1>1 DEF IInv, BusyIffQueued
<1>4. ASSUME NEW u \in Threads PROVE LoanOf(u)' = LoanOf(u)
  <2>1. CASE u = t
    <3>1. frame[t] = NoFrame /\ frame'[t] = f /\ f # NoFrame /\ aio'[f] = "ready"
      BY <1>1, <1>2, AddressKinds DEF IInv, TypeOK
    <3>2. LoanOf(t) = "none" /\ LoanOf(t)' = "none"
      BY <1>2, <1>3, <3>1 DEF LoanOf, Outstanding
    <3> QED
      BY <2>1, <3>2
  <2>2. CASE u # t
    <3>1. frame'[u] = frame[u] /\ frame[u] # f
      BY <1>1, <2>2 DEF IInv, TypeOK
    <3>2. CASE frame[u] = NoFrame
      BY <3>1, <3>2 DEF LoanOf
    <3>3. CASE frame[u] # NoFrame
      <4>1. aio'[frame[u]] = aio[frame[u]]
        BY <1>1, <3>1, <3>3, AddressKinds DEF IInv, TypeOK
      <4> QED
        BY <1>2, <3>1, <4>1 DEF LoanOf, Outstanding
    <3> QED
      BY <3>2, <3>3
  <2> QED
    BY <2>1, <2>2
<1>5. [u \in Threads |-> LoanOf(u)]' = [u \in Threads |-> LoanOf(u)]
  BY <1>4
<1>6. [u \in Threads |-> pc[u] # "idle"]'
      = [[u \in Threads |-> pc[u] # "idle"] EXCEPT ![t] = TRUE]
  BY <1>2, InCallEnter DEF IInv
<1>7. [u \in Threads |-> IsError(ctx[u])]' = [u \in Threads |-> IsError(ctx[u])]
  BY <1>2
<1>8. ~ [u \in Threads |-> pc[u] # "idle"][t]
  BY <1>2
<1> QED
  BY <1>2, <1>5, <1>6, <1>7, <1>8 DEF Contract!Enter

LEMMA RefinesCallerStep ==
  ASSUME IInv, ~abandoned, NEW t \in Threads, CallerStep(t)
  PROVE  Contract!Next \/ UNCHANGED Contract!vars
<1> USE DEF Contract!Next, Contract!ThreadStep
<1>1. CASE Read(t)
  BY <1>1, RefinesNotQueued, RefinesSubmitOwn DEF Read, read_implementation
<1>2. CASE Write(t)
  BY <1>2, RefinesNotQueued, RefinesSubmitOwn DEF Write, write_implementation
<1>3. CASE CancelRead(t) \/ CancelWrite(t) \/ Cancel(t)
  BY <1>3, RefinesCancel DEF CancelRead, CancelWrite, Cancel
<1>4. CASE ResetError(t)
  BY <1>4, RefinesResetError
<1>5. CASE TransferBegin(t)
  BY <1>5, RefinesBegin
<1> QED
  BY <1>1, <1>2, <1>3, <1>4, <1>5 DEF CallerStep

-----------------------------------------------------------------------------
(***************************************************************************)
(* The steps of transfer, before anything is abandoned.                    *)
(***************************************************************************)

\* The destination is lent when the driver takes the read.
LEMMA RefinesRead ==
  ASSUME IInv, ~abandoned, NEW t \in Threads, TransferRead(t)
  PROVE  Contract!Fault(t) \/ Contract!Lend(t) \/ UNCHANGED Contract!vars
<1>1. /\ pc[t] = "read"
      /\ pc' = [pc EXCEPT ![t] = "write"]
      /\ UNCHANGED <<frame, sent, abandoned>>
  BY DEF TransferRead, Goto
<1>2. [u \in Threads |-> pc[u] # "idle"]' = [u \in Threads |-> pc[u] # "idle"]
  BY <1>1, InCallStay DEF IInv
<1>3. CASE Skipped(t)
  <2>1. UNCHANGED <<ctx, aio, queue>>
    BY <1>3 DEF Skipped
  <2>2. [u \in Threads |-> LoanOf(u)]' = [u \in Threads |-> LoanOf(u)]
    BY <1>1, <2>1, LoanFunctionStable
  <2>3. [u \in Threads |-> IsError(ctx[u])]' = [u \in Threads |-> IsError(ctx[u])]
    BY <2>1
  <2> QED
    BY <1>1, <1>2, <2>2, <2>3 DEF Contract!vars
<1>4. CASE Refused(t)
  <2>1. UNCHANGED <<aio, queue>> /\ ctx' = [ctx EXCEPT ![t] = Failed]
    BY <1>4 DEF Refused
  <2>2. [u \in Threads |-> LoanOf(u)]' = [u \in Threads |-> LoanOf(u)]
    BY <1>1, <2>1, LoanFunctionStable
  <2>3. [u \in Threads |-> IsError(ctx[u])]'
        = [[u \in Threads |-> IsError(ctx[u])] EXCEPT ![t] = TRUE]
    BY <2>1, FailedMapped DEF IInv
  <2> QED
    BY <1>1, <1>2, <2>2, <2>3 DEF Contract!Fault
<1>5. CASE Queued(t, frame[t], 0, "DATA_READY")
  <2>1. PICK s \in Slots :
            queue' = queue \cup
              {[slot |-> s, aio |-> frame[t], channel |-> 0, event |-> "DATA_READY"]}
    BY <1>5 DEF Queued
  <2>2. /\ aio' = [aio EXCEPT ![frame[t]] = "busy"]
        /\ ctx' = [ctx EXCEPT ![t] = Fresh]
        /\ ~IsError(ctx[t])
    BY <1>5 DEF Queued
  <2>3. frame[t] \in Frames /\ frame[t] # NoFrame /\ aio[frame[t]] = "ready"
    BY <1>1, AddressKinds DEF IInv, TypeOK, ReadBeforeWrite
  <2>4. ~ \E r \in queue : r.aio = frame[t]
    BY <2>3 DEF IInv, BusyIffQueued
  <2>5. LoanOf(t) = "none"
    BY <2>3, <2>4 DEF LoanOf, Outstanding
  <2>6. LoanOf(t)' = "lent"
    <3> DEFINE new == [slot |-> s, aio |-> frame[t], channel |-> 0, event |-> "DATA_READY"]
    <3>1. new \in queue' /\ new.aio = frame'[t]
      BY <1>1, <2>1
    <3>2. \E r \in queue' : r.aio = frame'[t]
      BY <3>1
    <3> QED
      BY <1>1, <2>3, <3>2 DEF LoanOf, Outstanding
  <2>7. ASSUME NEW u \in Threads, u # t PROVE LoanOf(u)' = LoanOf(u)
    <3>1. frame[u] # frame[t]
      BY <2>3, <2>7 DEF IInv, TypeOK
    <3>2. CASE frame[u] = NoFrame
      BY <1>1, <3>2 DEF LoanOf
    <3>3. CASE frame[u] # NoFrame
      <4>1. aio'[frame[u]] = aio[frame[u]]
        BY <2>2, <3>1, <3>3, AddressKinds DEF IInv, TypeOK
      <4>2. (\E r \in queue' : r.aio = frame[u]) <=> (\E r \in queue : r.aio = frame[u])
        BY <2>1, <3>1
      <4> QED
        BY <1>1, <3>3, <4>1, <4>2 DEF LoanOf, Outstanding
    <3> QED
      BY <3>2, <3>3
  <2>8. [u \in Threads |-> LoanOf(u)]'
        = [[u \in Threads |-> LoanOf(u)] EXCEPT ![t] = "lent"]
    BY <2>6, <2>7
  <2>9. [u \in Threads |-> IsError(ctx[u])]' = [u \in Threads |-> IsError(ctx[u])]
    BY <2>2, FreshStable DEF IInv
  <2>10. [u \in Threads |-> pc[u] # "idle"][t]
    BY <1>1
  <2>11. ~ [u \in Threads |-> IsError(ctx[u])][t]
    BY <2>2
  <2>12. [u \in Threads |-> LoanOf(u)][t] = "none"
    BY <2>5
  <2> QED
    BY <1>1, <1>2, <2>8, <2>9, <2>10, <2>11, <2>12 DEF Contract!Lend
<1> QED
  BY <1>3, <1>4, <1>5 DEF TransferRead, read_implementation

\* The source is sent when the destination has been lent, or is back already.
LEMMA RefinesWrite ==
  ASSUME IInv, ~abandoned, NEW t \in Threads, TransferWrite(t)
  PROVE  Contract!Fault(t) \/ Contract!Send(t) \/ UNCHANGED Contract!vars
<1>1. /\ pc[t] = "write"
      /\ pc' = [pc EXCEPT ![t] = "poll"]
      /\ UNCHANGED <<frame, abandoned>>
  BY DEF TransferWrite, Goto
<1>2. [u \in Threads |-> pc[u] # "idle"]' = [u \in Threads |-> pc[u] # "idle"]
  BY <1>1, InCallStay DEF IInv
<1>3. UNCHANGED <<aio, queue>>
  BY DEF TransferWrite, Skipped, Refused
<1>4. [u \in Threads |-> LoanOf(u)]' = [u \in Threads |-> LoanOf(u)]
  BY <1>1, <1>3, LoanFunctionStable
<1>5. CASE Skipped(t) /\ UNCHANGED sent
  <2>1. ctx' = ctx
    BY <1>5 DEF Skipped
  <2>2. [u \in Threads |-> IsError(ctx[u])]' = [u \in Threads |-> IsError(ctx[u])]
    BY <2>1
  <2> QED
    BY <1>1, <1>2, <1>4, <1>5, <2>2 DEF Contract!vars
<1>6. CASE Refused(t) /\ UNCHANGED sent
  <2>1. [u \in Threads |-> IsError(ctx[u])]'
        = [[u \in Threads |-> IsError(ctx[u])] EXCEPT ![t] = TRUE]
    BY <1>6, FailedMapped DEF Refused, IInv
  <2> QED
    BY <1>1, <1>2, <1>4, <1>6, <2>1 DEF Contract!Fault
<1>7. CASE /\ ~IsError(ctx[t])
           /\ ctx' = [ctx EXCEPT ![t] = Fresh]
           /\ sent' = [sent EXCEPT ![t] = TRUE]
  <2>1. aio[frame[t]] # "ready" /\ frame[t] # NoFrame /\ ~sent[t]
    BY <1>1, <1>7 DEF IInv, TypeOK, ReadBeforeWrite
  <2>2. LoanOf(t) # "none"
    BY <2>1 DEF LoanOf
  <2>3. [u \in Threads |-> LoanOf(u)][t] # "none"
    BY <2>2
  <2>4. [u \in Threads |-> IsError(ctx[u])]' = [u \in Threads |-> IsError(ctx[u])]
    BY <1>7, FreshStable DEF IInv
  <2>5. [u \in Threads |-> pc[u] # "idle"][t]
    BY <1>1
  <2>6. ~ [u \in Threads |-> IsError(ctx[u])][t]
    BY <1>7
  <2> QED
    BY <1>1, <1>2, <1>4, <1>7, <2>1, <2>3, <2>4, <2>5, <2>6 DEF Contract!Send
<1> QED
  BY <1>5, <1>6, <1>7 DEF TransferWrite

\* The contract does not see the loop go round.
LEMMA RefinesLoop ==
  ASSUME IInv, NEW t \in Threads, TransferPoll(t) \/ TransferWait(t)
  PROVE  UNCHANGED Contract!vars
<1>1. /\ pc[t] # "idle"
      /\ \/ pc' = [pc EXCEPT ![t] = "poll"]
         \/ pc' = [pc EXCEPT ![t] = "wait"]
      /\ UNCHANGED <<ctx, frame, sent, aio, queue, abandoned>>
  BY DEF TransferPoll, TransferWait, Goto
<1>2. [u \in Threads |-> pc[u] # "idle"]' = [u \in Threads |-> pc[u] # "idle"]
  BY <1>1, InCallStay DEF IInv
<1>3. [u \in Threads |-> LoanOf(u)]' = [u \in Threads |-> LoanOf(u)]
  BY <1>1, LoanFunctionStable
<1>4. [u \in Threads |-> IsError(ctx[u])]' = [u \in Threads |-> IsError(ctx[u])]
  BY <1>1
<1> QED
  BY <1>1, <1>2, <1>3, <1>4 DEF Contract!vars

\* The loop ends with an error, or with the source sent and the answer there.
LEMMA RefinesReturn ==
  ASSUME IInv, ~abandoned, NEW t \in Threads, TransferReturn(t)
  PROVE  Contract!Succeed(t) \/ Contract!Fail(t)
<1>1. /\ pc[t] = "poll"
      /\ ~(aio[frame[t]] = "busy" /\ ~IsError(ctx[t]))
      /\ pc' = [pc EXCEPT ![t] = "idle"]
      /\ abandoned' = (abandoned \/ Outstanding(frame[t]))
      /\ aio' = [aio EXCEPT ![frame[t]] = "dead"]
      /\ frame' = [frame EXCEPT ![t] = NoFrame]
      /\ sent' = [sent EXCEPT ![t] = FALSE]
      /\ UNCHANGED <<ctx, queue>>
  BY DEF TransferReturn, Goto, KeepWaiting
<1>2. frame[t] \in Frames /\ frame[t] # NoFrame
  BY <1>1, AddressKinds DEF IInv, TypeOK
<1>3. LoanOf(t)' = "none"
  BY <1>1 DEF IInv, TypeOK, LoanOf
<1>4. ASSUME NEW u \in Threads, u # t PROVE LoanOf(u)' = LoanOf(u)
  <2>1. frame'[u] = frame[u] /\ frame[u] # frame[t]
    BY <1>1, <1>2, <1>4 DEF IInv, TypeOK
  <2>2. CASE frame[u] = NoFrame
    BY <2>1, <2>2 DEF LoanOf
  <2>3. CASE frame[u] # NoFrame
    <3>1. aio'[frame[u]] = aio[frame[u]]
      BY <1>1, <2>1, <2>3, AddressKinds DEF IInv, TypeOK
    <3> QED
      BY <1>1, <2>1, <3>1 DEF LoanOf, Outstanding
  <2> QED
    BY <2>2, <2>3
<1>5. [u \in Threads |-> LoanOf(u)]'
      = [[u \in Threads |-> LoanOf(u)] EXCEPT ![t] = "none"]
  BY <1>3, <1>4
<1>6. [u \in Threads |-> pc[u] # "idle"]'
      = [[u \in Threads |-> pc[u] # "idle"] EXCEPT ![t] = FALSE]
  BY <1>1, InCallLeave DEF IInv
<1>7. [u \in Threads |-> IsError(ctx[u])]' = [u \in Threads |-> IsError(ctx[u])]
  BY <1>1
<1>8. [u \in Threads |-> pc[u] # "idle"][t]
  BY <1>1
<1>9. Contract!Leave(t)
  BY <1>1, <1>5, <1>6, <1>7, <1>8 DEF Contract!Leave
<1>10. Outstanding(frame[t]) <=> LoanOf(t) = "lent"
  BY <1>2 DEF LoanOf
<1>11. CASE IsError(ctx[t])
  <2>1. [u \in Threads |-> IsError(ctx[u])][t]
    BY <1>11
  <2>2. Outstanding(frame[t]) <=> [u \in Threads |-> LoanOf(u)][t] = "lent"
    BY <1>10
  <2>3. abandoned' = (abandoned \/ [u \in Threads |-> LoanOf(u)][t] = "lent")
    <3>1. CASE Outstanding(frame[t])
      BY <1>1, <2>2, <3>1
    <3>2. CASE ~Outstanding(frame[t])
      BY <1>1, <2>2, <3>2
    <3> QED
      BY <3>1, <3>2
  <2> QED
    BY <1>9, <2>1, <2>3 DEF Contract!Fail
<1>12. CASE ~IsError(ctx[t])
  <2>1. aio[frame[t]] # "busy" /\ aio[frame[t]] # "ready" /\ sent[t]
    BY <1>1, <1>12 DEF IInv, ReadBeforeWrite
  <2>2. ~Outstanding(frame[t])
    BY <2>1 DEF IInv, BusyIffQueued, Outstanding
  <2>3. LoanOf(t) = "returned"
    BY <1>2, <2>1, <2>2 DEF LoanOf
  <2>4. abandoned' = abandoned
    BY <1>1, <2>2 DEF IInv, TypeOK
  <2>5. ~ [u \in Threads |-> IsError(ctx[u])][t]
    BY <1>12
  <2>6. [u \in Threads |-> LoanOf(u)][t] = "returned"
    BY <2>3
  <2> QED
    BY <1>9, <2>1, <2>4, <2>5, <2>6 DEF Contract!Succeed
<1> QED
  BY <1>11, <1>12

LEMMA RefinesTransferStep ==
  ASSUME IInv, ~abandoned, NEW t \in Threads, TransferStep(t)
  PROVE  Contract!Next \/ UNCHANGED Contract!vars
  BY RefinesRead, RefinesWrite, RefinesLoop, RefinesReturn
  DEF TransferStep, Contract!Next, Contract!ThreadStep

-----------------------------------------------------------------------------
\* What was abandoned stays abandoned.
LEMMA AbandonedForEver ==
  ASSUME IInv, abandoned, [Next]_vars
  PROVE  abandoned'
  BY DEF Next, CallerStep, TransferStep, Complete, Read, Write, CancelRead,
         CancelWrite, Cancel, ResetError, TransferBegin, TransferRead,
         TransferWrite, TransferPoll, TransferWait, TransferReturn, threadVars,
         vars, IInv, TypeOK

LEMMA RefinesNext ==
  ASSUME IInv, [Next]_vars
  PROVE  Contract!Next \/ UNCHANGED Contract!vars
<1>1. CASE abandoned
  BY <1>1, AbandonedForEver DEF Contract!Next, Contract!Undefined
<1>2. CASE ~abandoned
  <2>1. CASE UNCHANGED vars
    <3>1. UNCHANGED <<ctx, pc, frame, sent, aio, queue, abandoned>>
      BY <2>1 DEF vars
    <3>2. [u \in Threads |-> LoanOf(u)]' = [u \in Threads |-> LoanOf(u)]
      BY <3>1, LoanFunctionStable
    <3>3. [u \in Threads |-> pc[u] # "idle"]' = [u \in Threads |-> pc[u] # "idle"]
      BY <3>1
    <3>4. [u \in Threads |-> IsError(ctx[u])]' = [u \in Threads |-> IsError(ctx[u])]
      BY <3>1
    <3> QED
      BY <3>1, <3>2, <3>3, <3>4 DEF Contract!vars
  <2>2. CASE Next
    BY <1>2, <2>2, RefinesCallerStep, RefinesTransferStep, RefinesComplete DEF Next
  <2> QED
    BY <2>1, <2>2
<1> QED
  BY <1>1, <1>2

\* Device implements the contract of transfer (ImplementsContract): a transfer
\* sends its source only once the driver holds its read, and one that leaves
\* without an error has sent its source and got its destination back.
THEOREM Refinement == Spec => ImplementsContract
<1>1. Init => Contract!Init
  BY RefinesInit
<1>2. IInv /\ [Next]_vars => [Contract!Next]_Contract!vars
  BY RefinesNext
<1> QED
  BY <1>1, <1>2, Invariance, PTL DEF Spec, ImplementsContract, Contract!Spec

-----------------------------------------------------------------------------
(***************************************************************************)
(* Who breaks the comment of Device.cpp:48, and what the loop waits for.   *)
(***************************************************************************)

\* Only a transfer that returns can abandon an Aio, its own.
LEMMA AbandonedByReturn ==
  ASSUME TypeOK, [Next]_vars, ~abandoned, abandoned'
  PROVE  \E t \in Threads : TransferReturn(t) /\ Outstanding(frame[t])
  BY DEF Next, CallerStep, TransferStep, Complete, Read, Write, CancelRead,
         CancelWrite, Cancel, ResetError, TransferBegin, TransferRead,
         TransferWrite, TransferPoll, TransferWait, TransferReturn, threadVars,
         vars, TypeOK

\* The transfer that abandons its Aio has failed to send its source, and the
\* driver is still busy with its read (OnlyFailedWriteAbandons).
THEOREM OnlyFailedWrite == Spec => OnlyFailedWriteAbandons
<1>1. ASSUME IInv, [Next]_vars, ~abandoned, abandoned'
      PROVE  \E t \in Threads :
                /\ pc[t] = "poll" /\ pc'[t] = "idle"
                /\ IsError(ctx[t]) /\ ~sent[t]
                /\ aio[frame[t]] = "busy"
  <2>1. PICK t \in Threads : TransferReturn(t) /\ Outstanding(frame[t])
    BY <1>1, AbandonedByReturn DEF IInv
  <2>2. /\ pc[t] = "poll" /\ pc'[t] = "idle"
        /\ ~(aio[frame[t]] = "busy" /\ ~IsError(ctx[t]))
    BY <1>1, <2>1 DEF TransferReturn, Goto, KeepWaiting, IInv, TypeOK
  <2>3. aio[frame[t]] = "busy"
    BY <1>1, <2>1 DEF IInv, BusyIffQueued, Outstanding
  <2>4. IsError(ctx[t]) /\ ~sent[t]
    BY <2>2, <2>3, <1>1 DEF IInv, ReadBeforeWrite
  <2> QED
    BY <2>2, <2>3, <2>4
<1>2. IInv /\ [Next]_vars =>
        [~abandoned /\ abandoned' =>
            \E t \in Threads :
                /\ pc[t] = "poll" /\ pc'[t] = "idle"
                /\ IsError(ctx[t]) /\ ~sent[t]
                /\ aio[frame[t]] = "busy"]_vars
  BY <1>1
<1> QED
  BY <1>2, Invariance, PTL DEF Spec, OnlyFailedWriteAbandons

\* A request makes one Aio busy: the caller's own, or the one in the frame of
\* a transfer that has not polled yet.
LEMMA OnlyOwnerMakesBusy ==
  ASSUME TypeOK, [Next]_vars, NEW f \in Frames, aio[f] # "busy", aio'[f] = "busy"
  PROVE  \E u \in Threads : pc[u] = "read" /\ frame[u] = f
<1> USE AddressKinds
<1>1. \A a \in Addresses : a = f <=> a \in Frames /\ a = f
  OBVIOUS
<1>2. ASSUME NEW requests, Conclude(requests) PROVE FALSE
  BY <1>2 DEF Conclude
<1>3. ASSUME UNCHANGED aio PROVE FALSE
  BY <1>3
<1>4. ASSUME NEW u \in Threads, NEW channel, NEW event,
             Queued(u, u, channel, event)
      PROVE  FALSE
  BY <1>4 DEF Queued, TypeOK
<1>5. ASSUME NEW u \in Threads, CallerStep(u) PROVE FALSE
  <2>1. CASE Read(u) \/ Write(u)
    BY <2>1, <1>3, <1>4
    DEF Read, Write, read_implementation, write_implementation, Skipped, Refused
  <2>2. CASE CancelRead(u) \/ CancelWrite(u) \/ Cancel(u)
    BY <2>2, <1>2, <1>3
    DEF CancelRead, CancelWrite, Cancel, cancel_implementation, Skipped, Refused
  <2>3. CASE ResetError(u)
    BY <2>3, <1>3 DEF ResetError
  <2>4. CASE TransferBegin(u)
    BY <2>4 DEF TransferBegin, TypeOK
  <2> QED
    BY <1>5, <2>1, <2>2, <2>3, <2>4 DEF CallerStep
<1>6. ASSUME NEW u \in Threads, TransferStep(u)
      PROVE  pc[u] = "read" /\ frame[u] = f
  <2>1. CASE TransferRead(u)
    <3>1. Queued(u, frame[u], 0, "DATA_READY") /\ pc[u] = "read"
      BY <2>1, <1>3 DEF TransferRead, read_implementation, Skipped, Refused
    <3> QED
      BY <3>1 DEF Queued, TypeOK
  <2>2. CASE TransferWrite(u) \/ TransferPoll(u) \/ TransferWait(u)
    BY <2>2, <1>3 DEF TransferWrite, TransferPoll, TransferWait, Skipped, Refused
  <2>3. CASE TransferReturn(u)
    BY <2>3 DEF TransferReturn, TypeOK
  <2> QED
    BY <1>6, <2>1, <2>2, <2>3 DEF TransferStep
<1>7. ASSUME NEW r \in queue, Complete(r) PROVE FALSE
  BY <1>7, <1>2 DEF Complete
<1>8. ASSUME UNCHANGED vars PROVE FALSE
  BY <1>8, <1>3 DEF vars
<1> QED
  BY <1>5, <1>6, <1>7, <1>8 DEF Next

\* A transfer that polls or waits goes on to poll or wait with the same Aio,
\* or leaves the function.
LEMMA LoopOrLeave ==
  ASSUME TypeOK, [Next]_vars, NEW t \in Threads, pc[t] \in {"poll", "wait"}
  PROVE  \/ pc'[t] = "idle"
         \/ pc'[t] \in {"poll", "wait"} /\ frame'[t] = frame[t]
<1>1. ASSUME NEW u \in Threads, CallerStep(u)
      PROVE  pc'[t] = pc[t] /\ frame'[t] = frame[t]
  BY <1>1 DEF CallerStep, Read, Write, CancelRead, CancelWrite, Cancel,
              ResetError, TransferBegin, threadVars, Goto, TypeOK
<1>2. ASSUME NEW u \in Threads, TransferStep(u), u # t
      PROVE  pc'[t] = pc[t] /\ frame'[t] = frame[t]
  BY <1>2 DEF TransferStep, TransferRead, TransferWrite, TransferPoll,
              TransferWait, TransferReturn, Goto, TypeOK
<1>3. ASSUME TransferStep(t)
      PROVE  \/ pc'[t] = "idle"
             \/ pc'[t] \in {"poll", "wait"} /\ frame'[t] = frame[t]
  BY <1>3 DEF TransferStep, TransferRead, TransferWrite, TransferPoll,
              TransferWait, TransferReturn, Goto, TypeOK
<1>4. ASSUME NEW r \in queue, Complete(r)
      PROVE  pc'[t] = pc[t] /\ frame'[t] = frame[t]
  BY <1>4 DEF Complete, threadVars
<1>5. CASE UNCHANGED vars
  BY <1>5 DEF vars
<1> QED
  BY <1>1, <1>2, <1>3, <1>4, <1>5 DEF Next

\* The answer that ends the loop of transfer_implementation stays until the
\* loop sees it (AnswerStays), also after another transfer abandoned its Aio:
\* with a driver that concludes every request and a thread that is scheduled,
\* this is what makes a transfer return.
THEOREM AnswerIsSeen == Spec => AnswerStays
<1>1. ASSUME IInv, [Next]_vars, NEW t \in Threads, pc[t] \in {"poll", "wait"},
             aio[frame[t]] # "busy", pc'[t] # "idle"
      PROVE  /\ pc'[t] \in {"poll", "wait"}
             /\ frame'[t] = frame[t]
             /\ aio'[frame[t]] # "busy"
  <2>1. TypeOK /\ frame[t] \in Frames
    BY <1>1, AddressKinds DEF IInv, TypeOK
  <2>2. pc'[t] \in {"poll", "wait"} /\ frame'[t] = frame[t]
    BY <1>1, <2>1, LoopOrLeave
  <2>3. ASSUME aio'[frame[t]] = "busy" PROVE FALSE
    <3>1. PICK u \in Threads : pc[u] = "read" /\ frame[u] = frame[t]
      BY <1>1, <2>1, <2>3, OnlyOwnerMakesBusy
    <3>2. u = t
      BY <2>1, <3>1, AddressKinds DEF TypeOK
    <3> QED
      BY <1>1, <3>1, <3>2
  <2> QED
    BY <2>2, <2>3
<1>2. IInv /\ [Next]_vars =>
        [\A t \in Threads :
            /\ pc[t] \in {"poll", "wait"}
            /\ aio[frame[t]] # "busy"
            /\ pc'[t] # "idle"
            => /\ pc'[t] \in {"poll", "wait"}
               /\ frame'[t] = frame[t]
               /\ aio'[frame[t]] # "busy"]_vars
  BY <1>1
<1> QED
  BY <1>2, Invariance, PTL DEF Spec, AnswerStays

\* Until a transfer has failed in that way, the driver never holds a pointer
\* to an Aio that is out of scope (AioOutlivesRead).
THEOREM AioOutlivesUntilAbandoned == Spec => [](~abandoned => AioOutlivesRead)
<1>1. IInv => (~abandoned => AioOutlivesRead)
  BY DEF IInv, TypeOK, BusyIffQueued, AioOutlivesRead, Request
<1> QED
  BY <1>1, Invariance, PTL

=============================================================================
