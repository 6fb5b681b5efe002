------------------------------- MODULE Device -------------------------------
(***************************************************************************)
(* hal::DeviceObject: asynchronous reads and writes, cancelling them, and  *)
(* transfer, by several threads on one device file.                        *)
(*                                                                         *)
(* An asynchronous operation hands the driver a pointer to an fs::Aio.     *)
(* The driver keeps the pointer in its queue, and when it is done it       *)
(* writes through it.  A caller of read(aio) and write(aio) owns the Aio   *)
(* it passes; transfer puts one on its own stack, at an address that a     *)
(* later transfer, of this or another thread, may use again.               *)
(*                                                                         *)
(* Device::transfer is one action per call it makes, because the driver    *)
(* and the other threads run between them.                                 *)
(***************************************************************************)
EXTENDS FiniteSets, ExecutionContext

CONSTANTS
    Threads,    \* the threads using the file; t also names t's own fs::Aio
    Frames,     \* where on the stacks a transfer's fs::Aio can be
    NoFrame,    \* a thread that is not in transfer has no frame
    Slots,      \* the driver's queue entries
    Channels    \* the channels callers name, of type int

ASSUME FramesAssumption ==
    /\ NoFrame \notin Frames
    /\ Frames \cap Threads = {}

ASSUME ChannelsAssumption == Channels \subseteq Nat /\ 0 \in Channels

VARIABLES
    ctx,        \* ctx[t]: the error context of t
    pc,         \* pc[t]: the statement of transfer_implementation t is at
    frame,      \* frame[t]: the address of the fs::Aio of t's transfer
    sent,       \* sent[t]: file.write() has taken the source of t's transfer
    aio,        \* aio[a]: the state of the fs::Aio at address a
    queue,      \* the requests the driver still holds
    abandoned   \* history: a transfer returned while its read was queued

threadVars == <<pc, frame, sent, abandoned>>
vars == <<ctx, pc, frame, sent, aio, queue, abandoned>>

Addresses == Frames \cup Threads

Events == {"DATA_READY", "WRITE_COMPLETE"}

Request == [slot : Slots, aio : Addresses, channel : Channels, event : Events]

\* The action of cancel_implementation carries u8(channel).
U8(n) == n % 256

Init ==
    /\ ctx = [t \in Threads |-> Fresh]
    /\ pc = [t \in Threads |-> "idle"]
    /\ frame = [t \in Threads |-> NoFrame]
    /\ sent = [t \in Threads |-> FALSE]
    /\ aio = [a \in Addresses |-> IF a \in Frames THEN "dead" ELSE "ready"]
    /\ queue = {}
    /\ abandoned = FALSE

-----------------------------------------------------------------------------
(***************************************************************************)
(* System calls.  Each is skipped when an error is pending, may fail, or   *)
(* takes effect.                                                           *)
(***************************************************************************)
Skipped(t) ==
    /\ IsError(ctx[t])
    /\ UNCHANGED <<ctx, aio, queue>>

Refused(t) ==
    /\ ~IsError(ctx[t])
    /\ ctx' = [ctx EXCEPT ![t] = Failed]
    /\ UNCHANGED <<aio, queue>>

\* The driver takes a request for the fs::Aio at address a.
Queued(t, a, channel, event) ==
    /\ ~IsError(ctx[t])
    /\ \E s \in Slots :
        /\ \A r \in queue : r.slot # s
        /\ queue' = queue \cup
            {[slot |-> s, aio |-> a, channel |-> channel, event |-> event]}
    /\ aio' = [aio EXCEPT ![a] = "busy"]
    /\ ctx' = [ctx EXCEPT ![t] = Fresh]

read_implementation(t, a, channel) ==
    \/ Skipped(t)
    \/ Refused(t)
    \/ Queued(t, a, channel, "DATA_READY")

write_implementation(t, a, channel) ==
    \/ Skipped(t)
    \/ Refused(t)
    \/ Queued(t, a, channel, "WRITE_COMPLETE")

\* The driver lets go of requests, writing the outcome through each pointer.
Conclude(requests) ==
    /\ queue' = queue \ requests
    /\ aio' = [a \in Addresses |->
                IF aio[a] # "dead" /\ \E r \in requests : r.aio = a
                THEN "done" ELSE aio[a]]

\* I_MCU_SETACTION without a handler cancels what is queued for the event.
cancel_implementation(t, channel, events) ==
    \/ Skipped(t)
    \/ Refused(t)
    \/ /\ ~IsError(ctx[t])
       /\ Conclude({r \in queue : r.channel = U8(channel) /\ r.event \in events})
       /\ ctx' = [ctx EXCEPT ![t] = Fresh]

-----------------------------------------------------------------------------
(***************************************************************************)
(* What a thread does outside of transfer.  A caller does not pass an Aio  *)
(* that is still busy to read() or write().                                *)
(***************************************************************************)
Read(t) ==
    /\ pc[t] = "idle"
    /\ aio[t] # "busy"
    /\ \E channel \in Channels : read_implementation(t, t, channel)
    /\ UNCHANGED threadVars

Write(t) ==
    /\ pc[t] = "idle"
    /\ aio[t] # "busy"
    /\ \E channel \in Channels : write_implementation(t, t, channel)
    /\ UNCHANGED threadVars

CancelRead(t) ==
    /\ pc[t] = "idle"
    /\ \E channel \in Channels :
        cancel_implementation(t, channel, {"DATA_READY"})
    /\ UNCHANGED threadVars

CancelWrite(t) ==
    /\ pc[t] = "idle"
    /\ \E channel \in Channels :
        cancel_implementation(t, channel, {"WRITE_COMPLETE"})
    /\ UNCHANGED threadVars

Cancel(t) ==
    /\ pc[t] = "idle"
    /\ \E channel \in Channels, events \in SUBSET Events :
        cancel_implementation(t, channel, events)
    /\ UNCHANGED threadVars

\* The caller has dealt with an error and resets its context.
ResetError(t) ==
    /\ pc[t] = "idle"
    /\ ctx' = [ctx EXCEPT ![t] = Fresh]
    /\ UNCHANGED <<threadVars, aio, queue>>

-----------------------------------------------------------------------------
(***************************************************************************)
(* Device::transfer.                                                       *)
(***************************************************************************)
Goto(t, next) == pc' = [pc EXCEPT ![t] = next]

\* A variant in which the Aio is static: nobody asks whether it is in use.
TransferBeginStatic(t) ==
    /\ pc[t] = "idle"
    /\ \E f \in Frames :
        /\ frame' = [frame EXCEPT ![t] = f]
        /\ aio' = [aio EXCEPT ![f] = "ready"]
    /\ Goto(t, "read")
    /\ UNCHANGED <<ctx, sent, queue, abandoned>>

\* fs::Aio aio(options.destination());
TransferBegin(t) ==
    /\ pc[t] = "idle"
    /\ \E f \in Frames :
        /\ aio[f] = "dead"
        /\ frame' = [frame EXCEPT ![t] = f]
        /\ aio' = [aio EXCEPT ![f] = "ready"]
    /\ Goto(t, "read")
    /\ UNCHANGED <<ctx, sent, queue, abandoned>>

\* read_implementation(file, aio); a new Aio is for channel 0.
TransferRead(t) ==
    /\ pc[t] = "read"
    /\ read_implementation(t, frame[t], 0)
    /\ Goto(t, "write")
    /\ UNCHANGED <<frame, sent, abandoned>>

\* A variant that writes the source although the read was refused.
TransferWriteAnyway(t) ==
    /\ pc[t] = "write"
    /\ \/ Refused(t) /\ UNCHANGED sent
       \/ /\ ctx' = [ctx EXCEPT ![t] = Fresh]
          /\ sent' = [sent EXCEPT ![t] = TRUE]
          /\ UNCHANGED <<aio, queue>>
    /\ Goto(t, "poll")
    /\ UNCHANGED <<frame, abandoned>>

\* file.write(options.source());
TransferWrite(t) ==
    /\ pc[t] = "write"
    /\ \/ /\ Skipped(t) \/ Refused(t)
          /\ UNCHANGED sent
       \/ /\ ~IsError(ctx[t])
          /\ ctx' = [ctx EXCEPT ![t] = Fresh]
          /\ sent' = [sent EXCEPT ![t] = TRUE]
          /\ UNCHANGED <<aio, queue>>
    /\ Goto(t, "poll")
    /\ UNCHANGED <<frame, abandoned>>

\* Variants of the loop condition: !is_success(), and without is_busy().
KeepWaitingInError(t) == aio[frame[t]] = "busy" /\ IsError(ctx[t])
KeepWaitingWhileOk(t) == ~IsError(ctx[t])

\* while (aio.is_busy() && is_success())
KeepWaiting(t) == aio[frame[t]] = "busy" /\ ~IsError(ctx[t])

TransferPoll(t) ==
    /\ pc[t] = "poll"
    /\ KeepWaiting(t)
    /\ Goto(t, "wait")
    /\ UNCHANGED <<ctx, frame, sent, aio, queue, abandoned>>

\* wait(200_microseconds);
TransferWait(t) ==
    /\ pc[t] = "wait"
    /\ Goto(t, "poll")
    /\ UNCHANGED <<ctx, frame, sent, aio, queue, abandoned>>

Outstanding(a) == \E r \in queue : r.aio = a

\* A variant that leaks the Aio.
TransferReturnLeaks(t) ==
    /\ pc[t] = "poll"
    /\ ~KeepWaiting(t)
    /\ frame' = [frame EXCEPT ![t] = NoFrame]
    /\ sent' = [sent EXCEPT ![t] = FALSE]
    /\ Goto(t, "idle")
    /\ UNCHANGED <<ctx, aio, queue, abandoned>>

\* The loop ends, and with the function the life of its fs::Aio.
TransferReturn(t) ==
    /\ pc[t] = "poll"
    /\ ~KeepWaiting(t)
    /\ abandoned' = (abandoned \/ Outstanding(frame[t]))
    /\ aio' = [aio EXCEPT ![frame[t]] = "dead"]
    /\ frame' = [frame EXCEPT ![t] = NoFrame]
    /\ sent' = [sent EXCEPT ![t] = FALSE]
    /\ Goto(t, "idle")
    /\ UNCHANGED <<ctx, queue>>

TransferStep(t) ==
    \/ TransferRead(t) \/ TransferWrite(t)
    \/ TransferPoll(t) \/ TransferWait(t) \/ TransferReturn(t)

\* The driver has data for a read, or has taken the data of a write.
Complete(r) ==
    /\ Conclude({r})
    /\ UNCHANGED <<ctx, threadVars>>

-----------------------------------------------------------------------------
CallerStep(t) ==
    \/ Read(t) \/ Write(t)
    \/ CancelRead(t) \/ CancelWrite(t) \/ Cancel(t)
    \/ ResetError(t)
    \/ TransferBegin(t)

Next ==
    \/ \E t \in Threads : CallerStep(t) \/ TransferStep(t)
    \/ \E r \in queue : Complete(r)

Spec == Init /\ [][Next]_vars

(***************************************************************************)
(* A thread inside transfer is scheduled, and the driver concludes every   *)
(* request in the end.  Nothing obliges a caller to start a call.          *)
(***************************************************************************)
Fairness ==
    /\ \A t \in Threads : WF_vars(TransferStep(t))
    /\ \A s \in Slots : WF_vars(\E r \in queue : r.slot = s /\ Complete(r))

FairSpec == Spec /\ Fairness

-----------------------------------------------------------------------------
(***************************************************************************)
(* Properties.                                                             *)
(***************************************************************************)

\* The types of the variables, and who owns which address: a thread has a
\* frame exactly while it is in transfer_implementation, no two threads share
\* one, and a stack address is alive exactly while it is some thread's frame.
TypeOK ==
    /\ ctx \in [Threads -> {Failed, Fresh}]
    /\ pc \in [Threads -> {"idle", "read", "write", "poll", "wait"}]
    /\ frame \in [Threads -> Frames \cup {NoFrame}]
    /\ sent \in [Threads -> BOOLEAN]
    /\ aio \in [Addresses -> {"dead", "ready", "busy", "done"}]
    /\ queue \subseteq Request
    /\ abandoned \in BOOLEAN
    /\ \A t \in Threads : frame[t] = NoFrame <=> pc[t] = "idle"
    /\ \A t, u \in Threads : frame[t] = frame[u] => t = u \/ frame[t] = NoFrame
    /\ \A f \in Frames : aio[f] # "dead" <=> \E t \in Threads : frame[t] = f
    /\ \A t \in Threads : aio[t] # "dead"

\* Until a transfer abandons its Aio, an Aio is busy exactly while the driver
\* holds its one request: what the loop of transfer_implementation waits for
\* is the answer to its own read, whatever other threads read, write and
\* cancel, and no request points to a dead Aio.
BusyIffQueued ==
    /\ \A a \in Addresses : aio[a] = "busy" => Outstanding(a)
    /\ ~abandoned => /\ \A r \in queue : aio[r.aio] = "busy"
                     /\ \A r, s \in queue : r.aio = s.aio => r = s

\* Without an abandoned Aio, transfer has sent its source only after the
\* driver took its read, and by the time it polls it has an error or has done
\* both, never the two (the order of Device.cpp:45 and 46).
ReadBeforeWrite ==
    \A t \in Threads :
        /\ pc[t] \in {"idle", "read", "write"} => ~sent[t]
        /\ pc[t] \in {"poll", "wait"} /\ ~IsError(ctx[t]) => sent[t]
        /\ pc[t] \in {"poll", "wait"} /\ IsError(ctx[t]) => ~sent[t]
        /\ pc[t] = "read" /\ ~abandoned => aio[frame[t]] = "ready"
        /\ /\ pc[t] \in {"write", "poll", "wait"}
           /\ ~abandoned
           /\ ~IsError(ctx[t]) \/ sent[t]
           => aio[frame[t]] # "ready"

\* The inductive invariant of Spec.
IInv == TypeOK /\ BusyIffQueued /\ ReadBeforeWrite

\* Device.cpp:48, "aio must live until the read completes -- or big problems
\* will happen": no request of the driver points to a dead Aio.
AioOutlivesRead == \A r \in queue : aio[r.aio] # "dead"

\* There is one way to break that comment: the driver took the read of a
\* transfer, its file.write() failed, and the driver still holds the read when
\* the loop condition, which asks for the error as well, ends the loop.  No
\* call of another thread, and no cancel, makes a transfer leave its Aio.
OnlyFailedWriteAbandons ==
    [][~abandoned /\ abandoned' =>
        \E t \in Threads :
            /\ pc[t] = "poll" /\ pc'[t] = "idle"
            /\ IsError(ctx[t]) /\ ~sent[t]
            /\ aio[frame[t]] = "busy"]_vars

\* What the loop of transfer_implementation waits for stays there: an Aio that
\* has its answer is not busy again before the transfer returns, not even once
\* another transfer has abandoned its own.
AnswerStays ==
    [][\A t \in Threads :
        /\ pc[t] \in {"poll", "wait"}
        /\ aio[frame[t]] # "busy"
        /\ pc'[t] # "idle"
        => /\ pc'[t] \in {"poll", "wait"}
           /\ frame'[t] = frame[t]
           /\ aio'[frame[t]] # "busy"]_vars

\* A transfer returns, provided the driver concludes every request.
TransferReturns == \A t \in Threads : pc[t] # "idle" ~> pc[t] = "idle"

(***************************************************************************)
(* The contract of transfer, implemented.                                  *)
(***************************************************************************)
LoanOf(t) ==
    IF frame[t] = NoFrame THEN "none"
    ELSE IF Outstanding(frame[t]) THEN "lent"
    ELSE IF aio[frame[t]] = "ready" THEN "none"
    ELSE "returned"

Contract == INSTANCE TransferContract WITH
    inCall <- [t \in Threads |-> pc[t] # "idle"],
    failed <- [t \in Threads |-> IsError(ctx[t])],
    loan <- [t \in Threads |-> LoanOf(t)],
    broken <- abandoned

\* Every step of the code is a step of the contract, or none: in particular a
\* transfer that reports success has sent its source and has its buffer back.
ImplementsContract == Contract!Spec

=============================================================================
