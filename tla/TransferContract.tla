-------------------------- MODULE TransferContract --------------------------
(***************************************************************************)
(* What a caller of Device::transfer may rely on, without steps of         *)
(* control or request queues.                                              *)
(*                                                                         *)
(* A transfer sends a source and waits for the device to answer in a       *)
(* destination.  While the device holds the destination it is on loan.     *)
(* The contract:                                                           *)
(*   - the source is sent only once the device has accepted the loan, so   *)
(*     that no answer to it can be missed;                                 *)
(*   - a transfer that leaves without an error has sent its source and     *)
(*     has the destination back (filled, or given back by a cancel);       *)
(*   - a transfer in error may leave at any time, also while its           *)
(*     destination is on loan.  From then on the device writes to memory   *)
(*     nobody keeps for it, the contract is broken, and nothing is         *)
(*     promised any more to anybody.                                       *)
(***************************************************************************)
CONSTANT Threads

VARIABLES
    inCall,   \* inCall[t]: thread t is inside transfer
    failed,   \* failed[t]: an error is pending in t's context
    loan,     \* loan[t]: where the destination of t's transfer is
    sent,     \* sent[t]: the device has taken the source of t's transfer
    broken    \* some transfer returned with its destination on loan

vars == <<inCall, failed, loan, sent, broken>>

Init ==
    /\ inCall = [t \in Threads |-> FALSE]
    /\ failed = [t \in Threads |-> FALSE]
    /\ loan = [t \in Threads |-> "none"]
    /\ sent = [t \in Threads |-> FALSE]
    /\ broken = FALSE

\* Some call of the thread fails, or the caller resets its context.
Fault(t) ==
    /\ failed' = [failed EXCEPT ![t] = TRUE]
    /\ UNCHANGED <<inCall, loan, sent, broken>>

Recover(t) ==
    /\ ~inCall[t]
    /\ failed' = [failed EXCEPT ![t] = FALSE]
    /\ UNCHANGED <<inCall, loan, sent, broken>>

Enter(t) ==
    /\ ~inCall[t]
    /\ inCall' = [inCall EXCEPT ![t] = TRUE]
    /\ UNCHANGED <<failed, loan, sent, broken>>

Lend(t) ==
    /\ inCall[t]
    /\ ~failed[t]
    /\ loan[t] = "none"
    /\ loan' = [loan EXCEPT ![t] = "lent"]
    /\ UNCHANGED <<inCall, failed, sent, broken>>

Send(t) ==
    /\ inCall[t]
    /\ ~failed[t]
    /\ loan[t] # "none"
    /\ ~sent[t]
    /\ sent' = [sent EXCEPT ![t] = TRUE]
    /\ UNCHANGED <<inCall, failed, loan, broken>>

\* The device is done with some of the buffers it holds.
GiveBack(S) ==
    /\ \A t \in S : loan[t] = "lent"
    /\ loan' = [t \in Threads |-> IF t \in S THEN "returned" ELSE loan[t]]
    /\ UNCHANGED <<inCall, failed, sent, broken>>

\* Leaving the call, with or without an error.
Leave(t) ==
    /\ inCall[t]
    /\ inCall' = [inCall EXCEPT ![t] = FALSE]
    /\ loan' = [loan EXCEPT ![t] = "none"]
    /\ sent' = [sent EXCEPT ![t] = FALSE]
    /\ UNCHANGED failed

Succeed(t) ==
    /\ ~failed[t]
    /\ loan[t] = "returned"
    /\ sent[t]
    /\ Leave(t)
    /\ UNCHANGED broken

Fail(t) ==
    /\ failed[t]
    /\ Leave(t)
    /\ broken' = (broken \/ loan[t] = "lent")

\* No promise is left once a destination was abandoned.
Undefined == broken /\ broken'

ThreadStep(t) ==
    \/ Fault(t) \/ Recover(t) \/ Enter(t) \/ Lend(t) \/ Send(t)
    \/ Succeed(t) \/ Fail(t)

Next ==
    \/ \E t \in Threads : ThreadStep(t)
    \/ \E S \in SUBSET Threads : GiveBack(S)
    \/ Undefined

Spec == Init /\ [][Next]_vars

=============================================================================
