------------------------------ MODULE Context ------------------------------
(***************************************************************************)
(* The threads of an application and their error contexts, which the calls *)
(* to all its devices share: a request is skipped while an error of        *)
(* another device is pending.                                              *)
(***************************************************************************)
EXTENDS ExecutionContext

CONSTANT Threads

VARIABLE ctx    \* ctx[t]: the error context of t

ContextOK == ctx \in [Threads -> {Failed, Fresh}]

\* A request is skipped or refused, or the driver takes it.
NotDone(t) == ctx' = [ctx EXCEPT ![t] = Failed]

Done(t) == ~IsError(ctx[t]) /\ ctx' = [ctx EXCEPT ![t] = Fresh]

\* A request whose effect is of no account here.
Requested(t) == NotDone(t) \/ Done(t)

\* The caller has dealt with an error.
Reset(t) == ctx' = [ctx EXCEPT ![t] = Fresh]

=============================================================================
