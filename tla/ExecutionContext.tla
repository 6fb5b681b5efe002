-------------------------- MODULE ExecutionContext --------------------------
(***************************************************************************)
(* The error context that every HalAPI call runs in.                       *)
(*                                                                         *)
(* hal::DeviceObject derives from api::ExecutionContext, which belongs to  *)
(* the API framework and is not in this repository.  It is modelled from   *)
(* how the code here relies on it:                                         *)
(*   - each thread has one context, the result of its last system call;    *)
(*   - a negative result is an error, and it is sticky: every later call   *)
(*     of the thread is skipped (API_RETURN_IF_ERROR, Device.cpp:10 and    *)
(*     16) until the caller resets the context;                            *)
(*   - return_value() reads the context back (Drive.cpp:45, I2C.cpp:52),   *)
(*     also when the call it follows has been skipped.                     *)
(* A context is therefore just an integer.                                 *)
(***************************************************************************)
EXTENDS Integers

\* What a system call that fails leaves in the context.
Failed == -1

\* A context in which nothing has gone wrong yet.
Fresh == 0

\* is_error(), the negation of is_success().
IsError(context) == context < 0

(***************************************************************************)
(* The context after a file or device call that would return a value of    *)
(* results: unchanged if the call is skipped, otherwise what it returned.  *)
(***************************************************************************)
After(context, results) ==
    IF IsError(context) THEN {context} ELSE results

=============================================================================
