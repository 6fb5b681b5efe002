-------------------------------- MODULE Pin --------------------------------
(***************************************************************************)
(* hal::Pin: one pin of a port, used by several threads through Pin        *)
(* objects of their own.                                                   *)
(*                                                                         *)
(* Each call is one request to the driver, so the calls of threads         *)
(* interleave.  is_floating is five of them: it finds out whether anything *)
(* outside drives the pin by pulling it up, reading it, pulling it down,   *)
(* and reading it again.  PulseScope sets the pin in its constructor and   *)
(* resets it when its block is left.                                       *)
(***************************************************************************)
EXTENDS Sequences, ExecutionContext

CONSTANTS
    Threads,
    MaxScopes    \* how deep a thread nests PulseScopes (bound)

ASSUME MaxScopesAssumption == MaxScopes \in Nat

VARIABLES
    ctx,        \* ctx[t]: the error context of t
    pc,         \* pc[t]: the statement of is_floating t is at
    result,     \* result[t]: its local variable
    restore,    \* restore[t]: its parameter o_restore_flags
    scopes,     \* scopes[t]: is_active_high of the open PulseScopes of t
    direction,  \* of the pin, as the driver has configured it
    pull,       \* the pull resistor that is switched on
    latch,      \* what the pin puts out when it is an output
    external,   \* what drives the pin from outside
    disturbed   \* history: disturbed[t]: the pin was reconfigured, or driven
                \* differently, by others since the probe of t began

callVars == <<pc, result, restore>>
pinVars == <<direction, pull, latch>>
vars == <<ctx, pc, result, restore, scopes, direction, pull, latch, external, disturbed>>

Pulls == {"float", "pullup", "pulldown"}
Drivers == {"none", "low", "high"}

Init ==
    /\ ctx = [t \in Threads |-> Fresh]
    /\ pc = [t \in Threads |-> "idle"]
    /\ result = [t \in Threads |-> TRUE]
    /\ restore = [t \in Threads |-> "float"]
    /\ scopes = [t \in Threads |-> <<>>]
    /\ direction = "input"
    /\ pull = "float"
    /\ latch = FALSE
    /\ external \in Drivers
    /\ disturbed = [t \in Threads |-> FALSE]

\* What I_PIO_GET can read: an input that nothing drives or pulls is noise.
Levels ==
    IF direction = "output" THEN {latch}
    ELSE IF external # "none" THEN {external = "high"}
    ELSE IF pull # "float" THEN {pull = "pullup"}
    ELSE BOOLEAN

-----------------------------------------------------------------------------
\* A request that is skipped, because of a pending error, or refused.
NotTaken(t) == ctx' = [ctx EXCEPT ![t] = Failed]

Taken(t) ==
    /\ ~IsError(ctx[t])
    /\ ctx' = [ctx EXCEPT ![t] = Fresh]

\* I_PIO_SETATTR, which replaces the whole configuration.
Configure(t, dir, flags) ==
    \/ /\ NotTaken(t)
       /\ UNCHANGED <<direction, pull, disturbed>>
    \/ /\ Taken(t)
       /\ direction' = dir
       /\ pull' = flags
       /\ disturbed' = [u \in Threads |-> disturbed[u] \/ u # t]

set_input(t, flags) == Configure(t, "input", flags) /\ UNCHANGED latch

set_output(t, flags) == Configure(t, "output", flags) /\ UNCHANGED latch

\* I_PIO_SETMASK or I_PIO_CLRMASK.
set_value(t, value) ==
    /\ \/ NotTaken(t) /\ UNCHANGED latch
       \/ Taken(t) /\ latch' = value
    /\ UNCHANGED <<direction, pull, disturbed>>

\* u32 value is not initialized: without an answer it is anything.
get_value(t, value) ==
    \/ NotTaken(t)
    \/ Taken(t) /\ value \in Levels

-----------------------------------------------------------------------------
Input(t) ==
    /\ pc[t] = "idle"
    /\ \E flags \in Pulls : set_input(t, flags)
    /\ UNCHANGED <<callVars, scopes, external>>

Output(t) ==
    /\ pc[t] = "idle"
    /\ \E flags \in Pulls : set_output(t, flags)
    /\ UNCHANGED <<callVars, scopes, external>>

SetValue(t) ==
    /\ pc[t] = "idle"
    /\ \E value \in BOOLEAN : set_value(t, value)
    /\ UNCHANGED <<callVars, scopes, external>>

\* The caller has dealt with an error and resets its context.
ResetError(t) ==
    /\ pc[t] = "idle"
    /\ ctx' = [ctx EXCEPT ![t] = Fresh]
    /\ UNCHANGED <<callVars, scopes, pinVars, external, disturbed>>

\* A variant that leaves a copy of the scope behind.
OpenScopeCopied(t) ==
    /\ pc[t] = "idle"
    /\ Len(scopes[t]) < MaxScopes
    /\ \E is_active_high \in BOOLEAN :
        /\ scopes' = [scopes EXCEPT ![t] = @ \o <<is_active_high, is_active_high>>]
        /\ set_value(t, is_active_high)
    /\ UNCHANGED <<callVars, external>>

\* PulseScope(pin, is_active_high)
OpenScope(t) ==
    /\ pc[t] = "idle"
    /\ Len(scopes[t]) < MaxScopes
    /\ \E is_active_high \in BOOLEAN :
        /\ scopes' = [scopes EXCEPT ![t] = Append(@, is_active_high)]
        /\ set_value(t, is_active_high)
    /\ UNCHANGED <<callVars, external>>

\* The block is left: PulseScope::deleter.
CloseScope(t) ==
    /\ pc[t] = "idle"
    /\ scopes[t] # <<>>
    /\ scopes' = [scopes EXCEPT ![t] = SubSeq(@, 1, Len(@) - 1)]
    /\ set_value(t, ~scopes[t][Len(scopes[t])])
    /\ UNCHANGED <<callVars, external>>

-----------------------------------------------------------------------------
(***************************************************************************)
(* is_floating                                                             *)
(***************************************************************************)
Goto(t, next) == pc' = [pc EXCEPT ![t] = next]

ProbeBegin(t) ==
    /\ pc[t] = "idle"
    /\ result' = [result EXCEPT ![t] = TRUE]
    /\ \E flags \in Pulls : restore' = [restore EXCEPT ![t] = flags]
    /\ disturbed' = [disturbed EXCEPT ![t] = FALSE]
    /\ Goto(t, "pull_up")
    /\ UNCHANGED <<ctx, scopes, pinVars, external>>

ProbePullUp(t) ==
    /\ pc[t] = "pull_up"
    /\ set_input(t, "pullup")
    /\ Goto(t, "read_up")
    /\ UNCHANGED <<result, restore, scopes, external>>

\* A variant that pulls down whatever it has read.
ProbeReadUpIgnored(t) ==
    /\ pc[t] = "read_up"
    /\ \E value \in BOOLEAN :
        /\ get_value(t, value)
        /\ result' = [result EXCEPT ![t] = value]
    /\ Goto(t, "pull_down")
    /\ UNCHANGED <<restore, scopes, pinVars, external, disturbed>>

\* Pulled high but driven low: not floating.
ProbeReadUp(t) ==
    /\ pc[t] = "read_up"
    /\ \E value \in BOOLEAN :
        /\ get_value(t, value)
        /\ result' = [result EXCEPT ![t] = value]
        /\ Goto(t, IF value THEN "pull_down" ELSE "restore")
    /\ UNCHANGED <<restore, scopes, pinVars, external, disturbed>>

\* A variant that does not pull.
ProbeFloat(t) ==
    /\ pc[t] = "pull_down"
    /\ set_input(t, "float")
    /\ Goto(t, "read_down")
    /\ UNCHANGED <<result, restore, scopes, external>>

ProbePullDown(t) ==
    /\ pc[t] = "pull_down"
    /\ set_input(t, "pulldown")
    /\ Goto(t, "read_down")
    /\ UNCHANGED <<result, restore, scopes, external>>

\* Pulled low but driven high: not floating.
ProbeReadDown(t) ==
    /\ pc[t] = "read_down"
    /\ \E value \in BOOLEAN :
        /\ get_value(t, value)
        /\ result' = [result EXCEPT ![t] = ~value]
    /\ Goto(t, "restore")
    /\ UNCHANGED <<restore, scopes, pinVars, external, disturbed>>

ProbeRestore(t) ==
    /\ pc[t] = "restore"
    /\ set_input(t, restore[t])
    /\ Goto(t, "idle")
    /\ UNCHANGED <<result, restore, scopes, external>>

ProbeStep(t) ==
    \/ ProbePullUp(t) \/ ProbeReadUp(t)
    \/ ProbePullDown(t) \/ ProbeReadDown(t) \/ ProbeRestore(t)

\* Something outside starts or stops driving the pin.
ExternalChange ==
    /\ external' \in Drivers \ {external}
    /\ disturbed' = [t \in Threads |-> TRUE]
    /\ UNCHANGED <<ctx, callVars, scopes, pinVars>>

CallerStep(t) ==
    \/ Input(t) \/ Output(t) \/ SetValue(t) \/ ResetError(t)
    \/ OpenScope(t) \/ CloseScope(t) \/ ProbeBegin(t)

Next ==
    \/ \E t \in Threads : CallerStep(t) \/ ProbeStep(t)
    \/ ExternalChange

Spec == Init /\ [][Next]_vars

-----------------------------------------------------------------------------
(***************************************************************************)
(* Properties.                                                             *)
(***************************************************************************)

\* The types of the variables.
TypeOK ==
    /\ ctx \in [Threads -> {Failed, Fresh}]
    /\ pc \in [Threads -> {"idle", "pull_up", "read_up", "pull_down", "read_down", "restore"}]
    /\ result \in [Threads -> BOOLEAN]
    /\ restore \in [Threads -> Pulls]
    /\ scopes \in [Threads -> Seq(BOOLEAN)]
    /\ \A t \in Threads : Len(scopes[t]) <= MaxScopes
    /\ direction \in {"input", "output"}
    /\ pull \in Pulls
    /\ latch \in BOOLEAN
    /\ external \in Drivers
    /\ disturbed \in [Threads -> BOOLEAN]

Undisturbed(t) == ~IsError(ctx[t]) /\ ~disturbed[t]

\* What a probe that nobody disturbs knows on its way.
ProbeProgress ==
    \A t \in Threads : Undisturbed(t) =>
        /\ pc[t] = "read_up" => direction = "input" /\ pull = "pullup"
        /\ pc[t] = "pull_down" => external # "low"
        /\ pc[t] = "read_down" =>
            external # "low" /\ direction = "input" /\ pull = "pulldown"

\* The verdict of is_floating is right whenever it returns without an error
\* and the pin was left alone in the meantime: it is floating exactly if
\* nothing drives it.  Any error on the way, also one that left value
\* uninitialized, is still pending at the end.
FloatingVerdict ==
    \A t \in Threads :
        pc[t] = "restore" /\ Undisturbed(t) => (result[t] <=> external = "none")

IInv == TypeOK /\ ProbeProgress /\ FloatingVerdict

\* CHANGES.md:20, "using RAII to set and reset a pin": when the block of a
\* PulseScope is left, a pin that is at the active level is reset, unless the
\* driver refuses that very request.
PulseScopeResets ==
    [][\A t \in Threads :
        LET active == scopes[t][Len(scopes[t])]
            refused == ~IsError(ctx[t]) /\ IsError(ctx'[t])
        IN  Len(scopes'[t]) < Len(scopes[t]) /\ latch = active /\ ~refused
            => latch' = ~active]_vars

=============================================================================
