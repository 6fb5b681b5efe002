---------------------------- MODULE FlashContract ----------------------------
(***************************************************************************)
(* What the users of a QSPI_FLASH may rely on, without status registers,   *)
(* latches and pages.                                                      *)
(*                                                                         *)
(* A call works on the chip in commands, each of which does what the call  *)
(* asks for to some of the bytes of the chip, to none of them perhaps, and *)
(* nothing to any other byte.  A call is clean until one of its requests   *)
(* fails or somebody else's command comes in between.  The contract:       *)
(*   - a clean read gets nothing but bytes of the chip, each at its place; *)
(*   - a clean call that returns has done all that it was called for, and  *)
(*     says how much that was.                                             *)
(* Of a call that is not clean nothing is promised but that it does no     *)
(* harm outside of its range.                                              *)
(***************************************************************************)
EXTENDS FlashCalls

CONSTANT Threads

VARIABLES
    call,      \* call[t]: the call that t is in
    memory,    \* of the chip
    buffer,    \* buffer[t]: what the bytes of the buffer of t's call can hold
    value,     \* value[t]: what t's call is about to return
    clean      \* clean[t]: nothing has come into t's call

vars == <<call, memory, buffer, value, clean>>

Init ==
    /\ call = [t \in Threads |-> NoCall]
    /\ memory = Blank
    /\ buffer = [t \in Threads |-> Unread]
    /\ value = [t \in Threads |-> 0]
    /\ clean = [t \in Threads |-> TRUE]

Begin(t) ==
    /\ call[t] = NoCall
    /\ \E c \in Calls : call' = [call EXCEPT ![t] = c]
    /\ UNCHANGED <<memory, buffer, value, clean>>

\* The call gets nearer its end.
Decide(t) ==
    /\ call[t] # NoCall
    /\ \E v \in -1 .. MaxLength : value' = [value EXCEPT ![t] = v]
    /\ UNCHANGED call

\* A request of the call fails, or only asks.
Request(t) ==
    /\ Decide(t)
    /\ clean' \in {clean, [clean EXCEPT ![t] = FALSE]}
    /\ UNCHANGED <<memory, buffer>>

\* A command of the call, which comes into the calls of others.
Command(t) ==
    /\ Decide(t)
    /\ clean' = [u \in Threads |-> clean[u] /\ (u = t \/ call[u] = NoCall)]
    /\ \E S \in SUBSET Memory :
        memory' = [a \in Memory |-> IF a \in S THEN Asked(call[t], a, memory[a]) ELSE memory[a]]
    /\ UNCHANGED buffer

\* Some bytes arrive in the buffer of the call.
Fetch(t) ==
    /\ Decide(t)
    /\ call[t].op = "read"
    /\ buffer'[t] \in [Buffer -> SUBSET Bytes]
    /\ buffer' = [buffer EXCEPT ![t] = buffer'[t]]
    /\ clean[t] => \A k \in 0 .. call[t].length - 1 :
        buffer'[t][k] \in {buffer[t][k], {memory[call[t].address + k]}}
    /\ UNCHANGED <<memory, clean>>

\* All that call c of t was made for is done.
Fulfilled(t, c) ==
    /\ value[t] = IF c.op = "erase" THEN 0 ELSE c.length
    /\ c.op = "read" =>
        \A k \in 0 .. c.length - 1 : buffer[t][k] = {memory[c.address + k]}
    /\ \A a \in Memory : Asked(c, a, memory[a]) = memory[a]

Return(t) ==
    /\ call[t] # NoCall
    /\ clean[t] => Fulfilled(t, call[t])
    /\ call' = [call EXCEPT ![t] = NoCall]
    /\ buffer' = [buffer EXCEPT ![t] = Unread]
    /\ value' = [value EXCEPT ![t] = 0]
    /\ clean' = [clean EXCEPT ![t] = TRUE]
    /\ UNCHANGED memory

Next ==
    \E t \in Threads :
        Begin(t) \/ Request(t) \/ Command(t) \/ Fetch(t) \/ Return(t)

Spec == Init /\ [][Next]_vars

=============================================================================
