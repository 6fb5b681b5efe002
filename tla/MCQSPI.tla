------------------------------- MODULE MCQSPI -------------------------------
(***************************************************************************)
(* QSPI with pages of two bytes.                                           *)
(***************************************************************************)
EXTENDS QSPI, TLC

MCCall(op, start, n) == [op |-> op, address |-> start, length |-> n]

\* Each byte clears a bit, and neighbours differ.
MCData == (0 :> {} @@ 1 :> {0} @@ 2 :> {1} @@ 3 :> {})

\* A write in three pieces, and what other threads can do about it.
MCCalls == {MCCall("write", 1, 4), MCCall("read", 1, 4), MCCall("erase", 2, 0)}

\* Every range there is.
AllCalls ==
    {c \in Call : c.address + c.length <= MemorySize /\ (c.op = "erase" => c.length = 0)}

Symmetry == Permutations(Threads)

=============================================================================
