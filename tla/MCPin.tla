------------------------------- MODULE MCPin -------------------------------
(***************************************************************************)
(* Pin with interchangeable threads.                                       *)
(***************************************************************************)
EXTENDS Pin, TLC

Symmetry == Permutations(Threads)

=============================================================================
