------------------------------- MODULE MCI2C -------------------------------
(***************************************************************************)
(* I2C with two addresses and two registers of two bits.                   *)
(***************************************************************************)
EXTENDS I2C, TLC

Modify(location, bit, set) == [location |-> location, bit |-> bit, value |-> set]

\* Setting a bit of register 0, the one before the last.
MCOptions == {Modify(0, 0, TRUE)}

\* A slave behind an address at which nobody answers, or two slaves.
MCPopulations == {{2}, {1, 2}}

MCContents == {{1}}

Symmetry == Permutations(Threads)

=============================================================================
