------------------------------ MODULE MCPeriph ------------------------------
(***************************************************************************)
(* Periph on a small instance: two objects of the core, one of which can   *)
(* be the local object of get_info, and one of another port of its type;   *)
(* util_c.c opens the port of another peripheral.                          *)
(***************************************************************************)
EXTENDS Periph, TLC

CONSTANTS core1, core2, other

MCObjects == {core1, core2, other}

MCPorts == [o \in MCObjects |-> IF o = other THEN 257 ELSE 256]

Symmetry == Permutations({core1, core2})

=============================================================================
