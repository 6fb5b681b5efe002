------------------------------ MODULE MCDevice ------------------------------
(***************************************************************************)
(* Device on a small instance: 256 is the smallest channel that u8 turns   *)
(* into another one, the one that transfer uses.                           *)
(***************************************************************************)
EXTENDS Device

MCChannels == {0, 256}

=============================================================================
