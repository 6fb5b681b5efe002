--------------------------- MODULE MCSwitchboard ---------------------------
(***************************************************************************)
(* Switchboard on a small instance: two threads share an open file of the  *)
(* device, a third has its own.                                            *)
(***************************************************************************)
EXTENDS Switchboard

CONSTANTS t1, t2, t3, shared, own

MCThreads == {t1, t2, t3}
MCFiles == {shared, own}
MCFileOf == [t \in MCThreads |-> IF t = t3 THEN own ELSE shared]

=============================================================================
