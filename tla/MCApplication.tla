--------------------------- MODULE MCApplication ---------------------------
(***************************************************************************)
(* Application on a small instance: two threads; two signals, two channels *)
(* and an event on either side of the eighth bit; three Infos; up to three *)
(* pages; and one member of Attributes set by the caller.                  *)
(***************************************************************************)
EXTENDS Application

CONSTANTS t1, t2, s1, s2, i1, i2, i3, r1, r2

MCThreads == {t1, t2}
MCSignals == {s1, s2}
MCChannels == {0, 1}
MCEvents == {1, 8}
MCInfos == {i1, i2, i3}
MCRecords == {r1, r2}

=============================================================================
