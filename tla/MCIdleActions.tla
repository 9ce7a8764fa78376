---------------------------- MODULE MCIdleActions ----------------------------
(* Threads and cameras of the model checker. *)
EXTENDS IdleActions

CONSTANTS t1, t2, c1

OneThread == {t1}
TwoThreads == {t1, t2}
OneCamera == {c1}
=============================================================================
