----------------------------- MODULE MCSessions -----------------------------
(* Threads and sessions of the model checker. *)
EXTENDS Sessions

CONSTANTS t1, t2, s1

TwoThreads == {t1, t2}
OneSession == {s1}
=============================================================================
