---------------------------- MODULE MCThreadPool ----------------------------
(* Tasks of the model checker, two of which never return. *)
EXTENDS ThreadPool

CONSTANTS k1, k2, k3, k4

Tasks == {k1, k2, k3, k4}
TwoHung == {k1, k2}
=============================================================================
