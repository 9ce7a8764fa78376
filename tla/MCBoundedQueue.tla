--------------------------- MODULE MCBoundedQueue ---------------------------
(* Two threads that post, the worker and the thread that steals from it.    *)
EXTENDS BoundedQueue

CONSTANTS p1, p2, c1, c2, k1, k2, k3

Posters == {p1, p2}
Poppers == {c1, c2}
Everybody == Posters \cup Poppers
ThreeTasks == {k1, k2, k3}
=============================================================================
