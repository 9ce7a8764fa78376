--------------------------- MODULE MCModelContext ---------------------------
(* Users and threads of the model checker, which permutes them, and a target. *)
EXTENDS ModelContext, TLC

CONSTANTS t1, t2, u1, u2, g1

TwoThreads == {t1, t2}
TwoUsers == {u1, u2}
OneTarget == {g1}

Swaps == Permutations(TwoThreads) \cup Permutations(TwoUsers)
=============================================================================
