--------------------------- MODULE MCEventPipeline ---------------------------
(* Values and symmetry for the model checker: two HTTP threads on one camera. *)
EXTENDS EventPipeline, TLC

CONSTANTS t1, t2, e1, e2, c1

MCThread == {t1, t2}
MCEvent == {e1, e2}
MCCamera == {c1}
MCCameraOf == [e \in MCEvent |-> c1]
MCOutcomes == {"ok", "error"}

Symmetry == Permutations(MCThread) \cup Permutations(MCEvent)
=============================================================================
