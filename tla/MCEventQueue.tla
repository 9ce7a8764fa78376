---------------------------- MODULE MCEventQueue ----------------------------
(* Two cameras, each with its client.                                       *)
EXTENDS EventQueue, TLC

CONSTANTS t1, t2, e1, e2, e3, c1, c2

Clients == {t1, t2}
Events == {e1, e2, e3}
Cameras == {c1, c2}
Homes == (t1 :> c1 @@ t2 :> c2)
AllOutcomes == {"ok", "error"}
Obeys == {"ok"}

\* Two events queue up at one camera while the other camera has its own.
Shared == (e1 :> c1 @@ e2 :> c1 @@ e3 :> c2)
SharedSymmetry == Permutations({e1, e2})

\* Three events queue up at the only camera in use.
Queued == [e \in Events |-> c1]
QueuedSymmetry == Permutations(Events)
=============================================================================
