----------------------------- MODULE MCDatabase -----------------------------
(* Threads and objects of the model checker: two archive settings, whose ids *)
(* are reused, and settings with a blob; a user and a camera; a permission   *)
(* and a camera action.                                                      *)
EXTENDS Database, TLC

CONSTANTS t1, t2, o1, o2, o3, b1, b2

TwoThreads == {t1, t2}
ThreeObjects == {o1, o2, o3}
TwoBodies == {b1, b2}

WithBlob == (o1 :> "event_archive_settings") @@ (o2 :> "event_archive_settings") @@ (o3 :> "settings")
UserAndCamera == (o1 :> "user") @@ (o2 :> "camera")
PermissionAndAction == (o1 :> "permission") @@ (o2 :> "camera_action")

AllMixes == {WithBlob, UserAndCamera, PermissionAndAction}
OneMix == {UserAndCamera}

Swaps == Permutations(TwoThreads) \cup Permutations(TwoBodies)
=============================================================================
