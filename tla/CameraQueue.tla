----------------------------- MODULE CameraQueue -----------------------------
(***************************************************************************)
(* What the event pipeline promises to the operators of the cameras: every *)
(* camera has a queue, of which one event at a time is active.  An event   *)
(* moves one way: it is stamped with its time, waits, becomes active and   *)
(* is done.  Only the oldest waiting event of a camera without an active   *)
(* one may become active, or be passed over, and only an acknowledgement   *)
(* ends an active event; a restart of the process ends them all.           *)
(***************************************************************************)
EXTENDS Naturals

CONSTANTS
    Event,
    CameraOf    \* the camera of each event

VARIABLES
    place,      \* where each event is on its way
    stamp       \* creation times

queueVars == <<place, stamp>>

Place == {"new", "stamped", "waiting", "active", "done"}

OfCamera(c, where) == {e \in Event : CameraOf[e] = c /\ place[e] = where}

Move(e, from, to) == place[e] = from /\ place' = [place EXCEPT ![e] = to]

\* e is next in the queue of its camera, which shows no event now.
First(e) ==
    /\ OfCamera(CameraOf[e], "active") = {}
    /\ \A o \in OfCamera(CameraOf[e], "waiting") : stamp[e] <= stamp[o]

QueueInit ==
    /\ place = [e \in Event |-> "new"]
    /\ stamp = [e \in Event |-> 0]

Stamp(e) ==
    /\ Move(e, "new", "stamped")
    /\ \A o \in Event \ {e} : stamp'[o] = stamp[o]

Arrive(e) == Move(e, "stamped", "waiting") /\ UNCHANGED stamp

Start(e) == First(e) /\ Move(e, "waiting", "active") /\ UNCHANGED stamp

Finish(e) == Move(e, "active", "done") /\ UNCHANGED stamp

PassOver(e) == First(e) /\ Move(e, "waiting", "done") /\ UNCHANGED stamp

Clear ==
    /\ place' = [e \in Event |-> IF place[e] = "new" THEN "new" ELSE "done"]
    /\ UNCHANGED stamp

QueueNext ==
    \/ \E e \in Event : Stamp(e) \/ Arrive(e) \/ Start(e) \/ Finish(e) \/ PassOver(e)
    \/ Clear

QueueSpec == QueueInit /\ [][QueueNext]_queueVars
=============================================================================
