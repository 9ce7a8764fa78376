----------------------------- MODULE EventQueue -----------------------------
(***************************************************************************)
(* The event pipeline under the discipline that the test "Add test" of     *)
(* test/SubscribersTest.cpp follows: the events of a camera are created,   *)
(* acknowledged and removed by one thread, oldest first, and an event is   *)
(* removed only after its acknowledgement.  Threads of other cameras run   *)
(* beside it, through the same signal, the same pool and the same table.   *)
(***************************************************************************)
EXTENDS EventPipeline

CONSTANTS
    Home        \* the camera whose events a thread works on

ASSUME HomeAssumption ==
    /\ Home \in [Thread -> Camera]
    /\ \A t, u \in Thread : Home[t] = Home[u] => t = u

OwnEvents(t) == {e \in Visible : CameraOf[e] = Home[t]}

Unfinished(t) == {e \in OwnEvents(t) : ~ Acked(e)}

Active(t) == {e \in OwnEvents(t) : Status(e) = "Processed"}

\* The client acknowledges the active event, or the oldest if the camera refused it.
AckNext(t, e) ==
    /\ e \in IF Active(t) = {} THEN Earliest(Unfinished(t)) ELSE Active(t)
    /\ BeginAck(t, e)

ClientRequest(t, e) ==
    \/ CameraOf[e] = Home[t] /\ InContext(StampEvent(t, e))
    \/ InContext(AckNext(t, e))
    \/ e \in OwnEvents(t) /\ Acked(e) /\ RemoveFromContext(t, e)

QueueNext ==
    \/ \E t \in Thread : Step(t)
    \/ \E t \in Thread, e \in Event : ClientRequest(t, e)
    \/ Restart

QueueSpec == Init /\ [][QueueNext]_vars

\* The clients go on acknowledging.
QueueFairSpec ==
    /\ QueueSpec
    /\ Fairness
    /\ \A t \in Thread : WF_vars(\E e \in Event : InContext(AckNext(t, e)))

----------------------------------------------------------------------------
(* Properties.                                                             *)

\* How the state of the pipeline reads as a queue per camera.
PlaceOf(e) ==
    CASE e \notin used -> "new"
      [] \E t \in Thread : call[t].pc = "stamped" /\ call[t].ev = e -> "stamped"
      [] e \in Visible /\ Status(e) = "Initial" -> "waiting"
      [] e \in Visible /\ Status(e) = "Processed" -> "active"
      [] OTHER -> "done"

Abstract == INSTANCE CameraQueue WITH place <- [e \in Event |-> PlaceOf(e)], stamp <- time

\* The pipeline implements the queues of module CameraQueue: one active event per camera,
\* oldest first, whatever the threads of the other cameras do and however actions fail.
ImplementsCameraQueue == Abstract!QueueSpec

\* As long as the cameras obey and the process lives, every event that was created gets its
\* action run and is marked: no event is left behind in the queue of its camera.
EveryEventProcessed ==
    \A e \in Event : e \in Visible ~> "processed" \in flags[e]
=============================================================================
