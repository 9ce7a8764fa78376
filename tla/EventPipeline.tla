---------------------------- MODULE EventPipeline ----------------------------
(***************************************************************************)
(* Events from the request that creates them to the database row and to    *)
(* the camera: EventContext composed with the Event signal of              *)
(* source/signals, and with its two subscribers in the order main.cpp      *)
(* registers them: DBSubscriber (one row per event) and EventSubscriber    *)
(* (which runs the on_create action of one event of a camera at a time).   *)
(*                                                                         *)
(* A signal is delivered on the thread that emits it, under the recursive  *)
(* mutex of the generator, after the lock of the context was released.     *)
(* The action of an event runs on the camera pool while the emitting       *)
(* thread, and so everybody who emits, waits for it.                       *)
(***************************************************************************)
EXTENDS EventContext

CONSTANTS
    Outcomes,   \* what running an on_create action may end in
    MaxRuns,    \* bound: how often the action of one event succeeds
    MaxBoots    \* bound: restarts of the process

ASSUME PipelineAssumption ==
    /\ Outcomes \subseteq {"ok", "error"}
    /\ MaxRuns \in Nat
    /\ MaxBoots \in Nat

VARIABLES
    rows,       \* the table `event`: the flags stored for each hash
    seen,       \* the events of the camera a handler got from GetEvents
    executed,   \* history: how often the on_create action of an event succeeded
    crossed,    \* history: events on which two operations overtook each other
    boots       \* restarts so far

vars == <<events, machine, flags, time, used, clock, call, holder,
          rows, seen, executed, crossed, boots>>

----------------------------------------------------------------------------
\* The table holds no row for an event: not a set of flags.
NoRow == {"no row"}

----------------------------------------------------------------------------
(* Delivery of a signal: GenerateSignal calls the subscribers in turn.     *)

Emits(operation) ==
    CASE operation = "create" -> "Added"
      [] operation = "remove" -> "Removed"
      [] OTHER -> "Changed"

\* Seeded fault: an UPDATE that merges its flags into whatever the table holds.
RowAfterMerge(status, e) ==
    CASE status = "Added" -> flags[e]
      [] status = "Removed" -> NoRow
      [] OTHER -> rows[e] \cup flags[e]

\* Seeded fault: an UPDATE that writes the flags the event was created with.
RowAfterStale(status, e) ==
    CASE status = "Added" -> {}
      [] status = "Removed" -> NoRow
      [] OTHER -> rows[e]

\* What DBSubscriber leaves in the row of e: INSERT, UPDATE ... WHERE hash, DELETE.
\* The signal carries the pointer, so the row gets the flags of this moment.
RowAfter(status, e) ==
    CASE status = "Added" -> flags[e]
      [] status = "Removed" -> NoRow
      [] OTHER -> IF rows[e] = NoRow THEN NoRow ELSE flags[e]

\* Seeded fault: the mutex of the generator is not recursive.
DeliverOnce(t) ==
    /\ call[t].pc = "signal"
    /\ holder = NoThread
    /\ holder' = t
    /\ rows' = [rows EXCEPT ![call[t].ev] = RowAfter(Emits(call[t].op), call[t].ev)]
    /\ Goto(t, "snapshot")
    /\ UNCHANGED <<events, machine, flags, time, used, clock, seen, executed, crossed, boots>>

\* The mutex of the signal is taken (again, for the change made by a handler) and the
\* first subscriber, DBSubscriber, runs.
Deliver(t) ==
    /\ call[t].pc = "signal"
    /\ holder \in {NoThread, t}
    /\ holder' = t
    /\ rows' = [rows EXCEPT ![call[t].ev] = RowAfter(Emits(call[t].op), call[t].ev)]
    /\ Goto(t, "snapshot")
    /\ UNCHANGED <<events, machine, flags, time, used, clock, seen, executed, crossed, boots>>

----------------------------------------------------------------------------
(* EventSubscriber: ProcessEvent picks the event to run, if any.           *)

\* Seeded fault: the archive is not left out of GetEvents.
SameCameraOfAll(e) == {x \in events : CameraOf[x] = CameraOf[e]}

\* Seeded fault: the events are not filtered by their camera.
SameCameraOrNot(e) == Visible

SameCamera(e) == {x \in Visible : CameraOf[x] = CameraOf[e]}

\* ProcessEvent copies the events of the camera under the lock of the context ...
Snapshot(t) ==
    /\ call[t].pc = "snapshot"
    /\ seen' = [seen EXCEPT ![t] = SameCamera(call[t].ev)]
    /\ Goto(t, "choose")
    /\ UNCHANGED <<events, machine, flags, time, used, clock, holder, rows, executed, crossed, boots>>

\* ... and reads their statuses after it: those that wait or run, and those that wait.
Busy(t) == {x \in seen[t] : Status(x) \in {"Initial", "Processed"}}

Waiting(t) == {x \in seen[t] : Status(x) = "Initial"}

Earliest(S) == {x \in S : \A y \in S : time[x] <= time[y]}

\* Seeded fault: a new event runs whatever the camera is doing.
ToRunAlways(t) ==
    CASE call[t].op = "create" -> {call[t].ev}
      [] call[t].op = "remove" -> {}
      [] OTHER -> IF Acked(call[t].ev) THEN Earliest(Waiting(t)) ELSE {}

\* Seeded fault: the case ProcessedAndAcknowledged is missing.
ToRunAckedOnly(t) ==
    CASE call[t].op = "create" -> IF Cardinality(Busy(t)) <= 1 THEN {call[t].ev} ELSE {}
      [] call[t].op = "remove" -> {}
      [] OTHER -> IF Status(call[t].ev) = "Acknowledged" THEN Earliest(Waiting(t)) ELSE {}

\* The events one of which this delivery processes. std::sort leaves the order of equal
\* times open, so any of the earliest may come first.
ToRun(t) ==
    CASE call[t].op = "create" -> IF Cardinality(Busy(t)) <= 1 THEN {call[t].ev} ELSE {}
      [] call[t].op = "remove" -> {}
      [] OTHER -> IF Acked(call[t].ev) THEN Earliest(Waiting(t)) ELSE {}

Choose(t) ==
    /\ call[t].pc = "choose"
    /\ seen' = [seen EXCEPT ![t] = {}]
    /\ \/ \E e \in ToRun(t) :
             /\ call' = [call EXCEPT ![t].pc = "act", ![t].ev = e]
             /\ UNCHANGED holder
       \/ /\ ToRun(t) = {}
          /\ Return(t)
    /\ UNCHANGED <<events, machine, flags, time, used, clock, rows, executed, crossed, boots>>

\* Seeded fault: the result of the camera is not looked at.
RunActionBlind(t) ==
    /\ call[t].pc = "act"
    /\ \E outcome \in Outcomes :
          /\ call' = [call EXCEPT ![t].pc = "lookup", ![t].op = "process"]
          /\ executed' = IF outcome = "ok"
                         THEN [executed EXCEPT ![call[t].ev] = @ + 1]
                         ELSE executed
    /\ UNCHANGED <<events, machine, flags, time, used, clock, holder, rows, seen, crossed, boots>>

\* ProcessImpl: the action goes through the pool and is waited for. Only a success goes on
\* to Change(event, Processed); a missing camera, an action that does not parse, a broken
\* promise and an error of the camera end the handler and leave the event as it is.
RunAction(t) ==
    /\ call[t].pc = "act"
    /\ \/ /\ "ok" \in Outcomes
          /\ executed[call[t].ev] < MaxRuns
          /\ executed' = [executed EXCEPT ![call[t].ev] = @ + 1]
          /\ call' = [call EXCEPT ![t].pc = "lookup", ![t].op = "process"]
          /\ UNCHANGED holder
       \/ /\ "error" \in Outcomes
          /\ Return(t)
          /\ UNCHANGED executed
    /\ UNCHANGED <<events, machine, flags, time, used, clock, rows, seen, crossed, boots>>

----------------------------------------------------------------------------
(* The process ends at any moment and comes up again on its database: the  *)
(* rows become the context's archive, in the constructor of EventContext.  *)

Restart ==
    /\ boots < MaxBoots
    /\ boots' = boots + 1
    /\ events' = {e \in Event : rows[e] # NoRow}
    /\ machine' = [e \in Event |-> IF rows[e] # NoRow THEN "archived" ELSE "none"]
    /\ flags' = [e \in Event |-> IF rows[e] # NoRow THEN rows[e] ELSE {}]
    /\ call' = [t \in Thread |-> Idle]
    /\ holder' = NoThread
    /\ seen' = [t \in Thread |-> {}]
    /\ crossed' = {}
    /\ UNCHANGED <<time, used, clock, rows, executed>>

----------------------------------------------------------------------------
Init ==
    /\ ContextInit
    /\ rows = [e \in Event |-> NoRow]
    /\ seen = [t \in Thread |-> {}]
    /\ executed = [e \in Event |-> 0]
    /\ crossed = {}
    /\ boots = 0

(* What crosses. Nothing orders the processing of an event and its          *)
(* acknowledgement, nor the signal of its removal and that of its creation. *)

\* Thread t finds the machine in a state its change leaves while another thread that makes the
\* other change is still to write the machine or to set its flag.
Crosses(t) ==
    /\ machine[call[t].ev] \in Sources(call[t].op)
    /\ \E u \in Thread : /\ call[u].pc \in {"move", "mark"}
                         /\ call[u].ev = call[t].ev
                         /\ call[u].op # call[t].op

\* Thread t is about to deliver the Added signal of e.
WillInsert(t, e) == call[t].ev = e /\ call[t].pc = "signal" /\ call[t].op = "create"

InContext(A) == A /\ UNCHANGED <<rows, seen, executed, crossed, boots>>

DispatchChange(t) ==
    /\ Dispatch(t)
    /\ crossed' = IF Crosses(t) THEN crossed \cup {call[t].ev} ELSE crossed
    /\ UNCHANGED <<rows, seen, executed, boots>>

RemoveFromContext(t, e) ==
    /\ RemoveEvent(t, e)
    /\ crossed' = IF \E u \in Thread : WillInsert(u, e) THEN crossed \cup {e} ELSE crossed
    /\ UNCHANGED <<rows, seen, executed, boots>>

----------------------------------------------------------------------------

\* What a thread does next once an operation has begun.
Step(t) ==
    \/ InContext(Create(t))
    \/ InContext(LookUp(t))
    \/ InContext(CheckStatus(t))
    \/ DispatchChange(t)
    \/ InContext(Move(t))
    \/ InContext(Mark(t))
    \/ InContext(Complete(t))
    \/ InContext(Finish(t))
    \/ InContext(Confirm(t))
    \/ InContext(SetHasVideo(t))
    \/ Deliver(t)
    \/ Snapshot(t)
    \/ Choose(t)
    \/ RunAction(t)

\* The operations a client or a recorder may begin.
Request(t, e) ==
    \/ InContext(StampEvent(t, e))
    \/ InContext(BeginAck(t, e))
    \/ InContext(BeginHasVideo(t, e))
    \/ RemoveFromContext(t, e)

Next ==
    \/ \E t \in Thread : Step(t)
    \/ \E t \in Thread, e \in Event : Request(t, e)
    \/ Restart

Spec == Init /\ [][Next]_vars

\* Every thread goes on with what it began: the scheduler of the operating system runs it.
Fairness == \A t \in Thread : WF_vars(Step(t))

----------------------------------------------------------------------------
(* Properties.                                                             *)

TypeOK ==
    /\ ContextTypeOK
    /\ rows \in [Event -> (SUBSET Flag) \cup {NoRow}]
    /\ seen \in [Thread -> SUBSET Event]
    /\ executed \in [Event -> Nat]
    /\ crossed \subseteq Event
    /\ boots \in 0 .. MaxBoots

\* Thread t is certain to deliver a signal for e: it has the machine in the state it will find
\* when it looks for the last time, or in one from which it takes it there.
WillDeliver(t, e) ==
    /\ call[t].ev = e
    /\ \/ call[t].pc = "signal"
       \/ /\ call[t].pc \in {"mark", "complete", "confirm"}
          /\ machine[e] = Final(call[t].op)
       \/ /\ call[t].pc \in {"mark", "complete", "finish"}
          /\ call[t].op = "ack"
          /\ machine[e] \in {"ack", "X"}

\* Table and context agree up to the signals under way: an event of the context has its row,
\* with the flags it has now, and what was removed has none. A change is lost to the next start
\* only where nothing in Change orders the threads (EventContext.hpp:288-322): when a processing
\* and an acknowledgement of one event overtake each other, or when a removal overtakes the
\* Added signal of its event. Two acknowledgements, two handlers that run one event, a
\* processing that is over but for its test, and video reports may interleave at will.
RowsConverge ==
    /\ \A e \in events : rows[e] = NoRow => \E t \in Thread : WillInsert(t, e)
    /\ \A e \in events \ crossed :
          rows[e] \notin {NoRow, flags[e]} => \E t \in Thread : WillDeliver(t, e)
    /\ \A e \in Event \ (events \cup crossed) :
          rows[e] # NoRow =>
              \E t \in Thread : call[t].ev = e /\ call[t].pc = "signal" /\ call[t].op = "remove"

\* An event is marked processed, in memory or in the table, only after its on_create action
\* succeeded on the camera (EventSubscriber.hpp:151-171), also over a restart.
MarkedWasExecuted ==
    \A e \in Event :
        "processed" \in flags[e] \/ (rows[e] # NoRow /\ "processed" \in rows[e])
            => executed[e] > 0

\* Events loaded at start are history (EventContext.hpp:99-104): until one is removed no request,
\* signal or handler, and no further start, runs its action, moves its machine, acknowledges it
\* or marks it processed.
ArchivedEventIsLeftAlone ==
    \A e \in events \cap events' :
        machine[e] = "archived" =>
            /\ machine'[e] = "archived"
            /\ executed'[e] = executed[e]
            /\ flags'[e] \ {"has_video"} = flags[e] \ {"has_video"}

\* No step touches the archive.
ArchiveIsInert == [][ArchivedEventIsLeftAlone]_vars

\* Every request returns, even while other threads keep the signal busy: the nested change
\* made by the handler takes the mutex its thread already holds, and each return frees it.
RequestsReturn == \A t \in Thread : call[t].pc # "idle" ~> call[t].pc = "idle"

Quiet == \A t \in Thread : call[t].pc = "idle"

\* swagger/http/events.yaml: on_create_action is run on the creation of the event; once.
ExecutedAtMostOnce == \A e \in Event : executed[e] <= 1
=============================================================================
