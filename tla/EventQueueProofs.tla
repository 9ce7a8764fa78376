--------------------------- MODULE EventQueueProofs ---------------------------
(***************************************************************************)
(* Proofs about module EventQueue: what the clients of the test keep to is *)
(* enough for the pipeline to implement the queues of module CameraQueue,  *)
(* and to run no action twice, for any number of cameras and events,       *)
(* however often actions fail and the process is restarted.                *)
(*                                                                         *)
(* The clients take steps of module EventPipeline, so its invariant holds. *)
(* What is added is said of each client alone, because the events of its   *)
(* camera are touched by no other: which event is next between any two of  *)
(* its steps, and that what it found before an unlock is still true after. *)
(***************************************************************************)
EXTENDS EventQueue, EventPipelineProofs, FiniteSetTheorems

----------------------------------------------------------------------------
(* The inductive invariant.                                                *)

\* A call that has not marked its event yet, one that has and is still about its machine, and one
\* that delivers.
Changing == {"lookup", "guard", "dispatch", "move", "mark"}

Completing == {"complete", "finish", "confirm"}

Delivering == {"signal", "snapshot", "choose"}

\* A call that has written the machine of its event and has not looked at it for the last time.
Unsettled == {"mark", "complete", "finish"}

\* The event a thread is about is the one its camera shows next.
IsNext(t) == Active(t) = {} /\ call[t].ev \in Earliest(Unfinished(t))

\* The action of an event succeeded, and the event is not marked yet.
Marking(t, e) == call[t].ev = e /\ call[t].op = "process" /\ call[t].pc \in Changing

\* Nobody has run the action of an event yet.
Untouched(t, e) ==
    \/ e \notin used
    \/ call[t].pc = "stamped" /\ call[t].ev = e
    \/ e \in OwnEvents(t) /\ Status(e) = "Initial" /\ ~ Marking(t, e)

\* A client is about events of its own camera, and its handlers see all of them.
StaysHome(t) ==
    /\ call[t].pc # "idle" => CameraOf[call[t].ev] = Home[t]
    /\ call[t].pc = "choose" => seen[t] = OwnEvents(t)

\* Where the operations of a client may be.
OpsAreOrdered(t) ==
    \/ call[t].pc = "idle"
    \/ call[t].op = "create" /\ call[t].pc \in Delivering \cup {"stamped", "act"}
    \/ call[t].op = "remove" /\ call[t].pc \in Delivering
    \/ call[t].op = "ack" /\ call[t].pc \in Changing \cup Completing \cup Delivering \cup {"act"}
    \/ call[t].op = "process" /\ call[t].pc \in Changing \cup {"complete", "confirm"} \cup Delivering

\* The machine of an event and its flags tell the same, but for the event the client is changing.
MachinesAgree(t) ==
    \A e \in OwnEvents(t) : ~ (call[t].pc \in Unsettled /\ call[t].ev = e) =>
        /\ Status(e) = "Initial" => machine[e] = "created"
        /\ Status(e) = "Processed" => machine[e] = "processed"
        /\ Acked(e) => machine[e] = "X"

\* One event of a camera is processed and not acknowledged, at most.
OneIsActive(t) == \A e, f \in Active(t) : e = f

\* What is about to be run, or has been, is next; what was acknowledged is not active any more.
TurnsAreKept(t) ==
    LET e == call[t].ev
        pc == call[t].pc
    IN /\ pc = "act" => IsNext(t)
       /\ call[t].op = "create" /\ pc \in Delivering => e \in OwnEvents(t) /\ Status(e) = "Initial"
       /\ call[t].op = "process" /\ pc \in Changing => IsNext(t)
       /\ call[t].op = "process" /\ pc \in Delivering \cup Completing => e \in Active(t)
       /\ call[t].op = "ack" /\ pc \in Changing => IsNext(t) \/ e \in Active(t)
       /\ call[t].op = "ack" /\ pc \in Delivering \cup Completing =>
             e \in OwnEvents(t) /\ Acked(e) /\ Active(t) = {}
       /\ pc = "mark" => machine[e] = Target(call[t].op)
       /\ pc = "complete" => machine[e] \in {Target(call[t].op), Final(call[t].op)}
       /\ pc = "finish" => machine[e] = "ack"

\* An action was run once, at most, and not at all before its event's turn.
RunsAreCounted(t) ==
    \A e \in Event : CameraOf[e] = Home[t] =>
        executed[e] <= 1 /\ (Untouched(t, e) => executed[e] = 0)

\* What holds of one client and the events of its camera.
ClientInv(t) ==
    /\ StaysHome(t) /\ OpsAreOrdered(t) /\ MachinesAgree(t) /\ OneIsActive(t)
    /\ TurnsAreKept(t) /\ RunsAreCounted(t)

\* The invariant of all clients.
QueueInv ==
    /\ IndInv
    /\ IsFiniteSet(used)
    /\ \A e \in used : \E t \in Thread : Home[t] = CameraOf[e]
    /\ \A e \in Event : e \notin used => executed[e] = 0
    /\ \A t \in Thread : ClientInv(t)

----------------------------------------------------------------------------
(* What a step leaves alone.                                               *)

\* The clients take steps of the pipeline.
LEMMA ClientsTakeSteps == QueueNext => Next
BY DEF QueueNext, Next, ClientRequest, Request, AckNext, InContext

\* What a thread is about is an event.
LEMMA AboutEvents ==
    ASSUME IndInv, NEW t \in Thread, call[t].pc # "idle"
    PROVE  call[t] \in Call /\ call[t].ev \in Event
BY DEF IndInv, TypeOK, ContextTypeOK, Fresh, Published

\* A status is one of four.
LEMMA StatusIs ==
    ASSUME NEW e
    PROVE  /\ Status(e) \in {"Initial", "Processed", "Acknowledged", "ProcessedAndAcknowledged"}
           /\ Acked(e) <=> Status(e) \notin {"Initial", "Processed"}
           /\ Acked(e) <=> "acknowledged" \in flags[e]
           /\ Status(e) \in {"Processed", "ProcessedAndAcknowledged"} <=> "processed" \in flags[e]
BY DEF Status, Acked

\* No other client sees what a step does to the events of one camera.
LEMMA OthersKeep ==
    ASSUME NEW t \in Thread, NEW u \in Thread, u # t, ClientInv(u),
           call'[u] = call[u], seen'[u] = seen[u],
           \A e \in Event : CameraOf[e] # Home[t] =>
               /\ e \in events' <=> e \in events
               /\ e \in used' <=> e \in used
               /\ machine'[e] = machine[e] /\ flags'[e] = flags[e]
               /\ time'[e] = time[e] /\ executed'[e] = executed[e],
           events \subseteq Event, events' \subseteq Event,
           call[u].pc # "idle" => call[u].ev \in Event
    PROVE  ClientInv(u)'
<1>1. Home[u] # Home[t]
  BY HomeAssumption
<1>2. OwnEvents(u)' = OwnEvents(u)
  BY <1>1 DEF OwnEvents, Visible
<1>3. \A e \in Event : CameraOf[e] = Home[u] =>
          Status(e)' = Status(e) /\ (Acked(e)' <=> Acked(e)) /\ machine'[e] = machine[e] /\ time'[e] = time[e]
          /\ executed'[e] = executed[e] /\ (e \in used' <=> e \in used)
  BY <1>1 DEF Status, Acked
<1>4. \A e \in OwnEvents(u) : e \in Event /\ CameraOf[e] = Home[u]
  BY DEF OwnEvents, Visible
<1>5. Active(u)' = Active(u) /\ Unfinished(u)' = Unfinished(u)
  BY <1>2, <1>3, <1>4 DEF Active, Unfinished
<1>6. \A e \in Unfinished(u) : e \in Event /\ CameraOf[e] = Home[u]
  BY <1>4 DEF Unfinished
<1>7. Earliest(Unfinished(u))' = Earliest(Unfinished(u))
  BY <1>3, <1>5, <1>6 DEF Earliest
<1>8. StaysHome(u)' /\ OpsAreOrdered(u)' /\ OneIsActive(u)'
  BY <1>2, <1>5 DEF ClientInv, StaysHome, OpsAreOrdered, OneIsActive
<1>9. MachinesAgree(u)'
  BY <1>2, <1>3, <1>4 DEF ClientInv, MachinesAgree
<1>10. call[u].pc # "idle" => call[u].ev \in Event /\ CameraOf[call[u].ev] = Home[u]
  BY DEF ClientInv, StaysHome
<1>11. TurnsAreKept(u)'
  <2>1. IsNext(u)' <=> IsNext(u)
    BY <1>5, <1>7 DEF IsNext
  <2> QED
    BY <1>2, <1>3, <1>5, <1>10, <2>1 DEF ClientInv, TurnsAreKept, Delivering, Changing, Completing
<1>12. RunsAreCounted(u)'
  <2>1. \A e \in Event : CameraOf[e] = Home[u] => (Untouched(u, e)' <=> Untouched(u, e))
    BY <1>2, <1>3 DEF Untouched, Marking
  <2> QED
    BY <1>3, <2>1 DEF ClientInv, RunsAreCounted
<1> QED
  BY <1>8, <1>9, <1>11, <1>12 DEF ClientInv

----------------------------------------------------------------------------
(* Steps that only a call sees.                                            *)

\* A camera looks the same when none of its events was marked, archived or brought back.
LEMMA SameVisible ==
    ASSUME NEW t \in Thread, UNCHANGED <<events, flags, time>>,
           \A e \in events : machine'[e] = "archived" <=> machine[e] = "archived"
    PROVE  /\ OwnEvents(t)' = OwnEvents(t) /\ Active(t)' = Active(t)
           /\ Unfinished(t)' = Unfinished(t) /\ Earliest(Unfinished(t))' = Earliest(Unfinished(t))
           /\ \A e : Status(e)' = Status(e) /\ (Acked(e)' <=> Acked(e)) /\ (e \in Visible' <=> e \in Visible)
<1>1. \A e : Status(e)' = Status(e) /\ (Acked(e)' <=> Acked(e)) /\ (e \in Visible' <=> e \in Visible)
  BY DEF Status, Acked, Visible
<1>2. OwnEvents(t)' = OwnEvents(t)
  BY <1>1 DEF OwnEvents
<1>3. Active(t)' = Active(t) /\ Unfinished(t)' = Unfinished(t)
  BY <1>1, <1>2 DEF Active, Unfinished
<1>4. Earliest(Unfinished(t))' = Earliest(Unfinished(t))
  BY <1>3 DEF Earliest
<1> QED
  BY <1>1, <1>2, <1>3, <1>4

\* So it does when none of its events changed.
LEMMA SameView ==
    ASSUME NEW t \in Thread, UNCHANGED <<events, machine, flags, time>>
    PROVE  /\ OwnEvents(t)' = OwnEvents(t) /\ Active(t)' = Active(t)
           /\ Unfinished(t)' = Unfinished(t) /\ Earliest(Unfinished(t))' = Earliest(Unfinished(t))
           /\ \A e : Status(e)' = Status(e) /\ (Acked(e)' <=> Acked(e)) /\ (e \in Visible' <=> e \in Visible)
BY SameVisible

\* What the next event of a camera is like.
LEMMA NextIsWaiting ==
    ASSUME NEW t \in Thread, IsNext(t)
    PROVE  /\ call[t].ev \in OwnEvents(t) /\ Status(call[t].ev) = "Initial"
           /\ call[t].ev \in Visible /\ call[t].ev \in events
<1>1. call[t].ev \in OwnEvents(t) /\ ~ Acked(call[t].ev) /\ call[t].ev \notin Active(t)
  BY DEF IsNext, Earliest, Unfinished
<1> QED
  BY <1>1, StatusIs DEF Active, OwnEvents, Visible

\* A step of one call that changes no event.
LEMMA QuietKeeps ==
    ASSUME QueueInv, NEW t \in Thread, UNCHANGED <<events, machine, flags, time, used, executed>>,
           \A u \in Thread \ {t} : call'[u] = call[u] /\ seen'[u] = seen[u],
           call'[t].pc # "stamped",
           StaysHome(t)', OpsAreOrdered(t)', TurnsAreKept(t)',
           call[t].pc \in Unsettled => MachinesAgree(t)',
           call[t].op = "process" /\ call[t].pc \in Changing =>
               call'[t].op = "process" /\ call'[t].pc \in Changing /\ call'[t].ev = call[t].ev
    PROVE  \A u \in Thread : ClientInv(u)'
<1>1. ASSUME NEW u \in Thread \ {t} PROVE ClientInv(u)'
  <2>1. ClientInv(u) /\ events \subseteq Event
    BY DEF QueueInv, IndInv, TypeOK, ContextTypeOK
  <2>2. call[u].pc # "idle" => call[u].ev \in Event
    BY AboutEvents DEF QueueInv
  <2> QED
    BY <1>1, <2>1, <2>2, OthersKeep
<1>2. MachinesAgree(t)' /\ OneIsActive(t)'
  <2>1. call[t].pc \notin Unsettled => MachinesAgree(t)'
    BY SameView DEF QueueInv, ClientInv, MachinesAgree
  <2> QED
    BY <2>1, SameView DEF QueueInv, ClientInv, OneIsActive
<1>3. \A e : Untouched(t, e)' => Untouched(t, e)
  BY SameView DEF Untouched, Marking
<1>4. RunsAreCounted(t)'
  BY <1>3 DEF QueueInv, ClientInv, RunsAreCounted
<1>5. ClientInv(t)'
  BY <1>2, <1>4 DEF ClientInv
<1> QED
  BY <1>1, <1>5

\* The reads of Change between its lock regions: what they decide on is still so.
LEMMA ReadsKeep ==
    ASSUME QueueInv, NEW t \in Thread,
           \/ InContext(LookUp(t)) \/ InContext(CheckStatus(t)) \/ DispatchChange(t)
           \/ InContext(Complete(t)) \/ InContext(Confirm(t))
    PROVE  \A u \in Thread : ClientInv(u)'
<1>1. /\ UNCHANGED <<events, machine, flags, time, used, executed, seen>>
      /\ call[t].pc \in {"lookup", "guard", "dispatch", "complete", "confirm"}
      /\ call \in [Thread -> Call]
  BY DEF InContext, LookUp, CheckStatus, DispatchChange, Dispatch, Complete, Confirm, QueueInv, IndInv,
         TypeOK, ContextTypeOK
<1>2. ClientInv(t) /\ call[t].op \in {"ack", "process"}
  BY <1>1 DEF QueueInv, ClientInv, OpsAreOrdered, Delivering, Changing, Completing
<1>3. \A u \in Thread \ {t} : call'[u] = call[u]
  BY <1>1, GotoEffect, ReturnEffect
     DEF InContext, LookUp, CheckStatus, DispatchChange, Dispatch, Complete, Confirm
<1>4. call[t].pc \in Changing => IsNext(t) \/ (call[t].op = "ack" /\ call[t].ev \in Active(t))
  BY <1>1, <1>2 DEF ClientInv, TurnsAreKept, Changing
<1>5. call[t].op = "process" /\ call[t].pc \in Changing => IsNext(t)
  BY <1>2 DEF ClientInv, TurnsAreKept
<1>6. call[t].pc \in Changing =>
         /\ call[t].ev \in events /\ call[t].ev \in OwnEvents(t)
         /\ FlagOf(call[t].op) \notin flags[call[t].ev]
         /\ Status(call[t].ev) \in IF call[t].op = "process" THEN {"Initial"} ELSE {"Initial", "Processed"}
  <2>1. CASE IsNext(t)
    BY <1>2, <2>1, NextIsWaiting, StatusIs DEF FlagOf
  <2>2. CASE call[t].op = "ack" /\ call[t].ev \in Active(t)
    BY <2>2, StatusIs DEF FlagOf, Active, OwnEvents, Visible
  <2> QED
    BY <1>4, <2>1, <2>2
<1>7. CASE call[t].pc \in {"lookup", "guard", "dispatch"}
  <2>1. call'[t].pc \in {"guard", "dispatch", "move"} /\ call'[t].op = call[t].op /\ call'[t].ev = call[t].ev
    <3>1. CASE DispatchChange(t)
      <4>1. machine[call[t].ev] \in Sources(call[t].op)
        BY <1>2, <1>6, <1>7 DEF ClientInv, MachinesAgree, Sources, Changing, Unsettled
      <4> QED
        BY <1>1, <3>1, <4>1, GotoEffect DEF DispatchChange, Dispatch
    <3>2. CASE InContext(LookUp(t)) \/ InContext(CheckStatus(t))
      BY <1>1, <1>2, <1>6, <1>7, <3>2, GotoEffect DEF InContext, LookUp, CheckStatus, Changing
    <3> QED
      BY <1>7, <3>1, <3>2 DEF InContext, Complete, Confirm
  <2>2. StaysHome(t)' /\ OpsAreOrdered(t)'
    BY <1>1, <1>2, <2>1 DEF ClientInv, StaysHome, OpsAreOrdered, Changing
  <2>3. IsNext(t)' <=> IsNext(t)
    BY <1>1, <2>1, SameView DEF IsNext
  <2>4. TurnsAreKept(t)'
    BY <1>1, <1>2, <1>4, <1>5, <1>7, <2>1, <2>3, SameView DEF TurnsAreKept, Changing, Delivering, Completing
  <2> QED
    BY <1>1, <1>3, <1>7, <2>1, <2>2, <2>4, QuietKeeps DEF Changing, Unsettled
<1>8. CASE call[t].pc = "complete"
  <2>1. /\ call'[t].pc = IF machine[call[t].ev] = "ack" THEN "finish" ELSE "confirm"
        /\ call'[t].op = call[t].op /\ call'[t].ev = call[t].ev
    BY <1>1, <1>8, GotoEffect DEF InContext, LookUp, CheckStatus, DispatchChange, Dispatch, Complete, Confirm
  <2>2. /\ machine[call[t].ev] \in {Target(call[t].op), Final(call[t].op)}
        /\ call[t].op = "process" => call[t].ev \in Active(t)
        /\ call[t].op = "ack" => call[t].ev \in OwnEvents(t) /\ Acked(call[t].ev) /\ Active(t) = {}
    BY <1>2, <1>8 DEF ClientInv, TurnsAreKept, Completing
  <2>3. StaysHome(t)' /\ OpsAreOrdered(t)'
    BY <1>1, <1>2, <1>8, <2>1, <2>2 DEF ClientInv, StaysHome, OpsAreOrdered, Completing, Target, Final
  <2>4. TurnsAreKept(t)'
    BY <1>1, <1>2, <1>8, <2>1, <2>2, SameView DEF TurnsAreKept, Changing, Delivering, Completing
  <2>5. MachinesAgree(t)'
    <3>1. CASE call'[t].pc = "finish"
      BY <1>1, <1>2, <1>8, <2>1, <3>1, SameView DEF ClientInv, MachinesAgree, Unsettled
    <3>2. CASE call'[t].pc = "confirm"
      <4>1. machine[call[t].ev] = Final(call[t].op)
        BY <1>2, <2>1, <2>2, <3>2 DEF Target, Final
      <4>2. IF call[t].op = "process" THEN Status(call[t].ev) = "Processed" ELSE Acked(call[t].ev)
        BY <1>2, <2>2 DEF Active
      <4> QED
        BY <1>1, <1>2, <1>8, <2>1, <3>2, <4>1, <4>2, SameView, StatusIs
           DEF ClientInv, MachinesAgree, Unsettled, Final
    <3> QED
      BY <2>1, <3>1, <3>2
  <2> QED
    BY <1>1, <1>3, <1>8, <2>1, <2>3, <2>4, <2>5, QuietKeeps DEF Changing
<1>9. CASE call[t].pc = "confirm"
  <2>1. \/ call'[t].pc = "idle"
        \/ call'[t].pc = "signal" /\ call'[t].op = call[t].op /\ call'[t].ev = call[t].ev
    BY <1>1, <1>9, GotoEffect, ReturnEffect
       DEF InContext, LookUp, CheckStatus, DispatchChange, Dispatch, Complete, Confirm
  <2>2. StaysHome(t)' /\ OpsAreOrdered(t)'
    BY <1>1, <1>2, <1>9, <2>1 DEF ClientInv, StaysHome, OpsAreOrdered, Delivering
  <2>3. TurnsAreKept(t)'
    BY <1>1, <1>2, <1>9, <2>1, SameView DEF ClientInv, TurnsAreKept, Changing, Delivering, Completing
  <2> QED
    BY <1>1, <1>3, <1>9, <2>1, <2>2, <2>3, QuietKeeps DEF Changing, Unsettled
<1> QED
  BY <1>1, <1>7, <1>8, <1>9

\* A removal does nothing but deliver, and a handler that is delivered to sees its own camera.
LEMMA DeliveriesKeep ==
    ASSUME QueueInv, NEW t \in Thread, Deliver(t) \/ Snapshot(t)
    PROVE  \A u \in Thread : ClientInv(u)'
<1>1. /\ UNCHANGED <<events, machine, flags, time, used, executed>>
      /\ call[t].pc \in Delivering
      /\ call'[t].pc \in {"snapshot", "choose"} /\ call'[t].op = call[t].op /\ call'[t].ev = call[t].ev
      /\ \A u \in Thread \ {t} : call'[u] = call[u] /\ seen'[u] = seen[u]
  BY GotoEffect DEF Deliver, Snapshot, QueueInv, IndInv, TypeOK, ContextTypeOK, Delivering
<1>2. ClientInv(t)
  BY DEF QueueInv
<1>3. CameraOf[call[t].ev] = Home[t]
  BY <1>1, <1>2 DEF ClientInv, StaysHome, Delivering
<1>4. call'[t].pc = "choose" => seen'[t] = OwnEvents(t)
  BY <1>3, GotoEffect DEF Deliver, Snapshot, QueueInv, IndInv, TypeOK, ContextTypeOK, SameCamera, OwnEvents
<1>5. StaysHome(t)'
  BY <1>1, <1>3, <1>4, SameView DEF StaysHome
<1>6. OpsAreOrdered(t)' /\ TurnsAreKept(t)'
  BY <1>1, <1>2, SameView DEF ClientInv, OpsAreOrdered, TurnsAreKept, Changing, Delivering, Completing
<1> QED
  BY <1>1, <1>5, <1>6, QuietKeeps DEF Changing, Delivering, Unsettled

\* What is picked while the mutex of the context is free is still the next event of its camera: of a new
\* event, that no other is busy; after an acknowledgement, the oldest that waits.
LEMMA ChooseKeeps ==
    ASSUME QueueInv, NEW t \in Thread, Choose(t)
    PROVE  \A u \in Thread : ClientInv(u)'
<1>1. /\ UNCHANGED <<events, machine, flags, time, used, executed>>
      /\ call[t].pc = "choose" /\ call[t] \in Call /\ call \in [Thread -> Call]
      /\ \A u \in Thread \ {t} : call'[u] = call[u] /\ seen'[u] = seen[u]
  BY ReturnEffect DEF Choose, QueueInv, IndInv, TypeOK, ContextTypeOK
<1>2. ClientInv(t) /\ seen[t] = OwnEvents(t) /\ time \in [Event -> Nat] /\ OwnEvents(t) \subseteq used
  BY <1>1 DEF QueueInv, ClientInv, StaysHome, IndInv, TypeOK, ContextTypeOK, OwnEvents, Visible, Fresh, Published
<1>3. \A e \in OwnEvents(t) : e \in Event /\ CameraOf[e] = Home[t] /\ time[e] \in Nat
  BY <1>2 DEF OwnEvents, Visible, QueueInv, IndInv, TypeOK, ContextTypeOK
<1>4. Waiting(t) = {e \in OwnEvents(t) : Status(e) = "Initial"}
  BY <1>2 DEF Waiting
<1>5. ASSUME NEW e \in ToRun(t)
      PROVE  /\ Active(t) = {} /\ e \in Earliest(Unfinished(t))
             /\ call[t].op \in {"create", "ack"}
  <2>1. CASE call[t].op = "create"
    <3>1. e = call[t].ev /\ e \in OwnEvents(t) /\ Status(e) = "Initial"
      BY <1>1, <1>2, <2>1 DEF ToRun, ClientInv, TurnsAreKept, Delivering
    <3>2. Cardinality(Busy(t)) <= 1
      BY <2>1 DEF ToRun
    <3>3. IsFiniteSet(Busy(t)) /\ e \in Busy(t)
      <4>1. IsFiniteSet(used) /\ Busy(t) \subseteq used
        BY <1>2 DEF QueueInv, Busy
      <4> QED
        BY <1>2, <3>1, <4>1, FS_Subset DEF Busy
    <3>4. Busy(t) = {e}
      <4>1. \A f \in Busy(t) : f = e
        <5> SUFFICES ASSUME NEW f \in Busy(t), f # e PROVE FALSE
          OBVIOUS
        <5>1. IsFiniteSet(Busy(t) \ {e}) /\ Cardinality(Busy(t) \ {e}) = Cardinality(Busy(t)) - 1
          BY <3>3, FS_RemoveElement
        <5>2. Cardinality(Busy(t)) \in Nat /\ Cardinality(Busy(t) \ {e}) \in Nat
          BY <3>3, <5>1, FS_CardinalityType
        <5>3. Cardinality(Busy(t) \ {e}) = 0
          BY <3>2, <5>1, <5>2
        <5>4. Busy(t) \ {e} = {}
          BY <5>1, <5>3, FS_EmptySet
        <5> QED
          BY <5>4
      <4> QED
        BY <3>3, <4>1
    <3>5. \A f \in OwnEvents(t) : Status(f) \in {"Initial", "Processed"} => f = e
      BY <1>2, <3>4 DEF Busy
    <3>6. Active(t) = {} /\ Unfinished(t) = {e}
      BY <3>1, <3>5, StatusIs DEF Active, Unfinished
    <3> QED
      BY <1>3, <2>1, <3>1, <3>6 DEF Earliest
  <2>2. CASE call[t].op = "ack"
    <3>1. Active(t) = {} /\ e \in Earliest(Waiting(t))
      BY <1>1, <1>2, <2>2 DEF ToRun, ClientInv, TurnsAreKept, Delivering
    <3>2. Unfinished(t) = Waiting(t)
      BY <1>4, <3>1, StatusIs DEF Unfinished, Active
    <3> QED
      BY <2>2, <3>1, <3>2
  <2>3. call[t].op \in {"create", "ack"}
    <3>1. call[t].op # "remove"
      BY DEF ToRun
    <3>2. call[t].op # "process"
      BY <1>1, <1>2, StatusIs DEF ToRun, ClientInv, TurnsAreKept, Delivering, Active
    <3> QED
      BY <1>1, <1>2, <3>1, <3>2 DEF ClientInv, OpsAreOrdered
  <2> QED
    BY <2>1, <2>2, <2>3
<1>6. \/ call'[t].pc = "idle"
      \/ /\ call'[t].ev \in ToRun(t) /\ call'[t].pc = "act" /\ call'[t].op = call[t].op
  BY <1>1, ReturnEffect DEF Choose, Call
<1>7. call'[t].pc = "act" =>
         /\ Active(t) = {} /\ call'[t].ev \in Earliest(Unfinished(t)) /\ call'[t].op \in {"create", "ack"}
         /\ CameraOf[call'[t].ev] = Home[t]
  <2>1. \A e \in Earliest(Unfinished(t)) : CameraOf[e] = Home[t]
    BY <1>3 DEF Earliest, Unfinished
  <2> QED
    BY <1>5, <1>6, <2>1
<1>8. StaysHome(t)' /\ OpsAreOrdered(t)'
  BY <1>6, <1>7 DEF StaysHome, OpsAreOrdered
<1>9. TurnsAreKept(t)'
  BY <1>1, <1>6, <1>7, SameView DEF TurnsAreKept, IsNext, Changing, Delivering, Completing
<1> QED
  BY <1>1, <1>6, <1>8, <1>9, QuietKeeps DEF Changing, Unsettled

\* The client acknowledges what it sees as next, or as active.
LEMMA AckKeeps ==
    ASSUME QueueInv, NEW t \in Thread, NEW e \in Event, InContext(AckNext(t, e))
    PROVE  \A u \in Thread : ClientInv(u)'
<1>1. /\ UNCHANGED <<events, machine, flags, time, used, executed, seen>>
      /\ call[t].pc = "idle" /\ call'[t].pc = "lookup" /\ call'[t].op = "ack" /\ call'[t].ev = e
      /\ \A u \in Thread \ {t} : call'[u] = call[u]
  BY BeginEffect DEF InContext, AckNext, BeginAck, QueueInv, IndInv, TypeOK, ContextTypeOK
<1>2. (Active(t) = {} /\ e \in Earliest(Unfinished(t))) \/ e \in Active(t)
  BY DEF InContext, AckNext
<1>3. CameraOf[e] = Home[t]
  BY <1>2 DEF Earliest, Unfinished, Active, OwnEvents
<1>4. StaysHome(t)' /\ OpsAreOrdered(t)'
  BY <1>1, <1>3 DEF StaysHome, OpsAreOrdered, Changing
<1>5. TurnsAreKept(t)'
  BY <1>1, <1>2, SameView DEF TurnsAreKept, IsNext, Changing, Delivering, Completing
<1> QED
  BY <1>1, <1>4, <1>5, QuietKeeps DEF Changing, Unsettled

----------------------------------------------------------------------------
(* Steps that change events.                                               *)

\* A step about one event of the thread's camera: the others keep their places.
LEMMA OwnStepKeeps ==
    ASSUME QueueInv, NEW t \in Thread, NEW e \in Event, CameraOf[e] = Home[t],
           \A u \in Thread \ {t} : call'[u] = call[u] /\ seen'[u] = seen[u],
           events' \ {e} = events \ {e}, used' \ {e} = used \ {e}, events' \subseteq Event,
           \A f \in Event \ {e} :
               /\ machine'[f] = machine[f] /\ flags'[f] = flags[f]
               /\ time'[f] = time[f] /\ executed'[f] = executed[f]
    PROVE  /\ \A u \in Thread \ {t} : ClientInv(u)'
           /\ \A f \in Event \ {e} :
                 /\ Status(f)' = Status(f) /\ (Acked(f)' <=> Acked(f))
                 /\ f \in OwnEvents(t)' <=> f \in OwnEvents(t)
                 /\ f \in Active(t)' <=> f \in Active(t)
                 /\ f \in Unfinished(t)' <=> f \in Unfinished(t)
           /\ OwnEvents(t) \subseteq Event /\ OwnEvents(t)' \subseteq Event
<1>1. ASSUME NEW u \in Thread \ {t} PROVE ClientInv(u)'
  <2>1. ClientInv(u) /\ events \subseteq Event
    BY DEF QueueInv, IndInv, TypeOK, ContextTypeOK
  <2>2. call[u].pc # "idle" => call[u].ev \in Event
    BY AboutEvents DEF QueueInv
  <2>3. \A f \in Event : CameraOf[f] # Home[t] =>
               /\ f \in events' <=> f \in events
               /\ f \in used' <=> f \in used
               /\ machine'[f] = machine[f] /\ flags'[f] = flags[f]
               /\ time'[f] = time[f] /\ executed'[f] = executed[f]
    OBVIOUS
  <2> QED
    BY <1>1, <2>1, <2>2, <2>3, OthersKeep
<1>2. \A f \in Event \ {e} : Status(f)' = Status(f) /\ (Acked(f)' <=> Acked(f)) /\ (f \in Visible' <=> f \in Visible)
  BY DEF Status, Acked, Visible
<1>3. \A f \in Event \ {e} : f \in OwnEvents(t)' <=> f \in OwnEvents(t)
  BY <1>2 DEF OwnEvents
<1>4. OwnEvents(t) \subseteq Event /\ OwnEvents(t)' \subseteq Event
  BY DEF OwnEvents, Visible, QueueInv, IndInv, TypeOK, ContextTypeOK
<1> QED
  BY <1>1, <1>2, <1>3, <1>4 DEF Active, Unfinished

\* A new event is nobody else's.
LEMMA StampKeeps ==
    ASSUME QueueInv, NEW t \in Thread, NEW e \in Event, CameraOf[e] = Home[t], InContext(StampEvent(t, e))
    PROVE  \A u \in Thread : ClientInv(u)'
<1>1. /\ UNCHANGED <<events, machine, flags, executed, seen>>
      /\ call[t].pc = "idle" /\ call'[t].pc = "stamped" /\ call'[t].op = "create" /\ call'[t].ev = e
      /\ e \notin used /\ used' = used \cup {e}
      /\ \A f \in Event \ {e} : time'[f] = time[f]
      /\ \A u \in Thread \ {t} : call'[u] = call[u]
      /\ events \subseteq Event
  BY BeginEffect DEF InContext, StampEvent, QueueInv, IndInv, TypeOK, ContextTypeOK
<1>2. ClientInv(t)
  BY DEF QueueInv
<1>3. \A u \in Thread \ {t} : ClientInv(u)'
  BY <1>1, OwnStepKeeps
<1>4. \A f : Status(f)' = Status(f) /\ (Acked(f)' <=> Acked(f))
  BY <1>1 DEF Status, Acked
<1>5. OwnEvents(t)' = OwnEvents(t) /\ Active(t)' = Active(t)
  BY <1>1, <1>4 DEF OwnEvents, Active, Visible
<1>6. StaysHome(t)' /\ OpsAreOrdered(t)' /\ MachinesAgree(t)' /\ OneIsActive(t)' /\ TurnsAreKept(t)'
  BY <1>1, <1>2, <1>4, <1>5
     DEF ClientInv, StaysHome, OpsAreOrdered, MachinesAgree, Unsettled, OneIsActive, TurnsAreKept, Changing, Delivering, Completing
<1>7. RunsAreCounted(t)'
  <2>1. \A f \in Event : Untouched(t, f)' => Untouched(t, f)
    BY <1>1, <1>4, <1>5 DEF Untouched, Marking, Changing
  <2> QED
    BY <1>1, <1>2, <2>1 DEF ClientInv, RunsAreCounted
<1> QED
  BY <1>3, <1>6, <1>7 DEF ClientInv

\* The new event waits, and nobody has run it.
LEMMA CreateKeeps ==
    ASSUME QueueInv, NEW t \in Thread, InContext(Create(t))
    PROVE  \A u \in Thread : ClientInv(u)'
<1> DEFINE e == call[t].ev
<1>1. /\ UNCHANGED <<used, time, executed, seen>>
      /\ call[t].pc = "stamped" /\ call'[t].pc = "signal" /\ call'[t].op = call[t].op /\ call'[t].ev = e
      /\ \A u \in Thread \ {t} : call'[u] = call[u]
      /\ e \in Event /\ events' = events \cup {e} /\ events \subseteq Event
      /\ machine' = [machine EXCEPT ![e] = "created"] /\ flags' = [flags EXCEPT ![e] = {}]
      /\ machine \in [Event -> MachineState] /\ flags \in [Event -> SUBSET Flag]
  BY GotoEffect, AboutEvents DEF InContext, Create, QueueInv, IndInv, TypeOK, ContextTypeOK
<1>2. ClientInv(t) /\ CameraOf[e] = Home[t] /\ call[t].op = "create"
  BY <1>1 DEF QueueInv, ClientInv, StaysHome, OpsAreOrdered, Delivering, Changing, Completing
<1>3. e \notin events
  BY <1>1 DEF QueueInv, IndInv, Fresh, Published
<1>4. machine'[e] = "created" /\ flags'[e] = {} /\ \A f \in Event \ {e} : machine'[f] = machine[f] /\ flags'[f] = flags[f]
  BY <1>1
<1> HIDE DEF e
<1>5. /\ \A u \in Thread \ {t} : ClientInv(u)'
      /\ \A f \in Event \ {e} :
                 /\ Status(f)' = Status(f) /\ (Acked(f)' <=> Acked(f))
                 /\ f \in OwnEvents(t)' <=> f \in OwnEvents(t)
                 /\ f \in Active(t)' <=> f \in Active(t)
                 /\ f \in Unfinished(t)' <=> f \in Unfinished(t)
      /\ OwnEvents(t) \subseteq Event /\ OwnEvents(t)' \subseteq Event
  BY <1>1, <1>2, <1>4, OwnStepKeeps
<1>6. \A f : f = e => Status(f)' = "Initial" /\ ~ Acked(f)' /\ f \in OwnEvents(t)' /\ f \notin Active(t)' /\ f \notin OwnEvents(t) /\ f \notin Active(t)
  BY <1>1, <1>2, <1>3, <1>4 DEF Status, Acked, OwnEvents, Visible, Active
<1>7. StaysHome(t)' /\ OpsAreOrdered(t)'
  BY <1>1, <1>2 DEF StaysHome, OpsAreOrdered, Delivering
<1>8. MachinesAgree(t)'
  BY <1>1, <1>2, <1>4, <1>5, <1>6 DEF ClientInv, MachinesAgree, Unsettled
<1>9. OneIsActive(t)'
  <2>1. Active(t)' = Active(t)
    BY <1>5, <1>6 DEF Active
  <2> QED
    BY <1>2, <2>1 DEF ClientInv, OneIsActive
<1>10. TurnsAreKept(t)'
  BY <1>1, <1>2, <1>6 DEF TurnsAreKept, Changing, Delivering, Completing
<1>11. RunsAreCounted(t)'
  <2>1. Untouched(t, e)
    BY <1>1 DEF Untouched, e
  <2>2. \A f \in Event \ {e} : Untouched(t, f)' => Untouched(t, f)
    BY <1>1, <1>5 DEF Untouched, Marking, Changing
  <2> QED
    BY <1>1, <1>2, <2>1, <2>2 DEF ClientInv, RunsAreCounted
<1> QED
  BY <1>5, <1>7, <1>8, <1>9, <1>10, <1>11 DEF ClientInv

\* The machine is written: the event keeps its place until it is marked.
LEMMA MoveKeeps ==
    ASSUME QueueInv, NEW t \in Thread, InContext(Move(t)) \/ InContext(Finish(t))
    PROVE  /\ \A u \in Thread : ClientInv(u)'
           /\ \A f \in Event : (f \in Visible' <=> f \in Visible) /\ Status(f)' = Status(f)
<1> DEFINE e == call[t].ev
<1>1. /\ UNCHANGED <<events, flags, used, time, executed, seen>>
      /\ call[t].pc \in {"move", "finish"} /\ call'[t].op = call[t].op /\ call'[t].ev = e
      /\ call'[t].pc = IF call[t].pc = "move" THEN "mark" ELSE "complete"
      /\ \A u \in Thread \ {t} : call'[u] = call[u]
      /\ e \in Event /\ events \subseteq Event
      /\ machine \in [Event -> MachineState]
      /\ machine' = [machine EXCEPT ![e] = IF call[t].pc = "move" THEN Target(call[t].op) ELSE "X"]
  BY AboutEvents, GotoEffect DEF InContext, Move, Finish, QueueInv, IndInv, TypeOK, ContextTypeOK
<1>2. ClientInv(t) /\ CameraOf[e] = Home[t] /\ call[t].op \in {"ack", "process"}
  BY <1>1 DEF QueueInv, ClientInv, StaysHome, OpsAreOrdered, Delivering, Changing, Completing
<1>3. \A f \in Event : machine'[f] = "archived" <=> machine[f] = "archived"
  <2>1. machine[e] # "archived"
    BY <1>1 DEF QueueInv, IndInv, ArchiveIsOutOfReach
  <2> QED
    BY <1>1, <2>1 DEF Target
<1>4. /\ \A f \in Event \ {e} : machine'[f] = machine[f]
      /\ machine'[e] = IF call[t].pc = "move" THEN Target(call[t].op) ELSE "X"
  BY <1>1
<1>5. /\ OwnEvents(t)' = OwnEvents(t) /\ Active(t)' = Active(t)
      /\ Unfinished(t)' = Unfinished(t) /\ Earliest(Unfinished(t))' = Earliest(Unfinished(t))
      /\ \A f : Status(f)' = Status(f) /\ (Acked(f)' <=> Acked(f)) /\ (f \in Visible' <=> f \in Visible)
  BY <1>1, <1>3, SameVisible
<1>6. IsNext(t)' <=> IsNext(t)
  BY <1>1, <1>5 DEF IsNext
<1> HIDE DEF e
<1>7. \A u \in Thread \ {t} : ClientInv(u)'
  BY <1>1, <1>2, <1>4, OwnStepKeeps
<1>8. StaysHome(t)' /\ OpsAreOrdered(t)' /\ OneIsActive(t)'
  BY <1>1, <1>2, <1>5 DEF ClientInv, StaysHome, OpsAreOrdered, OneIsActive, Changing, Completing, e
<1>9. MachinesAgree(t)'
  <2>1. \A f \in OwnEvents(t) : f \in Event
    BY <1>1 DEF OwnEvents, Visible
  <2> QED
    BY <1>1, <1>2, <1>4, <1>5, <2>1 DEF ClientInv, MachinesAgree, Unsettled, e
<1>10. TurnsAreKept(t)'
  <2>1. CASE call[t].pc = "move"
    BY <1>1, <1>2, <1>4, <1>5, <1>6, <2>1
       DEF ClientInv, TurnsAreKept, Changing, Delivering, Completing, e
  <2>2. CASE call[t].pc = "finish"
    <3>1. call[t].op = "ack"
      BY <1>2, <2>2 DEF ClientInv, OpsAreOrdered, Changing, Delivering, Completing
    <3> QED
      BY <1>1, <1>2, <1>4, <1>5, <2>2, <3>1
         DEF ClientInv, TurnsAreKept, Changing, Delivering, Completing, Final, e
  <2> QED
    BY <1>1, <2>1, <2>2
<1>11. RunsAreCounted(t)'
  <2>1. \A f \in Event : Untouched(t, f)' => Untouched(t, f)
    BY <1>1, <1>5 DEF Untouched, Marking, Changing, e
  <2> QED
    BY <1>1, <1>2, <2>1 DEF ClientInv, RunsAreCounted
<1> QED
  BY <1>5, <1>7, <1>8, <1>9, <1>10, <1>11 DEF ClientInv

\* The event was still as it was found when the transition marks it, so it becomes active, or is done.
LEMMA MarkKeeps ==
    ASSUME QueueInv, NEW t \in Thread, InContext(Mark(t))
    PROVE  /\ \A u \in Thread : ClientInv(u)'
           /\ \/ /\ IsNext(t) /\ \A e : e = call[t].ev => Status(e)' = "Processed"
              \/ /\ IsNext(t) \/ call[t].ev \in Active(t)
                 /\ \A e : e = call[t].ev => Acked(e)'
           /\ \A f \in Event : f # call[t].ev => (f \in Visible' <=> f \in Visible) /\ Status(f)' = Status(f)
<1> DEFINE e == call[t].ev
<1>1. /\ UNCHANGED <<events, machine, used, time, executed, seen>>
      /\ call[t].pc = "mark" /\ call'[t].pc = "complete" /\ call'[t].op = call[t].op /\ call'[t].ev = e
      /\ \A u \in Thread \ {t} : call'[u] = call[u]
      /\ e \in Event /\ events \subseteq Event
      /\ machine \in [Event -> MachineState] /\ flags \in [Event -> SUBSET Flag]
  BY AboutEvents, GotoEffect DEF InContext, Mark, QueueInv, IndInv, TypeOK, ContextTypeOK
<1>2. /\ ClientInv(t) /\ CameraOf[e] = Home[t] /\ call[t].op \in {"ack", "process"}
      /\ IsNext(t) \/ (call[t].op = "ack" /\ e \in Active(t))
      /\ machine[e] = Target(call[t].op)
  BY <1>1 DEF QueueInv, ClientInv, StaysHome, OpsAreOrdered, Delivering, Changing, Completing, TurnsAreKept
<1>3. e \in OwnEvents(t) /\ e \in events /\ Status(e) \in {"Initial", "Processed"} /\ (Status(e) = "Processed" => e \in Active(t))
  BY <1>2, NextIsWaiting DEF Active, OwnEvents, Visible
<1>4. Status(e) = "Initial" => IsNext(t)
  BY <1>2 DEF Active
<1>6. /\ flags'[e] = flags[e] \cup {FlagOf(call[t].op)} /\ machine'[e] = Target(call[t].op)
      /\ \A f \in Event \ {e} : machine'[f] = machine[f] /\ flags'[f] = flags[f]
  BY <1>1, <1>2 DEF InContext, Mark
<1>7. \A f : f = e => Status(f) = Status(e)
  OBVIOUS
<1> HIDE DEF e
<1>8. /\ \A u \in Thread \ {t} : ClientInv(u)'
      /\ \A f \in Event \ {e} :
                 /\ Status(f)' = Status(f) /\ (Acked(f)' <=> Acked(f))
                 /\ f \in OwnEvents(t)' <=> f \in OwnEvents(t)
                 /\ f \in Active(t)' <=> f \in Active(t)
                 /\ f \in Unfinished(t)' <=> f \in Unfinished(t)
      /\ OwnEvents(t) \subseteq Event /\ OwnEvents(t)' \subseteq Event
  BY <1>1, <1>2, <1>6, OwnStepKeeps
<1>9. \A f : f = e =>
         /\ f \in OwnEvents(t)'
         /\ call[t].op = "ack" => Acked(f)' /\ Status(f)' \notin {"Initial", "Processed"}
         /\ call[t].op = "process" => Status(f)' = "Processed" /\ ~ Acked(f)'
  <2>1. (e \in OwnEvents(t) /\ "acknowledged" \notin flags[e]) \/ call[t].op = "ack"
    BY <1>2, <1>3, StatusIs
  <2>2. machine'[e] # "archived"
    BY <1>2, <1>6 DEF Target
  <2> QED
    BY <1>1, <1>2, <1>3, <1>6, <2>1, <2>2 DEF FlagOf, Target, Status, Acked, OwnEvents, Visible
<1>10. Active(t)' \subseteq Event /\ Active(t) \subseteq Event
  BY <1>8 DEF Active
<1>11. CASE call[t].op = "ack"
  <2>1. Active(t) \subseteq {e}
    BY <1>2 DEF IsNext, ClientInv, OneIsActive
  <2>2. Active(t)' = {}
    <3>1. \A f : f = e => f \notin Active(t)'
      BY <1>9, <1>11 DEF Active
    <3> QED
      BY <1>8, <1>10, <2>1, <3>1
  <2>3. StaysHome(t)' /\ OpsAreOrdered(t)'
    BY <1>1, <1>2, <1>11 DEF StaysHome, OpsAreOrdered, Completing
  <2>4. MachinesAgree(t)'
    BY <1>1, <1>2, <1>6, <1>8, <1>9, <1>11 DEF ClientInv, MachinesAgree, Unsettled, e
  <2>5. OneIsActive(t)' /\ TurnsAreKept(t)'
    BY <1>1, <1>2, <1>9, <1>11, <2>2 DEF OneIsActive, TurnsAreKept, Changing, Delivering, Completing
  <2>6. RunsAreCounted(t)'
    <3>1. \A f \in Event : Untouched(t, f)' => Untouched(t, f)
      BY <1>1, <1>8, <1>9, <1>11 DEF Untouched, Marking, Changing, e
    <3> QED
      BY <1>1, <1>2, <3>1 DEF ClientInv, RunsAreCounted
  <2>7. \A f \in Event : f # e => (f \in Visible' <=> f \in Visible) /\ Status(f)' = Status(f)
    BY <1>1, <1>6, <1>8 DEF Visible
  <2> QED
    BY <1>2, <1>8, <1>9, <1>11, <2>3, <2>4, <2>5, <2>6, <2>7 DEF ClientInv, e
<1>12. CASE call[t].op = "process"
  <2>1. IsNext(t)
    BY <1>2, <1>12
  <2>2. Active(t)' = {e}
    <3>1. \A f : f = e => f \in Active(t)'
      BY <1>9, <1>12 DEF Active
    <3>2. Active(t) = {}
      BY <2>1 DEF IsNext
    <3> QED
      BY <1>8, <1>10, <3>1, <3>2
  <2>3. StaysHome(t)' /\ OpsAreOrdered(t)'
    BY <1>1, <1>2, <1>12 DEF StaysHome, OpsAreOrdered, Completing
  <2>4. MachinesAgree(t)'
    BY <1>1, <1>2, <1>6, <1>8, <1>9, <1>12 DEF ClientInv, MachinesAgree, Unsettled, e
  <2>5. OneIsActive(t)' /\ TurnsAreKept(t)'
    BY <1>1, <1>2, <1>9, <1>12, <2>2 DEF OneIsActive, TurnsAreKept, Changing, Delivering, Completing
  <2>6. RunsAreCounted(t)'
    <3>1. \A f \in Event : Untouched(t, f)' => Untouched(t, f)
      BY <1>1, <1>8, <1>9, <1>12 DEF Untouched, Marking, Changing, e
    <3> QED
      BY <1>1, <1>2, <3>1 DEF ClientInv, RunsAreCounted
  <2>7. \A f \in Event : f # e => (f \in Visible' <=> f \in Visible) /\ Status(f)' = Status(f)
    BY <1>1, <1>6, <1>8 DEF Visible
  <2>8. \A f : f = e => Status(f)' = "Processed"
    BY <1>9, <1>12
  <2> QED
    BY <1>8, <2>1, <2>3, <2>4, <2>5, <2>6, <2>7, <2>8 DEF ClientInv, e
<1> QED
  BY <1>2, <1>11, <1>12

\* An action is run for the event that is next, which nobody has run before.
LEMMA RunKeeps ==
    ASSUME QueueInv, NEW t \in Thread, RunAction(t)
    PROVE  \A u \in Thread : ClientInv(u)'
<1> DEFINE e == call[t].ev
<1>1. /\ UNCHANGED <<events, machine, flags, time, used, seen>>
      /\ call[t].pc = "act" /\ e \in Event /\ call[t] \in Call
      /\ call \in [Thread -> Call] /\ executed \in [Event -> Nat] /\ events \subseteq Event
      /\ \A u \in Thread \ {t} : call'[u] = call[u]
  BY AboutEvents, ReturnEffect DEF RunAction, QueueInv, IndInv, TypeOK, ContextTypeOK
<1>2. ClientInv(t) /\ CameraOf[e] = Home[t] /\ IsNext(t)
  BY <1>1 DEF QueueInv, ClientInv, StaysHome, TurnsAreKept
<1>3. e \in OwnEvents(t) /\ Status(e) = "Initial" /\ e \in used
  BY <1>2, NextIsWaiting DEF QueueInv, IndInv, Fresh, Published
<1>4. executed[e] = 0
  <2>1. Untouched(t, e)
    BY <1>1, <1>3 DEF Untouched, Marking, Changing
  <2> QED
    BY <1>1, <1>2, <2>1 DEF ClientInv, RunsAreCounted
<1>5. \/ call'[t].pc = "idle" /\ executed' = executed
      \/ /\ call'[t].pc = "lookup" /\ call'[t].op = "process" /\ call'[t].ev = e
         /\ executed'[e] = 1 /\ \A f \in Event \ {e} : executed'[f] = executed[f]
  BY <1>1, <1>4, ReturnEffect DEF RunAction, Call
<1> HIDE DEF e
<1>6. \A u \in Thread \ {t} : ClientInv(u)'
  BY <1>1, <1>2, <1>5, OwnStepKeeps
<1>7. StaysHome(t)' /\ OpsAreOrdered(t)'
  BY <1>2, <1>5 DEF StaysHome, OpsAreOrdered, Changing
<1>8. MachinesAgree(t)' /\ OneIsActive(t)'
  BY <1>1, <1>2, SameView DEF ClientInv, MachinesAgree, Unsettled, OneIsActive
<1>9. TurnsAreKept(t)'
  <2>1. call'[t].ev = e => (IsNext(t)' <=> IsNext(t))
    BY <1>1, SameView DEF IsNext, e
  <2> QED
    BY <1>2, <1>5, <2>1 DEF TurnsAreKept, Changing, Delivering, Completing
<1>10. RunsAreCounted(t)'
  <2>1. \A f \in Event : Untouched(t, f)' => Untouched(t, f)
    BY <1>1, <1>5, SameView DEF Untouched, Marking, Changing
  <2>2. call'[t].pc # "idle" => \A f : f = e => ~ Untouched(t, f)'
    BY <1>1, <1>3, <1>5 DEF Untouched, Marking, Changing
  <2> QED
    BY <1>2, <1>5, <2>1, <2>2 DEF ClientInv, RunsAreCounted
<1> QED
  BY <1>6, <1>7, <1>8, <1>9, <1>10 DEF ClientInv

\* An event that is removed was done.
LEMMA RemoveKeeps ==
    ASSUME QueueInv, NEW t \in Thread, NEW e \in OwnEvents(t), Acked(e), RemoveFromContext(t, e)
    PROVE  \A u \in Thread : ClientInv(u)'
<1>1. /\ UNCHANGED <<flags, used, time, executed, seen>>
      /\ call[t].pc = "idle" /\ call'[t].pc = "signal" /\ call'[t].op = "remove" /\ call'[t].ev = e
      /\ \A u \in Thread \ {t} : call'[u] = call[u]
      /\ e \in Event /\ CameraOf[e] = Home[t] /\ e \in events /\ events' = events \ {e} /\ events' \subseteq Event
      /\ e \in used
  BY BeginEffect DEF RemoveFromContext, RemoveEvent, QueueInv, IndInv, TypeOK, ContextTypeOK, OwnEvents, Visible, Fresh, Published
<1>2. \A f \in Event \ {e} : machine'[f] = machine[f]
  BY DEF RemoveFromContext, RemoveEvent, QueueInv, IndInv, TypeOK, ContextTypeOK
<1>3. ClientInv(t)
  BY DEF QueueInv
<1>4. /\ \A u \in Thread \ {t} : ClientInv(u)'
      /\ \A f \in Event \ {e} :
                 /\ Status(f)' = Status(f) /\ (Acked(f)' <=> Acked(f))
                 /\ f \in OwnEvents(t)' <=> f \in OwnEvents(t)
                 /\ f \in Active(t)' <=> f \in Active(t)
                 /\ f \in Unfinished(t)' <=> f \in Unfinished(t)
      /\ OwnEvents(t) \subseteq Event /\ OwnEvents(t)' \subseteq Event
  BY <1>1, <1>2, OwnStepKeeps
<1>5. e \notin OwnEvents(t)' /\ e \notin Active(t) /\ e \notin Active(t)'
  BY <1>1, StatusIs DEF OwnEvents, Visible, Active
<1>6. StaysHome(t)' /\ OpsAreOrdered(t)'
  BY <1>1 DEF StaysHome, OpsAreOrdered, Delivering
<1>7. MachinesAgree(t)'
  BY <1>1, <1>2, <1>3, <1>4, <1>5 DEF ClientInv, MachinesAgree, Unsettled
<1>8. OneIsActive(t)'
  <2>1. Active(t)' = Active(t)
    BY <1>4, <1>5 DEF Active
  <2> QED
    BY <1>3, <2>1 DEF ClientInv, OneIsActive
<1>9. TurnsAreKept(t)'
  BY <1>1 DEF TurnsAreKept, Changing, Delivering, Completing
<1>10. RunsAreCounted(t)'
  <2>1. \A f \in Event : Untouched(t, f)' => Untouched(t, f)
    BY <1>1, <1>4, <1>5 DEF Untouched, Marking, Changing
  <2> QED
    BY <1>1, <1>3, <2>1 DEF ClientInv, RunsAreCounted
<1> QED
  BY <1>4, <1>6, <1>7, <1>8, <1>9, <1>10 DEF ClientInv

\* After a restart nothing waits: every event that was stored is history.
LEMMA RestartKeeps ==
    ASSUME QueueInv, Restart
    PROVE  Visible' = {} /\ \A u \in Thread : call'[u].pc = "idle" /\ ClientInv(u)'
<1>1. Visible' = {} /\ \A u \in Thread : call'[u].pc = "idle"
  BY DEF Restart, Visible, Idle
<1>2. UNCHANGED <<used, executed>>
  BY DEF Restart
<1>3. ASSUME NEW u \in Thread PROVE ClientInv(u)'
  <2>1. OwnEvents(u)' = {} /\ Active(u)' = {}
    BY <1>1 DEF OwnEvents, Active
  <2>2. StaysHome(u)' /\ OpsAreOrdered(u)' /\ MachinesAgree(u)' /\ OneIsActive(u)' /\ TurnsAreKept(u)'
    BY <1>1, <2>1 DEF StaysHome, OpsAreOrdered, MachinesAgree, OneIsActive, TurnsAreKept, Changing, Delivering, Completing
  <2>3. RunsAreCounted(u)'
    BY <1>1, <1>2, <2>1 DEF RunsAreCounted, Untouched, QueueInv, ClientInv
  <2> QED
    BY <2>2, <2>3 DEF ClientInv
<1> QED
  BY <1>1, <1>3

----------------------------------------------------------------------------
(* The invariant.                                                          *)

\* Nobody has done anything yet.
LEMMA QueueInit == Init => QueueInv
<1> SUFFICES ASSUME Init PROVE QueueInv
  OBVIOUS
<1>1. IndInv
  BY InitEstablishes
<1>2. used = {} /\ IsFiniteSet(used)
  BY FS_EmptySet DEF Init, ContextInit
<1>3. /\ \A t \in Thread : call[t].pc = "idle" /\ OwnEvents(t) = {} /\ Active(t) = {}
      /\ \A e \in Event : executed[e] = 0
  BY DEF Init, ContextInit, Idle, OwnEvents, Visible, Active
<1>4. ASSUME NEW t \in Thread PROVE ClientInv(t)
  <2>1. StaysHome(t) /\ OpsAreOrdered(t) /\ MachinesAgree(t) /\ OneIsActive(t) /\ TurnsAreKept(t)
    BY <1>3 DEF StaysHome, OpsAreOrdered, MachinesAgree, OneIsActive, TurnsAreKept, Changing, Delivering, Completing
  <2>2. RunsAreCounted(t)
    BY <1>3 DEF RunsAreCounted
  <2> QED
    BY <2>1, <2>2 DEF ClientInv
<1> QED
  BY <1>1, <1>2, <1>3, <1>4 DEF QueueInv

\* No client reports videos.
LEMMA NoVideo ==
    ASSUME QueueInv, NEW t \in Thread
    PROVE  ~ InContext(SetHasVideo(t))
BY DEF InContext, SetHasVideo, QueueInv, ClientInv, OpsAreOrdered, Changing, Delivering, Completing

\* Every step keeps what is said of the clients.
LEMMA ClientsKeep ==
    ASSUME QueueInv, [QueueNext]_vars
    PROVE  \A u \in Thread : ClientInv(u)'
<1>1. ASSUME NEW t \in Thread, Step(t) PROVE \A u \in Thread : ClientInv(u)'
  BY <1>1, NoVideo, CreateKeeps, ReadsKeep, MoveKeeps, MarkKeeps, DeliveriesKeep, ChooseKeeps, RunKeeps DEF Step
<1>2. ASSUME NEW t \in Thread, NEW e \in Event, ClientRequest(t, e) PROVE \A u \in Thread : ClientInv(u)'
  <2>1. CASE CameraOf[e] = Home[t] /\ InContext(StampEvent(t, e))
    BY <2>1, StampKeeps
  <2>2. CASE InContext(AckNext(t, e))
    BY <2>2, AckKeeps
  <2>3. CASE e \in OwnEvents(t) /\ Acked(e) /\ RemoveFromContext(t, e)
    BY <2>3, RemoveKeeps
  <2> QED
    BY <1>2, <2>1, <2>2, <2>3 DEF ClientRequest
<1>3. CASE UNCHANGED vars
  <2> SUFFICES ASSUME NEW t \in Thread PROVE ClientInv(t)'
    OBVIOUS
  <2>1. UNCHANGED <<events, machine, flags, time, used, executed, call, seen>> /\ ClientInv(t)
    BY <1>3 DEF vars, QueueInv
  <2>2. StaysHome(t)' /\ OpsAreOrdered(t)' /\ MachinesAgree(t)' /\ OneIsActive(t)'
    BY <2>1, SameView DEF ClientInv, StaysHome, OpsAreOrdered, MachinesAgree, OneIsActive
  <2>3. TurnsAreKept(t)'
    BY <2>1, SameView DEF ClientInv, TurnsAreKept, IsNext
  <2>4. RunsAreCounted(t)'
    BY <2>1, SameView DEF ClientInv, RunsAreCounted, Untouched, Marking
  <2> QED
    BY <2>2, <2>3, <2>4 DEF ClientInv
<1> QED
  BY <1>1, <1>2, <1>3, RestartKeeps DEF QueueNext

\* Hashes are handed out one by one, to clients; only what has one is run.
LEMMA HashesKeep ==
    ASSUME QueueInv, [QueueNext]_vars
    PROVE  /\ IsFiniteSet(used')
           /\ \A e \in used' : \E t \in Thread : Home[t] = CameraOf[e]
           /\ \A e \in Event : e \notin used' => executed'[e] = 0
<1>1. \/ used' = used
      \/ \E t \in Thread, e \in Event : used' = used \cup {e} /\ CameraOf[e] = Home[t]
  BY DEF QueueNext, Step, ClientRequest, InContext, Create, LookUp, CheckStatus, DispatchChange, Dispatch, Move, Mark, Complete,
         Finish, SetHasVideo, Confirm, Deliver, Snapshot, Choose, RunAction, StampEvent, AckNext, BeginAck, RemoveFromContext, RemoveEvent, Restart,
         vars
<1>2. IsFiniteSet(used') /\ \A e \in used' : \E t \in Thread : Home[t] = CameraOf[e]
  BY <1>1, FS_AddElement DEF QueueInv
<1>3. \/ executed' = executed
      \/ \E t \in Thread : /\ call[t].pc = "act" /\ call[t].ev \in used
                           /\ \A e \in Event : e # call[t].ev => executed'[e] = executed[e]
  <2>1. ASSUME NEW t \in Thread, RunAction(t)
        PROVE  /\ call[t].pc = "act" /\ call[t].ev \in used
               /\ \A e \in Event : e # call[t].ev => executed'[e] = executed[e]
    BY <2>1 DEF RunAction, QueueInv, IndInv, TypeOK, Fresh, Published
  <2>2. executed' = executed \/ \E t \in Thread : RunAction(t)
    BY DEF QueueNext, Step, ClientRequest, InContext, DispatchChange, RemoveFromContext, Deliver, Snapshot,
           Choose, Restart, vars
  <2> QED
    BY <2>1, <2>2
<1>4. used \subseteq used'
  BY <1>1
<1> QED
  BY <1>2, <1>3, <1>4 DEF QueueInv

\* Every step keeps the invariant.
LEMMA QueueKeeps == QueueInv /\ [QueueNext]_vars => QueueInv'
<1> SUFFICES ASSUME QueueInv, [QueueNext]_vars PROVE QueueInv'
  OBVIOUS
<1>1. IndInv'
  BY StepPreserves, ClientsTakeSteps DEF QueueInv
<1> QED
  BY <1>1, ClientsKeep, HashesKeep DEF QueueInv

\* The invariant holds as long as the clients keep to the order.
THEOREM QueueInvariance == QueueSpec => []QueueInv
BY QueueInit, QueueKeeps, PTL DEF QueueSpec

\* swagger/http/events.yaml, on_create_action: as long as the clients keep to the order, the action of an event
\* succeeds once at most, even over restarts.
THEOREM ActionsRunOnce == QueueSpec => []ExecutedAtMostOnce
<1>1. QueueInv => ExecutedAtMostOnce
  <2> SUFFICES ASSUME QueueInv, NEW e \in Event PROVE executed[e] <= 1
    BY DEF ExecutedAtMostOnce
  <2>1. CASE e \in used
    <3>1. PICK t \in Thread : Home[t] = CameraOf[e]
      BY <2>1 DEF QueueInv
    <3> QED
      BY <3>1 DEF QueueInv, ClientInv, RunsAreCounted
  <2>2. CASE e \notin used
    BY <2>2 DEF QueueInv
  <2> QED
    BY <2>1, <2>2
<1> QED
  BY <1>1, QueueInvariance, PTL

----------------------------------------------------------------------------
(* The queues of the cameras.                                              *)

\* A client has given the event its time, and nobody else has seen it.
Stamped(e) == \E t \in Thread : call[t].pc = "stamped" /\ call[t].ev = e

\* The place of an event in its queue, case by case.
PlaceIsRead(e) ==
    /\ e \notin used => PlaceOf(e) = "new"
    /\ Stamped(e) => PlaceOf(e) = "stamped"
    /\ e \in Visible /\ Status(e) = "Initial" => PlaceOf(e) = "waiting"
    /\ e \in Visible /\ Status(e) = "Processed" => PlaceOf(e) = "active"
    /\ e \in used /\ ~ Stamped(e) /\ ~ (e \in Visible /\ Status(e) \in {"Initial", "Processed"})
          => PlaceOf(e) = "done"
    /\ e \in Visible => e \in used /\ ~ Stamped(e)
    /\ Stamped(e) => e \in used

\* No two cases meet.
LEMMA PlacesAreRead == IndInv => \A e \in Event : PlaceIsRead(e)
<1> SUFFICES ASSUME IndInv, NEW e \in Event PROVE PlaceIsRead(e)
  OBVIOUS
<1>1. e \in Visible => e \in used /\ ~ Stamped(e)
  BY DEF IndInv, Fresh, Published, Visible, Stamped
<1>2. Stamped(e) => e \in used /\ e \notin Visible
  BY <1>1 DEF IndInv, Fresh, Stamped
<1>3. PlaceOf(e) =
        CASE e \notin used -> "new"
          [] Stamped(e) -> "stamped"
          [] e \in Visible /\ Status(e) = "Initial" -> "waiting"
          [] e \in Visible /\ Status(e) = "Processed" -> "active"
          [] OTHER -> "done"
  BY DEF PlaceOf, Stamped
<1> QED
  BY <1>1, <1>2, <1>3 DEF PlaceIsRead

\* So it is before a step, and after it.
LEMMA PlacesAreReadAfter == IndInv' => \A e \in Event : PlaceIsRead(e)'
<1>1. (IndInv => \A e \in Event : PlaceIsRead(e))'
  BY PlacesAreRead, PTL
<1> QED
  BY <1>1

\* What is not read differently stays in its place.
LEMMA SamePlace ==
    ASSUME IndInv, IndInv', NEW e \in Event, e \in used' <=> e \in used, Stamped(e)' <=> Stamped(e),
           e \in Visible' <=> e \in Visible, e \in Visible => Status(e)' = Status(e)
    PROVE  PlaceOf(e)' = PlaceOf(e)
<1>1. PlaceIsRead(e) /\ PlaceIsRead(e)'
  BY PlacesAreRead, PlacesAreReadAfter
<1> QED
  BY <1>1 DEF PlaceIsRead

\* An event moves in the queues as it does here.
LEMMA MoveRefines ==
    ASSUME NEW e \in Event, NEW from, NEW to, PlaceOf(e) = from, PlaceOf(e)' = to,
           \A f \in Event \ {e} : PlaceOf(f)' = PlaceOf(f)
    PROVE  Abstract!Move(e, from, to)
BY DEF Abstract!Move

\* The event that is next is the first of its queue.
LEMMA NextIsFirst ==
    ASSUME QueueInv, NEW t \in Thread, IsNext(t), NEW e \in Event, e = call[t].ev
    PROVE  Abstract!First(e) /\ PlaceOf(e) = "waiting"
<1>1. e \in OwnEvents(t) /\ e \in Visible /\ Status(e) = "Initial" /\ CameraOf[e] = Home[t]
  BY NextIsWaiting DEF OwnEvents
<1>2. \A f \in Event : PlaceIsRead(f)
  BY PlacesAreRead DEF QueueInv
<1>3. ASSUME NEW f \in Event, CameraOf[f] = CameraOf[e], PlaceOf(f) = "active" PROVE FALSE
  <2>1. f \in Visible /\ Status(f) = "Processed"
    BY <1>2, <1>3 DEF PlaceIsRead
  <2> QED
    BY <1>1, <1>3, <2>1 DEF IsNext, Active, OwnEvents
<1>4. ASSUME NEW f \in Event, CameraOf[f] = CameraOf[e], PlaceOf(f) = "waiting" PROVE time[e] <= time[f]
  <2>1. f \in Visible /\ Status(f) = "Initial"
    BY <1>2, <1>4 DEF PlaceIsRead
  <2>2. f \in Unfinished(t)
    BY <1>1, <1>4, <2>1, StatusIs DEF Unfinished, OwnEvents
  <2> QED
    BY <2>2 DEF IsNext, Earliest
<1> QED
  BY <1>1, <1>2, <1>3, <1>4 DEF Abstract!First, Abstract!OfCamera, PlaceIsRead

----------------------------------------------------------------------------
(* Each step is one of the queues, or none.                                *)

\* Where no event changes, and none is stamped, nothing moves.
LEMMA QuietRefines ==
    ASSUME QueueInv, IndInv', NEW t \in Thread, UNCHANGED <<events, machine, flags, time, used>>,
           \A u \in Thread \ {t} : call'[u] = call[u], call[t].pc # "stamped", call'[t].pc # "stamped"
    PROVE  UNCHANGED <<[e \in Event |-> PlaceOf(e)], time>>
<1>1. \A e \in Event : Stamped(e)' <=> Stamped(e)
  BY DEF Stamped
<1>2. \A e \in Event : PlaceOf(e)' = PlaceOf(e)
  BY <1>1, SameView, SamePlace DEF QueueInv
<1> QED
  BY <1>2

\* A thread goes on.
LEMMA StepRefines ==
    ASSUME QueueInv, QueueInv', NEW t \in Thread, Step(t)
    PROVE  Abstract!QueueNext \/ UNCHANGED <<[e \in Event |-> PlaceOf(e)], time>>
<1> DEFINE e == call[t].ev
<1>1. /\ call[t].pc # "idle" /\ call'[t].pc # "stamped" /\ used' = used /\ e \in Event
      /\ \A u \in Thread \ {t} : call'[u] = call[u]
      /\ IndInv /\ IndInv' /\ call[t] \in Call
  BY StepEffect, AboutEvents DEF QueueInv, IndInv
<1>2. CASE InContext(Create(t))
  <2>1. /\ call[t].pc = "stamped" /\ events' = events \cup {e} /\ UNCHANGED time
        /\ machine' = [machine EXCEPT ![e] = "created"] /\ flags' = [flags EXCEPT ![e] = {}]
        /\ machine \in [Event -> MachineState] /\ flags \in [Event -> SUBSET Flag]
    BY <1>1, <1>2 DEF InContext, Create, IndInv, TypeOK, ContextTypeOK
  <2>2. Stamped(e) /\ \A f : f = e => ~ Stamped(f)'
    BY <1>1, <2>1 DEF Stamped, IndInv, Fresh
  <2>3. \A f \in Event \ {e} : /\ Stamped(f)' <=> Stamped(f)
                               /\ f \in Visible' <=> f \in Visible
                               /\ Status(f)' = Status(f)
    BY <1>1, <2>1 DEF Stamped, Visible, Status
  <2>4. \A f : f = e => f \in Visible' /\ Status(f)' = "Initial"
    BY <1>1, <2>1 DEF Visible, Status
  <2> HIDE DEF e
  <2>5. \A f \in Event \ {e} : PlaceOf(f)' = PlaceOf(f)
    BY <1>1, <2>3, SamePlace
  <2>6. PlaceOf(e) = "stamped" /\ \A f : f = e => PlaceOf(f)' = "waiting"
    BY <1>1, <2>2, <2>4, PlacesAreRead, PlacesAreReadAfter DEF PlaceIsRead
  <2>7. PICK f \in Event : f = e
    BY <1>1
  <2>8. Abstract!Arrive(f)
    BY <2>1, <2>5, <2>6, <2>7, MoveRefines DEF Abstract!Arrive
  <2> QED
    BY <2>8 DEF Abstract!QueueNext
<1>5. CASE InContext(Move(t)) \/ InContext(Finish(t))
  <2>1. UNCHANGED time /\ \A f \in Event : Stamped(f)' <=> Stamped(f)
    BY <1>1, <1>5 DEF InContext, Move, Finish, Stamped
  <2>2. \A f \in Event : PlaceOf(f)' = PlaceOf(f)
    BY <1>1, <1>5, <2>1, MoveKeeps, SamePlace
  <2> QED
    BY <2>1, <2>2
<1>3. CASE InContext(Mark(t))
  <2>1. /\ call[t].pc = "mark" /\ UNCHANGED <<events, time>>
        /\ \A f : Stamped(f)' <=> Stamped(f)
    BY <1>1, <1>3 DEF InContext, Mark, Stamped
  <2>2. PICK f \in Event : f = e
    BY <1>1
  <2>3. \A g \in Event \ {f} : PlaceOf(g)' = PlaceOf(g)
    BY <1>1, <1>3, <2>1, <2>2, MarkKeeps, SamePlace
  <2>4. PlaceIsRead(f) /\ PlaceIsRead(f)'
    BY <1>1, PlacesAreRead, PlacesAreReadAfter
  <2>5. CASE IsNext(t)
    <3>1. Abstract!First(f) /\ PlaceOf(f) = "waiting" /\ f \in used /\ ~ Stamped(f)
      BY <2>2, <2>4, <2>5, NextIsFirst, NextIsWaiting DEF PlaceIsRead
    <3>2. PlaceOf(f)' \in {"active", "done"}
      <4>1. CASE Acked(f)'
        <5>1. Status(f)' \notin {"Initial", "Processed"}
          BY <4>1 DEF Acked
        <5> QED
          BY <1>1, <2>1, <2>4, <3>1, <5>1 DEF PlaceIsRead
      <4>2. CASE Status(f)' = "Processed"
        BY <1>1, <2>1, <2>4, <3>1, <4>2 DEF PlaceIsRead
      <4> QED
        BY <1>3, <2>2, <4>1, <4>2, MarkKeeps
    <3>3. Abstract!Start(f) \/ Abstract!PassOver(f)
      BY <2>1, <2>3, <3>1, <3>2, MoveRefines DEF Abstract!Start, Abstract!PassOver
    <3> QED
      BY <3>3 DEF Abstract!QueueNext
  <2>6. CASE ~ IsNext(t)
    <3>1. f \in Active(t) /\ Acked(f)'
      BY <1>3, <2>2, <2>6, MarkKeeps
    <3>2. f \in Visible /\ Status(f) = "Processed" /\ Status(f)' \notin {"Initial", "Processed"}
      BY <3>1 DEF Active, OwnEvents, Acked
    <3>3. PlaceOf(f) = "active" /\ PlaceOf(f)' = "done"
      BY <1>1, <2>1, <2>4, <3>2 DEF PlaceIsRead
    <3>4. Abstract!Finish(f)
      BY <2>1, <2>3, <3>3, MoveRefines DEF Abstract!Finish
    <3> QED
      BY <3>4 DEF Abstract!QueueNext
  <2> QED
    BY <2>5, <2>6
<1>4. CASE \/ InContext(LookUp(t)) \/ InContext(CheckStatus(t)) \/ DispatchChange(t)
           \/ InContext(Complete(t)) \/ InContext(Confirm(t)) \/ Deliver(t) \/ Snapshot(t) \/ Choose(t) \/ RunAction(t)
  <2>1. call[t].pc # "stamped" /\ UNCHANGED <<events, machine, flags, time, used>>
    BY <1>4 DEF InContext, LookUp, CheckStatus, DispatchChange, Dispatch, Complete, Confirm, Deliver, Snapshot, Choose, RunAction
  <2> QED
    BY <1>1, <2>1, QuietRefines
<1> QED
  BY <1>2, <1>3, <1>4, <1>5, NoVideo DEF Step

\* A client begins something.
LEMMA RequestRefines ==
    ASSUME QueueInv, QueueInv', NEW t \in Thread, NEW e \in Event, ClientRequest(t, e)
    PROVE  Abstract!QueueNext \/ UNCHANGED <<[f \in Event |-> PlaceOf(f)], time>>
<1>1. IndInv /\ IndInv'
  BY DEF QueueInv
<1>2. CASE InContext(StampEvent(t, e))
  <2>1. /\ UNCHANGED <<events, machine, flags>>
        /\ call[t].pc = "idle" /\ call'[t].pc = "stamped" /\ call'[t].ev = e
        /\ e \notin used /\ used' = used \cup {e}
        /\ \A f \in Event \ {e} : time'[f] = time[f]
        /\ \A u \in Thread \ {t} : call'[u] = call[u]
    BY <1>1, <1>2, BeginEffect DEF InContext, StampEvent, IndInv, TypeOK, ContextTypeOK
  <2>2. \A f \in Event \ {e} : /\ Stamped(f)' <=> Stamped(f)
                               /\ f \in Visible' <=> f \in Visible
                               /\ Status(f)' = Status(f)
    BY <2>1 DEF Stamped, Visible, Status
  <2>3. \A f \in Event \ {e} : PlaceOf(f)' = PlaceOf(f)
    BY <1>1, <2>1, <2>2, SamePlace
  <2>4. PlaceOf(e) = "new" /\ PlaceOf(e)' = "stamped"
    <3>1. Stamped(e)'
      BY <2>1 DEF Stamped
    <3> QED
      BY <1>1, <2>1, <3>1, PlacesAreRead, PlacesAreReadAfter DEF PlaceIsRead
  <2>5. Abstract!Stamp(e)
    BY <2>1, <2>3, <2>4, MoveRefines DEF Abstract!Stamp
  <2> QED
    BY <2>5 DEF Abstract!QueueNext
<1>3. CASE InContext(AckNext(t, e))
  <2>1. /\ UNCHANGED <<events, machine, flags, time, used>>
        /\ call[t].pc = "idle" /\ call'[t].pc = "lookup"
        /\ \A u \in Thread \ {t} : call'[u] = call[u]
    BY <1>1, <1>3, BeginEffect DEF InContext, AckNext, BeginAck, IndInv, TypeOK, ContextTypeOK
  <2> QED
    BY <1>1, <2>1, QuietRefines
<1>4. CASE e \in OwnEvents(t) /\ Acked(e) /\ RemoveFromContext(t, e)
  <2>1. /\ UNCHANGED <<flags, used, time>>
        /\ call[t].pc = "idle" /\ call'[t].pc = "signal" /\ events' = events \ {e}
        /\ \A u \in Thread \ {t} : call'[u] = call[u]
        /\ \A f \in Event \ {e} : machine'[f] = machine[f]
    BY <1>1, <1>4, BeginEffect DEF RemoveFromContext, RemoveEvent, IndInv, TypeOK, ContextTypeOK
  <2>2. \A f \in Event : (Stamped(f)' <=> Stamped(f)) /\ Status(f)' = Status(f)
    BY <2>1 DEF Stamped, Status
  <2>3. \A f \in Event \ {e} : f \in Visible' <=> f \in Visible
    BY <2>1 DEF Visible
  <2>4. \A f \in Event \ {e} : PlaceOf(f)' = PlaceOf(f)
    BY <1>1, <2>1, <2>2, <2>3, SamePlace
  <2>5. e \in Visible /\ Status(e) \notin {"Initial", "Processed"} /\ e \notin Visible'
    BY <1>4, <2>1, StatusIs DEF OwnEvents, Visible
  <2>6. PlaceOf(e) = "done" /\ PlaceOf(e)' = "done"
    <3>1. PlaceIsRead(e) /\ PlaceIsRead(e)'
      BY <1>1, PlacesAreRead, PlacesAreReadAfter
    <3> QED
      BY <2>1, <2>2, <2>5, <3>1 DEF PlaceIsRead
  <2> QED
    BY <2>1, <2>4, <2>6
<1> QED
  BY <1>2, <1>3, <1>4 DEF ClientRequest

\* A restart ends them all.
LEMMA RestartRefines ==
    ASSUME QueueInv, QueueInv', Restart
    PROVE  Abstract!QueueNext
<1>1. UNCHANGED <<time, used>>
  BY DEF Restart
<1>2. ASSUME NEW e \in Event PROVE PlaceOf(e)' = IF PlaceOf(e) = "new" THEN "new" ELSE "done"
  <2>1. PlaceIsRead(e) /\ PlaceIsRead(e)'
    BY PlacesAreRead, PlacesAreReadAfter DEF QueueInv
  <2>2. ~ Stamped(e)' /\ e \notin Visible'
    BY RestartKeeps DEF Stamped
  <2> QED
    BY <1>1, <2>1, <2>2 DEF PlaceIsRead
<1>3. Abstract!Clear
  BY <1>1, <1>2 DEF Abstract!Clear
<1> QED
  BY <1>3 DEF Abstract!QueueNext

\* Every step maps to a step of the queues, or to none.
LEMMA QueueSteps ==
    ASSUME QueueInv, QueueInv', [QueueNext]_vars
    PROVE  [Abstract!QueueNext]_(<<[e \in Event |-> PlaceOf(e)], time>>)
<1>1. CASE UNCHANGED vars
  <2>1. \A e \in Event : PlaceOf(e)' = PlaceOf(e)
    <3>1. UNCHANGED <<events, machine, flags, time, used, call>> /\ IndInv /\ IndInv'
      BY <1>1 DEF vars, QueueInv
    <3>2. \A e \in Event : /\ Stamped(e)' <=> Stamped(e)
                           /\ e \in Visible' <=> e \in Visible
                           /\ Status(e)' = Status(e)
      BY <3>1 DEF Stamped, Visible, Status
    <3> QED
      BY <3>1, <3>2, SamePlace
  <2> QED
    BY <1>1, <2>1 DEF vars
<1> QED
  BY <1>1, StepRefines, RequestRefines, RestartRefines DEF QueueNext

\* At first all events are new.
LEMMA QueueStarts == Init => Abstract!QueueInit
<1> SUFFICES ASSUME Init PROVE Abstract!QueueInit
  OBVIOUS
<1>1. \A e \in Event : PlaceOf(e) = "new"
  BY InitEstablishes, PlacesAreRead DEF Init, ContextInit, PlaceIsRead
<1> QED
  BY <1>1 DEF Init, ContextInit, Abstract!QueueInit

\* EventContext and EventSubscriber together keep a queue per camera, with one active event, oldest first, as
\* long as the clients keep to the order of the test: whatever the number of cameras, events and restarts.
THEOREM PipelineRefinesQueues == QueueSpec => ImplementsCameraQueue
<1>1. QueueInv /\ QueueInv' /\ [QueueNext]_vars => [Abstract!QueueNext]_(Abstract!queueVars)
  BY QueueSteps DEF Abstract!queueVars
<1> QED
  BY <1>1, QueueStarts, QueueInvariance, PTL DEF QueueSpec, ImplementsCameraQueue, Abstract!QueueSpec
=============================================================================
