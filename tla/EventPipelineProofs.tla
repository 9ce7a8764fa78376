------------------------- MODULE EventPipelineProofs -------------------------
(***************************************************************************)
(* Proofs about module EventPipeline: whatever the number of threads,      *)
(* events, cameras and restarts, and whatever the interleaving.            *)
(***************************************************************************)
EXTENDS EventPipeline, TLAPS

\* The labels of a thread between its first and its last look at the machine of an event.
InMachine == {"move", "mark", "complete", "finish", "confirm"}

\* A step inside Change.
ChangeStep(t) ==
    \/ InContext(LookUp(t)) \/ InContext(CheckStatus(t)) \/ DispatchChange(t)
    \/ InContext(Move(t)) \/ InContext(Mark(t)) \/ InContext(Complete(t))
    \/ InContext(Finish(t)) \/ InContext(Confirm(t)) \/ InContext(SetHasVideo(t))

(* The inductive invariant, part by part.                                  *)

\* The events their creators have let go of: they are in the container, or have been.
Published == {e \in used : \A t \in Thread : call[t].pc = "stamped" => call[t].ev # e}

\* A hash is handed out once: nobody but its creator knows of an event before it is published.
Fresh ==
    /\ events \subseteq Published
    /\ \A e \in Event : rows[e] # NoRow \/ machine[e] = "archived" => e \in Published
    /\ \A t \in Thread : seen[t] \subseteq Published
    /\ \A t \in Thread : call[t].pc \notin {"idle", "stamped"} => call[t].ev \in Published
    /\ \A t \in Thread : call[t].pc = "stamped" =>
          /\ call[t].op = "create"
          /\ call[t].ev \in used
          /\ \A u \in Thread \ {t} : call[u].pc = "stamped" => call[u].ev # call[t].ev

\* A removal that is still to be delivered is about an event that is gone for good.
RemovalIsFinal ==
    \A t \in Thread : call[t].pc # "idle" /\ call[t].op = "remove" =>
        call[t].pc \in {"signal", "snapshot", "choose"} /\ call[t].ev \notin events

\* Whoever is about to mark an event processed has run its action.
MarkerHasExecuted ==
    \A t \in Thread :
        call[t].pc \notin {"idle", "act"} /\ call[t].op = "process" => executed[call[t].ev] > 0

\* The signal of a creation is about an event of the context, or about one whose removal
\* overtook it.
InsertionIsKnown ==
    \A t \in Thread, e \in Event : WillInsert(t, e) => e \in events \cup crossed

\* Inside Change a thread makes one of the two changes the machine knows.
ChangesAreNamed ==
    \A t \in Thread :
        /\ call[t].pc = "lookup" => call[t].op \in {"ack", "process", "video"}
        /\ call[t].pc = "flag" => call[t].op = "video"
        /\ call[t].pc \in {"guard", "dispatch"} \cup InMachine => call[t].op \in {"ack", "process"}

\* As long as the two changes of an event do not cross, the machine tells who was there: it is
\* not processed before the processing marks it, and never again once an acknowledgement moved it.
ChangesAreApart ==
    \A t \in Thread :
        call[t].ev \in events \ crossed =>
            /\ \A u \in Thread :
                  {call[t].pc, call[u].pc} \subseteq {"move", "mark"} /\ call[u].ev = call[t].ev
                     => call[u].op = call[t].op
            /\ call[t].op = "process" /\ call[t].pc = "move"
                  => machine[call[t].ev] \in {"created", "processed"}
            /\ call[t].op = "process" /\ call[t].pc = "mark"
                  => machine[call[t].ev] = "processed"
            /\ call[t].op = "ack" /\ call[t].pc \in {"mark", "complete", "finish", "confirm"}
                  => machine[call[t].ev] \notin {"created", "processed"}
            /\ call[t].pc = "finish" \/ (call[t].op = "ack" /\ call[t].pc = "mark")
                  => machine[call[t].ev] \in {"ack", "X"}

\* No handler holds an archived event it might run, and no change one it might move.
ArchiveIsOutOfReach ==
    \A t \in Thread :
        /\ \A x \in seen[t] : machine[x] # "archived"
        /\ call[t].pc \in {"act", "move", "mark", "finish"}
                \/ (call[t].pc # "idle" /\ call[t].op = "create")
              => machine[call[t].ev] # "archived"

\* What was loaded is what the table holds, up to videos reported since.
ArchiveMatchesTable ==
    \A e \in events :
        machine[e] = "archived" =>
            rows[e] # NoRow /\ rows[e] \ {"has_video"} = flags[e] \ {"has_video"}

IndInv ==
    /\ TypeOK
    /\ Fresh
    /\ RemovalIsFinal
    /\ InsertionIsKnown
    /\ ChangesAreNamed
    /\ ChangesAreApart
    /\ MarkerHasExecuted
    /\ MarkedWasExecuted
    /\ RowsConverge
    /\ ArchiveIsOutOfReach
    /\ ArchiveMatchesTable

----------------------------------------------------------------------------
(* Lemmas about the steps of a call.                                       *)

\* A call that moves to a label stays a call.
LEMMA GotoType ==
    ASSUME call \in [Thread -> Call], NEW t \in Thread, NEW label \in Label, Goto(t, label)
    PROVE  call' \in [Thread -> Call]
<1>1. [call[t] EXCEPT !.pc = label] \in Call
  BY DEF Call
<1> QED
  BY <1>1 DEF Goto

\* A call that returns is idle, and only the mutex of its own thread is released.
LEMMA ReturnType ==
    ASSUME call \in [Thread -> Call], holder \in Thread \cup {NoThread}, NEW t \in Thread, Return(t)
    PROVE  call' \in [Thread -> Call] /\ holder' \in Thread \cup {NoThread}
<1>1. Idle \in Call
  BY DEF Idle, Call, Label, Operation, MachineState
<1> QED
  BY <1>1 DEF Return

\* A call that begins is a call.
LEMMA BeginType ==
    ASSUME call \in [Thread -> Call], NEW t \in Thread, NEW operation \in Operation,
           NEW e \in Event, NEW label \in Label, Begin(t, operation, e, label)
    PROVE  call' \in [Thread -> Call]
<1>1. [pc |-> label, op |-> operation, ev |-> e] \in Call
  BY DEF Call, MachineState
<1> QED
  BY <1>1 DEF Begin

\* A call that changes its label and its operation stays a call.
LEMMA OperationType ==
    ASSUME NEW c \in Call, NEW label \in Label, NEW operation \in Operation
    PROVE  [c EXCEPT !.pc = label, !.op = operation] \in Call
BY DEF Call

\* A call that changes its label and its event stays a call.
LEMMA EventType ==
    ASSUME NEW c \in Call, NEW label \in Label, NEW e \in Event
    PROVE  [c EXCEPT !.pc = label, !.ev = e] \in Call
BY DEF Call

----------------------------------------------------------------------------
(* Type correctness.                                                       *)

\* A step keeps every variable in its type; Fresh tells that a call names an event.
LEMMA TypeInductive ==
    ASSUME TypeOK, Fresh, [Next]_vars
    PROVE  TypeOK'
<1> USE DEF TypeOK, ContextTypeOK
<1>0. \A t \in Thread : call[t].pc # "idle" => call[t].ev \in Event
  BY DEF Fresh, Published
<1>1. ASSUME NEW t \in Thread, InContext(Create(t)) PROVE TypeOK'
  <2>1. call' \in [Thread -> Call]
    BY <1>1, GotoType DEF InContext, Create, Label
  <2> QED
    BY <1>0, <1>1, <2>1 DEF InContext, Create, MachineState
<1>2. ASSUME NEW t \in Thread, InContext(LookUp(t)) PROVE TypeOK'
  <2>1. call' \in [Thread -> Call] /\ holder' \in Thread \cup {NoThread}
    BY <1>2, GotoType, ReturnType DEF InContext, LookUp, Label
  <2> QED
    BY <1>2, <2>1 DEF InContext, LookUp
<1>3. ASSUME NEW t \in Thread, InContext(CheckStatus(t)) PROVE TypeOK'
  <2>1. call' \in [Thread -> Call] /\ holder' \in Thread \cup {NoThread}
    BY <1>3, GotoType, ReturnType DEF InContext, CheckStatus, Label
  <2> QED
    BY <1>3, <2>1 DEF InContext, CheckStatus
<1>4. ASSUME NEW t \in Thread, DispatchChange(t) \/ InContext(Complete(t)) PROVE TypeOK'
  <2>1. call' \in [Thread -> Call]
    BY <1>4, GotoType DEF InContext, DispatchChange, Dispatch, Complete, Label
  <2>2. crossed' \subseteq Event
    BY <1>0, <1>4 DEF DispatchChange, Dispatch, InContext
  <2> QED
    BY <1>4, <2>1, <2>2 DEF DispatchChange, Dispatch, InContext, Complete
<1>5. ASSUME NEW t \in Thread, InContext(Move(t)) \/ InContext(Mark(t)) \/ InContext(Finish(t))
      PROVE  TypeOK'
  <2>1. call' \in [Thread -> Call]
    BY <1>5, GotoType DEF InContext, Move, Mark, Finish, Label
  <2>2. FlagOf(call[t].op) \in Flag /\ {Target(call[t].op), "X"} \subseteq MachineState
    BY DEF FlagOf, Target, Flag, MachineState
  <2>3. machine' \in [Event -> MachineState] /\ flags' \in [Event -> SUBSET Flag]
    BY <1>0, <1>5, <2>2 DEF InContext, Move, Mark, Finish
  <2> QED
    BY <1>5, <2>1, <2>3 DEF InContext, Move, Mark, Finish
<1>6. ASSUME NEW t \in Thread, InContext(SetHasVideo(t)) PROVE TypeOK'
  <2>1. call' \in [Thread -> Call]
    BY <1>6, GotoType DEF InContext, SetHasVideo, Label
  <2>2. flags' \in [Event -> SUBSET Flag]
    BY <1>0, <1>6 DEF InContext, SetHasVideo, Flag
  <2> QED
    BY <1>6, <2>1, <2>2 DEF InContext, SetHasVideo
<1>7. ASSUME NEW t \in Thread, InContext(Confirm(t)) PROVE TypeOK'
  <2>1. call' \in [Thread -> Call] /\ holder' \in Thread \cup {NoThread}
    BY <1>7, GotoType, ReturnType DEF InContext, Confirm, Label
  <2> QED
    BY <1>7, <2>1 DEF InContext, Confirm
<1>8. ASSUME NEW t \in Thread, Deliver(t) PROVE TypeOK'
  <2>1. call' \in [Thread -> Call]
    BY <1>8, GotoType DEF Deliver, Label
  <2>2. RowAfter(Emits(call[t].op), call[t].ev) \in (SUBSET Flag) \cup {NoRow}
    BY <1>0, <1>8 DEF Deliver, RowAfter
  <2> QED
    BY <1>8, <2>1, <2>2 DEF Deliver
<1>9. ASSUME NEW t \in Thread, Snapshot(t) PROVE TypeOK'
  <2>1. call' \in [Thread -> Call]
    BY <1>9, GotoType DEF Snapshot, Label
  <2>2. SameCamera(call[t].ev) \subseteq Event
    BY DEF SameCamera, Visible
  <2> QED
    BY <1>9, <2>1, <2>2 DEF Snapshot
<1>10. ASSUME NEW t \in Thread, Choose(t) PROVE TypeOK'
  <2>1. ASSUME NEW e \in ToRun(t), call' = [call EXCEPT ![t].pc = "act", ![t].ev = e]
        PROVE  call' \in [Thread -> Call]
    <3>1. e \in Event
      BY <1>0, <1>10, <2>1 DEF Choose, ToRun, Earliest, Waiting
    <3>2. [call[t] EXCEPT !.pc = "act", !.ev = e] \in Call
      BY <3>1, EventType DEF Label
    <3> QED
      BY <2>1, <3>2
  <2>2. call' \in [Thread -> Call] /\ holder' \in Thread \cup {NoThread}
    BY <1>10, <2>1, ReturnType DEF Choose
  <2>3. seen' \in [Thread -> SUBSET Event]
    BY <1>10 DEF Choose
  <2> QED
    BY <1>10, <2>2, <2>3 DEF Choose
<1>11. ASSUME NEW t \in Thread, RunAction(t) PROVE TypeOK'
  <2>1. [call[t] EXCEPT !.pc = "lookup", !.op = "process"] \in Call
    BY OperationType DEF Label, Operation
  <2>2. ASSUME call' = [call EXCEPT ![t].pc = "lookup", ![t].op = "process"], UNCHANGED holder
        PROVE  call' \in [Thread -> Call] /\ holder' \in Thread \cup {NoThread}
    BY <2>1, <2>2
  <2>3. ASSUME Return(t)
        PROVE  call' \in [Thread -> Call] /\ holder' \in Thread \cup {NoThread}
    BY <2>3, ReturnType
  <2>4. call' \in [Thread -> Call] /\ holder' \in Thread \cup {NoThread}
    BY <1>11, <2>2, <2>3 DEF RunAction
  <2>5. executed' \in [Event -> Nat]
    BY <1>0, <1>11 DEF RunAction
  <2> QED
    BY <1>11, <2>4, <2>5 DEF RunAction
<1>12. ASSUME NEW t \in Thread, NEW e \in Event, Request(t, e) PROVE TypeOK'
  <2>1. CASE InContext(StampEvent(t, e))
    <3>1. call' \in [Thread -> Call]
      BY <2>1, BeginType DEF InContext, StampEvent, Label, Operation
    <3> QED
      BY <2>1, <3>1 DEF InContext, StampEvent
  <2>2. CASE InContext(BeginAck(t, e)) \/ InContext(BeginHasVideo(t, e))
    <3>1. call' \in [Thread -> Call]
      BY <2>2, BeginType DEF InContext, BeginAck, BeginHasVideo, Label, Operation
    <3> QED
      BY <2>2, <3>1 DEF InContext, BeginAck, BeginHasVideo
  <2>3. CASE RemoveFromContext(t, e)
    <3>1. call' \in [Thread -> Call]
      BY <2>3, BeginType DEF RemoveFromContext, RemoveEvent, Label, Operation
    <3> QED
      BY <2>3, <3>1 DEF RemoveFromContext, RemoveEvent, MachineState
  <2> QED
    BY <1>12, <2>1, <2>2, <2>3 DEF Request
<1>13. CASE Restart
  <2>1. call' \in [Thread -> Call]
    BY <1>13 DEF Restart, Idle, Call, Label, Operation, MachineState
  <2>2. /\ machine' \in [Event -> MachineState]
        /\ flags' \in [Event -> SUBSET Flag]
    BY <1>13 DEF Restart, MachineState
  <2>3. boots' \in 0 .. MaxBoots
    BY <1>13, PipelineAssumption DEF Restart
  <2> QED
    BY <1>13, <2>1, <2>2, <2>3 DEF Restart
<1>14. CASE UNCHANGED vars
  BY <1>14 DEF vars
<1> QED
  BY <1>1, <1>2, <1>3, <1>4, <1>5, <1>6, <1>7, <1>8, <1>9, <1>10, <1>11, <1>12, <1>13, <1>14
     DEF Next, Step

----------------------------------------------------------------------------
(* What a step does to the calls.                                          *)

\* A label changes and nothing else does.
LEMMA GotoEffect ==
    ASSUME call \in [Thread -> Call], NEW t \in Thread, NEW label, Goto(t, label)
    PROVE  /\ call'[t].pc = label
           /\ call'[t].op = call[t].op
           /\ call'[t].ev = call[t].ev
           /\ \A u \in Thread \ {t} : call'[u] = call[u]
BY DEF Goto, Call

\* A call returns and no other call changes.
LEMMA ReturnEffect ==
    ASSUME call \in [Thread -> Call], NEW t \in Thread, Return(t)
    PROVE  /\ call'[t].pc = "idle"
           /\ \A u \in Thread \ {t} : call'[u] = call[u]
BY DEF Return, Idle

\* A call begins on an idle thread and no other call changes.
LEMMA BeginEffect ==
    ASSUME call \in [Thread -> Call], NEW t \in Thread, NEW operation, NEW e, NEW label,
           Begin(t, operation, e, label)
    PROVE  /\ call[t].pc = "idle"
           /\ call'[t].pc = label
           /\ call'[t].op = operation
           /\ call'[t].ev = e
           /\ \A u \in Thread \ {t} : call'[u] = call[u]
BY DEF Begin

\* A step inside Change goes on or returns; it touches neither the container nor the table.
LEMMA ChangeEffect ==
    ASSUME TypeOK, NEW t \in Thread, ChangeStep(t)
    PROVE  /\ call[t].pc \in {"lookup", "guard", "dispatch", "flag"} \cup InMachine
           /\ \/ call'[t].pc = "idle"
              \/ /\ call'[t].pc \in {"guard", "dispatch", "flag", "signal"} \cup InMachine
                 /\ call'[t].op = call[t].op
                 /\ call'[t].ev = call[t].ev
           /\ \A u \in Thread \ {t} : call'[u] = call[u]
           /\ crossed \subseteq crossed' /\ crossed' \subseteq crossed \cup {call[t].ev}
           /\ \A e \in Event \ {call[t].ev} : flags'[e] = flags[e] /\ machine'[e] = machine[e]
           /\ UNCHANGED <<events, time, used, rows, seen, executed, boots>>
<1> USE DEF TypeOK, ContextTypeOK, InMachine
<1>1. CASE InContext(LookUp(t)) \/ InContext(CheckStatus(t)) \/ InContext(Confirm(t))
  BY <1>1, GotoEffect, ReturnEffect DEF InContext, LookUp, CheckStatus, Confirm
<1>2. CASE DispatchChange(t)
  BY <1>2, GotoEffect DEF DispatchChange, Dispatch
<1>3. CASE InContext(Complete(t))
  BY <1>3, GotoEffect DEF InContext, Complete
<1>4. CASE InContext(Move(t)) \/ InContext(Mark(t)) \/ InContext(Finish(t)) \/ InContext(SetHasVideo(t))
  BY <1>4, GotoEffect DEF InContext, Move, Mark, Finish, SetHasVideo
<1> QED
  BY <1>1, <1>2, <1>3, <1>4 DEF ChangeStep

\* A step goes on with a call that began, and leaves the other calls alone.
LEMMA StepEffect ==
    ASSUME TypeOK, NEW t \in Thread, Step(t)
    PROVE  /\ call[t].pc # "idle"
           /\ call'[t].pc # "stamped"
           /\ \A u \in Thread \ {t} : call'[u] = call[u]
           /\ used' = used
<1> USE DEF TypeOK, ContextTypeOK
<1>1. CASE InContext(Create(t)) \/ Deliver(t) \/ Snapshot(t)
  BY <1>1, GotoEffect DEF InContext, Create, Deliver, Snapshot
<1>2. CASE ChangeStep(t)
  BY <1>2, ChangeEffect DEF InMachine
<1>3. CASE Choose(t)
  BY <1>3, ReturnEffect DEF Choose, Call
<1>4. CASE RunAction(t)
  BY <1>4, ReturnEffect DEF RunAction, Call
<1> QED
  BY <1>1, <1>2, <1>3, <1>4 DEF Step, ChangeStep

\* A request begins a call on an idle thread and leaves the other calls alone.
LEMMA RequestEffect ==
    ASSUME TypeOK, NEW t \in Thread, NEW e \in Event, Request(t, e)
    PROVE  /\ call[t].pc = "idle"
           /\ call'[t].ev = e
           /\ \/ call'[t].pc = "stamped" /\ call'[t].op = "create"
              \/ call'[t].pc = "lookup" /\ call'[t].op \in {"ack", "video"}
              \/ call'[t].pc = "signal" /\ call'[t].op = "remove" /\ e \notin events'
           /\ \A u \in Thread \ {t} : call'[u] = call[u]
           /\ events' \subseteq events
           /\ events \subseteq events' \cup {e}
           /\ crossed \subseteq crossed' /\ crossed' \subseteq crossed \cup {e}
           /\ \A x \in Event \ {e} : machine'[x] = machine[x]
           /\ machine'[e] \in {machine[e], "freed"}
           /\ UNCHANGED <<flags, rows, seen, executed, boots>>
<1> USE DEF TypeOK, ContextTypeOK
<1>1. CASE InContext(StampEvent(t, e)) \/ InContext(BeginAck(t, e)) \/ InContext(BeginHasVideo(t, e))
  BY <1>1, BeginEffect DEF InContext, StampEvent, BeginAck, BeginHasVideo
<1>2. CASE RemoveFromContext(t, e)
  BY <1>2, BeginEffect DEF RemoveFromContext, RemoveEvent
<1> QED
  BY <1>1, <1>2 DEF Request

----------------------------------------------------------------------------
(* Hashes are fresh.                                                       *)

\* No step stamps an event that was published.
LEMMA PublishedForever ==
    ASSUME TypeOK, Fresh, [Next]_vars, NEW e \in Published
    PROVE  e \in Published'
<1> USE DEF TypeOK, ContextTypeOK
<1>1. ASSUME NEW t \in Thread, used' = used, call'[t].pc # "stamped",
             \A u \in Thread \ {t} : call'[u] = call[u]
      PROVE  e \in Published'
  BY <1>1 DEF Published
<1>2. ASSUME NEW t \in Thread, Step(t) PROVE e \in Published'
  BY <1>1, <1>2, StepEffect
<1>3. ASSUME NEW t \in Thread, NEW f \in Event, Request(t, f) PROVE e \in Published'
  <2>1. CASE InContext(StampEvent(t, f))
    BY <2>1, BeginEffect DEF InContext, StampEvent, Published
  <2>2. CASE InContext(BeginAck(t, f)) \/ InContext(BeginHasVideo(t, f)) \/ RemoveFromContext(t, f)
    BY <1>1, <2>2, BeginEffect DEF InContext, BeginAck, BeginHasVideo, RemoveFromContext, RemoveEvent
  <2> QED
    BY <1>3, <2>1, <2>2 DEF Request
<1>4. CASE Restart
  BY <1>4 DEF Restart, Published, Idle
<1>5. CASE UNCHANGED vars
  BY <1>5 DEF vars, Published
<1> QED
  BY <1>2, <1>3, <1>4, <1>5 DEF Next

\* A hash is stamped once, so only its creator knows it until it is in the container.
LEMMA FreshInductive ==
    ASSUME TypeOK, Fresh, [Next]_vars
    PROVE  Fresh'
<1> USE DEF TypeOK, ContextTypeOK
<1>0. Published \subseteq Published'
  BY PublishedForever
<1>1. ASSUME NEW t \in Thread, Step(t),
             events' \subseteq Published',
             \A e \in Event : rows'[e] # NoRow \/ machine'[e] = "archived" => e \in Published',
             \A u \in Thread : seen'[u] \subseteq Published',
             call'[t].pc # "idle" => call'[t].ev \in Published'
      PROVE  Fresh'
  <2>1. \A u \in Thread \ {t} : call'[u] = call[u]
    BY <1>1, StepEffect
  <2>2. ASSUME NEW u \in Thread, call'[u].pc \notin {"idle", "stamped"}
        PROVE  call'[u].ev \in Published'
    BY <1>0, <1>1, <2>1, <2>2 DEF Fresh
  <2>3. ASSUME NEW u \in Thread, call'[u].pc = "stamped"
        PROVE  /\ call'[u].op = "create"
               /\ call'[u].ev \in used'
               /\ \A v \in Thread \ {u} : call'[v].pc = "stamped" => call'[v].ev # call'[u].ev
    BY <1>1, <2>1, <2>3, StepEffect DEF Fresh
  <2> QED
    BY <1>1, <2>2, <2>3 DEF Fresh
<1>2. ASSUME NEW t \in Thread, InContext(Create(t)) PROVE Fresh'
  <2>1. Step(t)
    BY <1>2 DEF Step
  <2>2. call[t].pc = "stamped" /\ call'[t].ev = call[t].ev
    BY <1>2, GotoEffect DEF InContext, Create
  <2>3. call[t].ev \in Published'
    BY <2>1, <2>2, StepEffect DEF Fresh, Published
  <2>4. \A e \in Event : machine'[e] = "archived" => machine[e] = "archived"
    BY <1>2 DEF InContext, Create
  <2> QED
    BY <1>0, <1>1, <1>2, <2>1, <2>2, <2>3, <2>4 DEF InContext, Create, Fresh
<1>3. ASSUME NEW t \in Thread, ChangeStep(t) PROVE Fresh'
  <2>1. Step(t)
    BY <1>3 DEF Step, ChangeStep
  <2>2. /\ call'[t].pc # "idle" => call'[t].ev = call[t].ev
        /\ call[t].pc \notin {"idle", "stamped"}
        /\ events' = events /\ rows' = rows /\ seen' = seen
    BY <1>3, ChangeEffect DEF InMachine
  <2>3. \A e \in Event : machine'[e] = "archived" => machine[e] = "archived"
    BY <1>3 DEF ChangeStep, InContext, LookUp, CheckStatus, DispatchChange, Dispatch, Move, Mark, Complete,
                Finish, Confirm, SetHasVideo, Target
  <2> QED
    BY <1>0, <1>1, <2>1, <2>2, <2>3 DEF Fresh
<1>4. ASSUME NEW t \in Thread, Deliver(t) PROVE Fresh'
  <2>1. Step(t) /\ call[t].ev \in Published
    BY <1>4 DEF Step, Deliver, Fresh
  <2>2. call'[t].ev = call[t].ev
    BY <1>4, GotoEffect DEF Deliver
  <2>3. \A e \in Event : rows'[e] # NoRow => e = call[t].ev \/ rows[e] # NoRow
    BY <1>4 DEF Deliver
  <2> QED
    BY <1>0, <1>1, <1>4, <2>1, <2>2, <2>3 DEF Deliver, Fresh
<1>5. ASSUME NEW t \in Thread, Snapshot(t) PROVE Fresh'
  <2>1. Step(t) /\ call'[t].ev = call[t].ev /\ call[t].ev \in Published
    BY <1>5, GotoEffect DEF Step, Snapshot, Fresh
  <2>2. \A u \in Thread : \A e \in seen'[u] : e \in seen[u] \/ e \in events
    BY <1>5 DEF Snapshot, SameCamera, Visible
  <2> QED
    BY <1>0, <1>1, <1>5, <2>1, <2>2 DEF Snapshot, Fresh
<1>6. ASSUME NEW t \in Thread, Choose(t) PROVE Fresh'
  <2>1. Step(t) /\ call[t].ev \in Published
    BY <1>6 DEF Step, Choose, Fresh
  <2>2. ToRun(t) \subseteq Published
    BY <2>1 DEF ToRun, Earliest, Waiting, Fresh
  <2>3. call'[t].pc = "idle" \/ call'[t].ev \in ToRun(t)
    BY <1>6, ReturnEffect DEF Choose, Call
  <2>4. \A u \in Thread : seen'[u] \subseteq seen[u]
    BY <1>6 DEF Choose
  <2> QED
    BY <1>0, <1>1, <1>6, <2>1, <2>2, <2>3, <2>4 DEF Choose, Fresh
<1>7. ASSUME NEW t \in Thread, RunAction(t) PROVE Fresh'
  <2>1. Step(t) /\ call[t].ev \in Published
    BY <1>7 DEF Step, RunAction, Fresh
  <2>2. call'[t].pc = "idle" \/ call'[t].ev = call[t].ev
    BY <1>7, ReturnEffect DEF RunAction, Call
  <2> QED
    BY <1>0, <1>1, <1>7, <2>1, <2>2 DEF RunAction, Fresh
<1>8. ASSUME NEW t \in Thread, NEW e \in Event, Request(t, e) PROVE Fresh'
  <2>1. /\ call[t].pc = "idle"
        /\ call'[t].ev = e
        /\ \A u \in Thread \ {t} : call'[u] = call[u]
    BY <1>8, RequestEffect
  <2>2. events' \subseteq events /\ rows' = rows /\ seen' = seen
    BY <1>8, RequestEffect
  <2>3. \A x \in Event : machine'[x] = "archived" => machine[x] = "archived"
    BY <1>8, RequestEffect
  <2>4. CASE InContext(StampEvent(t, e))
    <3>1. call'[t].pc = "stamped" /\ call'[t].op = "create" /\ e \notin used /\ used' = used \cup {e}
      BY <2>4, BeginEffect DEF InContext, StampEvent
    <3>2. \A u \in Thread \ {t} : call[u].pc = "stamped" => call[u].ev \in used
      BY DEF Fresh
    <3>3. ASSUME NEW u \in Thread, call'[u].pc = "stamped"
          PROVE  /\ call'[u].op = "create"
                 /\ call'[u].ev \in used'
                 /\ \A v \in Thread \ {u} : call'[v].pc = "stamped" => call'[v].ev # call'[u].ev
      BY <2>1, <3>1, <3>2, <3>3 DEF Fresh
    <3> QED
      BY <1>0, <2>1, <2>2, <2>3, <3>1, <3>3 DEF Fresh
  <2>5. CASE InContext(BeginAck(t, e)) \/ InContext(BeginHasVideo(t, e)) \/ RemoveFromContext(t, e)
    <3>1. call'[t].pc # "stamped" /\ e \in events /\ used' = used
      BY <2>5, BeginEffect DEF InContext, BeginAck, BeginHasVideo, RemoveFromContext, RemoveEvent
    <3>2. e \in Published'
      BY <1>0, <3>1 DEF Fresh
    <3> QED
      BY <1>0, <2>1, <2>2, <2>3, <3>1, <3>2 DEF Fresh
  <2> QED
    BY <1>8, <2>4, <2>5 DEF Request
<1>9. CASE Restart
  BY <1>0, <1>9 DEF Restart, Fresh, Idle
<1>10. CASE UNCHANGED vars
  BY <1>0, <1>10 DEF vars, Fresh
<1> QED
  BY <1>2, <1>3, <1>4, <1>5, <1>6, <1>7, <1>8, <1>9, <1>10 DEF Next, Step, ChangeStep

----------------------------------------------------------------------------
(* Marked events were executed.                                            *)

\* An event is marked by the thread that ran its action, and by nobody else.
LEMMA MarksInductive ==
    ASSUME TypeOK, Fresh, MarkerHasExecuted, MarkedWasExecuted, [Next]_vars
    PROVE  MarkerHasExecuted' /\ MarkedWasExecuted'
<1> USE DEF TypeOK, ContextTypeOK
<1>1. \A e \in Event : executed'[e] \in Nat /\ (executed[e] > 0 => executed'[e] > 0)
  <2>1. ASSUME NEW t \in Thread, RunAction(t)
        PROVE  \A e \in Event : executed'[e] \in Nat /\ (executed[e] > 0 => executed'[e] > 0)
    BY <2>1 DEF RunAction
  <2>2. \/ \E t \in Thread : RunAction(t)
        \/ UNCHANGED executed
    BY DEF Next, Step, Request, InContext, DispatchChange, RemoveFromContext, Deliver, Snapshot,
           Choose, Restart, vars
  <2> QED
    BY <2>1, <2>2
<1>2. \A t \in Thread : call[t].pc # "idle" => call[t].ev \in Event
  BY DEF Fresh, Published
\* A step of t that leaves the marks alone.
<1>3. ASSUME NEW t \in Thread, UNCHANGED rows,
             \A u \in Thread \ {t} : call'[u] = call[u],
             \A e \in Event : "processed" \in flags'[e] => "processed" \in flags[e],
             \/ call'[t].pc \in {"idle", "act"} \/ call'[t].op # "process"
             \/ /\ call[t].pc \notin {"idle", "act"}
                /\ call'[t].op = call[t].op
                /\ call'[t].ev = call[t].ev
      PROVE  MarkerHasExecuted' /\ MarkedWasExecuted'
  <2>1. MarkedWasExecuted'
    BY <1>1, <1>3 DEF MarkedWasExecuted
  <2>2. MarkerHasExecuted'
    BY <1>1, <1>2, <1>3 DEF MarkerHasExecuted
  <2> QED
    BY <2>1, <2>2
<1>4. ASSUME NEW t \in Thread, InContext(Create(t)) PROVE MarkerHasExecuted' /\ MarkedWasExecuted'
  BY <1>3, <1>4, GotoEffect DEF InContext, Create
<1>5. ASSUME NEW t \in Thread, ChangeStep(t) PROVE MarkerHasExecuted' /\ MarkedWasExecuted'
  <2>1. /\ call[t].pc \notin {"idle", "act"}
        /\ \A u \in Thread \ {t} : call'[u] = call[u]
        /\ \/ call'[t].pc = "idle"
           \/ call'[t].op = call[t].op /\ call'[t].ev = call[t].ev
        /\ rows' = rows
    BY <1>5, ChangeEffect DEF InMachine
  <2>2. CASE InContext(Mark(t))
    <3>1. MarkerHasExecuted'
      BY <1>1, <1>2, <2>1 DEF MarkerHasExecuted
    <3>2. ASSUME NEW e \in Event, "processed" \in flags'[e], "processed" \notin flags[e]
          PROVE  executed[e] > 0
      <4>1. e = call[t].ev /\ call[t].op = "process"
        BY <2>2, <3>2 DEF InContext, Mark, FlagOf
      <4> QED
        BY <2>1, <4>1 DEF MarkerHasExecuted
    <3>3. MarkedWasExecuted'
      BY <1>1, <2>1, <3>2 DEF MarkedWasExecuted
    <3> QED
      BY <3>1, <3>3
  <2>3. CASE ~ InContext(Mark(t))
    <3>1. \A e \in Event : "processed" \in flags'[e] => "processed" \in flags[e]
      BY <1>5, <2>3 DEF ChangeStep, InContext, LookUp, CheckStatus, DispatchChange, Dispatch, Move,
                        Complete, Finish, Confirm, SetHasVideo
    <3> QED
      BY <1>3, <2>1, <3>1
  <2> QED
    BY <2>2, <2>3
<1>9. ASSUME NEW t \in Thread, Deliver(t) PROVE MarkerHasExecuted' /\ MarkedWasExecuted'
  <2>1. /\ call[t].pc \notin {"idle", "act"}
        /\ \A u \in Thread \ {t} : call'[u] = call[u]
        /\ call'[t].op = call[t].op /\ call'[t].ev = call[t].ev
    BY <1>9, GotoEffect DEF Deliver
  <2>2. MarkerHasExecuted'
    BY <1>1, <1>2, <2>1 DEF MarkerHasExecuted
  <2>3. \A e \in Event : rows'[e] = NoRow \/ rows'[e] = rows[e] \/ rows'[e] = flags[e]
    BY <1>9 DEF Deliver, RowAfter
  <2>4. MarkedWasExecuted'
    BY <1>1, <1>9, <2>3 DEF MarkedWasExecuted, Deliver
  <2> QED
    BY <2>2, <2>4
<1>10. ASSUME NEW t \in Thread, Snapshot(t) PROVE MarkerHasExecuted' /\ MarkedWasExecuted'
  BY <1>3, <1>10, GotoEffect DEF Snapshot
<1>11. ASSUME NEW t \in Thread, Choose(t) PROVE MarkerHasExecuted' /\ MarkedWasExecuted'
  <2>1. /\ \A u \in Thread \ {t} : call'[u] = call[u]
        /\ call'[t].pc \in {"idle", "act"}
    BY <1>11, ReturnEffect DEF Choose, Call
  <2> QED
    BY <1>3, <1>11, <2>1 DEF Choose
<1>12. ASSUME NEW t \in Thread, RunAction(t) PROVE MarkerHasExecuted' /\ MarkedWasExecuted'
  <2>1. CASE Return(t)
    BY <1>3, <1>12, <2>1, ReturnEffect DEF RunAction
  <2>2. CASE /\ executed' = [executed EXCEPT ![call[t].ev] = @ + 1]
             /\ call' = [call EXCEPT ![t].pc = "lookup", ![t].op = "process"]
    <3>1. /\ \A u \in Thread \ {t} : call'[u] = call[u]
          /\ call'[t].ev = call[t].ev
      BY <2>2 DEF Call
    <3>2. executed'[call[t].ev] > 0
      BY <1>2, <1>12, <2>2 DEF RunAction
    <3>3. MarkerHasExecuted'
      BY <1>1, <1>2, <3>1, <3>2 DEF MarkerHasExecuted
    <3>4. MarkedWasExecuted'
      BY <1>1, <1>12 DEF RunAction, MarkedWasExecuted
    <3> QED
      BY <3>3, <3>4
  <2> QED
    BY <1>12, <2>1, <2>2 DEF RunAction
<1>13. ASSUME NEW t \in Thread, NEW e \in Event, Request(t, e)
       PROVE  MarkerHasExecuted' /\ MarkedWasExecuted'
  <2>1. /\ UNCHANGED <<rows, flags>>
        /\ \A u \in Thread \ {t} : call'[u] = call[u]
        /\ call'[t].op # "process"
    BY <1>13, RequestEffect
  <2> QED
    BY <1>3, <2>1
<1>14. CASE Restart
  <2>1. MarkerHasExecuted'
    BY <1>14 DEF Restart, Idle, MarkerHasExecuted
  <2>2. \A e \in Event : (flags'[e] = rows[e] /\ rows[e] # NoRow) \/ flags'[e] = {}
    BY <1>14 DEF Restart
  <2>3. MarkedWasExecuted'
    BY <1>14, <2>2 DEF Restart, MarkedWasExecuted
  <2> QED
    BY <2>1, <2>3
<1>15. CASE UNCHANGED vars
  BY <1>15 DEF vars, MarkerHasExecuted, MarkedWasExecuted
<1> QED
  BY <1>4, <1>5, <1>9, <1>10, <1>11, <1>12, <1>13, <1>14, <1>15 DEF Next, Step, ChangeStep

----------------------------------------------------------------------------
(* The table converges.                                                    *)

\* The hash of a removed event is never used again, so its removal stays true until delivery.
LEMMA RemovalInductive ==
    ASSUME TypeOK, Fresh, RemovalIsFinal, [Next]_vars
    PROVE  RemovalIsFinal'
<1> USE DEF TypeOK, ContextTypeOK
\* A step of t that adds no event.
<1>1. ASSUME NEW t \in Thread, events' \subseteq events,
             \A u \in Thread \ {t} : call'[u] = call[u],
             call'[t].pc # "idle" /\ call'[t].op = "remove" =>
                call'[t].pc \in {"signal", "snapshot", "choose"} /\ call'[t].ev \notin events'
      PROVE  RemovalIsFinal'
  BY <1>1 DEF RemovalIsFinal
<1>2. ASSUME NEW t \in Thread, InContext(Create(t)) PROVE RemovalIsFinal'
  <2>1. /\ call'[t].op = "create"
        /\ call[t].pc = "stamped"
        /\ \A u \in Thread \ {t} : call'[u] = call[u]
        /\ events' = events \cup {call[t].ev}
    BY <1>2, GotoEffect DEF InContext, Create, Fresh
  <2>2. \A u \in Thread : call[u].pc \notin {"idle", "stamped"} => call[u].ev # call[t].ev
    BY <2>1 DEF Fresh, Published
  <2> QED
    BY <2>1, <2>2 DEF RemovalIsFinal
<1>3. ASSUME NEW t \in Thread, ChangeStep(t) \/ Choose(t) PROVE RemovalIsFinal'
  <2>1. CASE ChangeStep(t)
    <3>1. /\ events' = events
          /\ \A u \in Thread \ {t} : call'[u] = call[u]
          /\ call'[t].pc = "idle" \/ call'[t].op = call[t].op
          /\ call[t].pc \notin {"idle", "signal", "snapshot", "choose"}
      BY <2>1, ChangeEffect DEF InMachine
    <3> QED
      BY <1>1, <3>1 DEF RemovalIsFinal
  <2>2. CASE Choose(t)
    <3>1. /\ events' = events
          /\ \A u \in Thread \ {t} : call'[u] = call[u]
      BY <2>2, StepEffect DEF Choose, Step
    <3>2. call'[t].pc = "idle" \/ call'[t].op # "remove"
      BY <2>2, ReturnEffect DEF Choose, ToRun, Call
    <3> QED
      BY <1>1, <3>1, <3>2
  <2> QED
    BY <1>3, <2>1, <2>2
<1>4. ASSUME NEW t \in Thread, Deliver(t) \/ Snapshot(t) PROVE RemovalIsFinal'
  BY <1>1, <1>4, GotoEffect DEF Deliver, Snapshot, RemovalIsFinal
<1>5. ASSUME NEW t \in Thread, RunAction(t) PROVE RemovalIsFinal'
  <2>1. call'[t].pc = "idle" \/ call'[t].op # "remove"
    BY <1>5, ReturnEffect DEF RunAction, Call
  <2> QED
    BY <1>1, <1>5, <2>1, StepEffect DEF Step, RunAction
<1>6. ASSUME NEW t \in Thread, NEW e \in Event, Request(t, e) PROVE RemovalIsFinal'
  BY <1>1, <1>6, RequestEffect
<1>7. CASE Restart
  BY <1>7 DEF Restart, Idle, RemovalIsFinal
<1>8. CASE UNCHANGED vars
  BY <1>8 DEF vars, RemovalIsFinal
<1> QED
  BY <1>2, <1>3, <1>4, <1>5, <1>6, <1>7, <1>8 DEF Next, Step, ChangeStep

\* A creation adds its event before its signal is sent, and the removal that takes the event
\* away from under that signal makes the event a crossed one.
LEMMA InsertionInductive ==
    ASSUME TypeOK, ChangesAreNamed, InsertionIsKnown, [Next]_vars
    PROVE  InsertionIsKnown'
<1> USE DEF TypeOK, ContextTypeOK
\* A step of t after which t is about to insert nothing, and that removes no event.
<1>1. ASSUME NEW t \in Thread, events \subseteq events', crossed \subseteq crossed',
             \A u \in Thread \ {t} : call'[u] = call[u],
             call'[t].pc = "signal" => call'[t].op # "create"
      PROVE  InsertionIsKnown'
  BY <1>1 DEF InsertionIsKnown, WillInsert
<1>2. ASSUME NEW t \in Thread, InContext(Create(t)) PROVE InsertionIsKnown'
  BY <1>2, GotoEffect DEF InContext, Create, InsertionIsKnown, WillInsert
<1>3. ASSUME NEW t \in Thread, ChangeStep(t) PROVE InsertionIsKnown'
  <2>1. call'[t].pc = "signal" => call'[t].op # "create"
    BY <1>3, ChangeEffect DEF ChangesAreNamed
  <2> QED
    BY <1>1, <1>3, <2>1, ChangeEffect
<1>4. ASSUME NEW t \in Thread, Deliver(t) \/ Snapshot(t) \/ Choose(t) \/ RunAction(t)
      PROVE  InsertionIsKnown'
  <2>1. call'[t].pc # "signal" /\ events' = events /\ crossed' = crossed
    BY <1>4, GotoEffect, ReturnEffect DEF Deliver, Snapshot, Choose, RunAction, Call
  <2> QED
    BY <1>1, <1>4, <2>1, StepEffect DEF Step
<1>5. ASSUME NEW t \in Thread, NEW e \in Event, Request(t, e) PROVE InsertionIsKnown'
  <2>1. CASE RemoveFromContext(t, e)
    <3>1. /\ events' = events \ {e}
          /\ (\E u \in Thread : WillInsert(u, e)) => e \in crossed'
          /\ crossed \subseteq crossed'
      BY <2>1 DEF RemoveFromContext, RemoveEvent
    <3>2. /\ call'[t].op = "remove" /\ call[t].pc = "idle"
          /\ \A u \in Thread \ {t} : call'[u] = call[u]
      BY <2>1, BeginEffect DEF RemoveFromContext, RemoveEvent
    <3> QED
      BY <3>1, <3>2 DEF InsertionIsKnown, WillInsert
  <2>2. CASE InContext(StampEvent(t, e)) \/ InContext(BeginAck(t, e)) \/ InContext(BeginHasVideo(t, e))
    BY <1>1, <2>2, BeginEffect DEF InContext, StampEvent, BeginAck, BeginHasVideo
  <2> QED
    BY <1>5, <2>1, <2>2 DEF Request
<1>6. CASE Restart
  BY <1>6 DEF Restart, Idle, InsertionIsKnown, WillInsert
<1>7. CASE UNCHANGED vars
  BY <1>7 DEF vars, InsertionIsKnown, WillInsert
<1> QED
  BY <1>2, <1>3, <1>4, <1>5, <1>6, <1>7 DEF Next, Step, ChangeStep

\* A video report passes the machine by; nobody else comes to it but by one of the two changes.
LEMMA NamedInductive ==
    ASSUME TypeOK, ChangesAreNamed, [Next]_vars
    PROVE  ChangesAreNamed'
<1> USE DEF TypeOK, ContextTypeOK, InMachine
\* A step of t that leaves it where it should be.
<1>1. ASSUME NEW t \in Thread, \A u \in Thread \ {t} : call'[u] = call[u],
             call'[t].pc = "lookup" => call'[t].op \in {"ack", "process", "video"},
             call'[t].pc = "flag" => call'[t].op = "video",
             call'[t].pc \in {"guard", "dispatch"} \cup InMachine => call'[t].op \in {"ack", "process"}
      PROVE  ChangesAreNamed'
  BY <1>1 DEF ChangesAreNamed
<1>2. ASSUME NEW t \in Thread, ChangeStep(t) PROVE ChangesAreNamed'
  <2>1. CASE InContext(LookUp(t))
    BY <1>1, <2>1, GotoEffect, ReturnEffect DEF InContext, LookUp, ChangesAreNamed
  <2>2. CASE InContext(SetHasVideo(t))
    BY <1>1, <2>2, GotoEffect DEF InContext, SetHasVideo
  <2>3. CASE ~ InContext(LookUp(t)) /\ ~ InContext(SetHasVideo(t))
    <3>1. /\ call[t].pc \in {"guard", "dispatch"} \cup InMachine
          /\ call'[t].pc \notin {"lookup", "flag"}
      BY <1>2, <2>3, GotoEffect, ReturnEffect
         DEF ChangeStep, InContext, CheckStatus, DispatchChange, Dispatch, Move, Mark, Complete, Finish,
             Confirm
    <3> QED
      BY <1>1, <1>2, <3>1, ChangeEffect DEF ChangesAreNamed
  <2> QED
    BY <2>1, <2>2, <2>3
<1>3. ASSUME NEW t \in Thread, InContext(Create(t)) \/ Deliver(t) \/ Snapshot(t) \/ Choose(t) \/ RunAction(t)
      PROVE  ChangesAreNamed'
  <2>1. \/ call'[t].pc \in {"signal", "snapshot", "choose", "act", "idle"}
        \/ call'[t].pc = "lookup" /\ call'[t].op = "process"
    BY <1>3, GotoEffect, ReturnEffect DEF InContext, Create, Deliver, Snapshot, Choose, RunAction, Call
  <2> QED
    BY <1>1, <1>3, <2>1, StepEffect DEF Step
<1>4. ASSUME NEW t \in Thread, NEW e \in Event, Request(t, e) PROVE ChangesAreNamed'
  BY <1>1, <1>4, RequestEffect
<1>5. CASE Restart
  BY <1>5 DEF Restart, Idle, ChangesAreNamed
<1>6. CASE UNCHANGED vars
  BY <1>6 DEF vars, ChangesAreNamed
<1> QED
  BY <1>2, <1>3, <1>4, <1>5, <1>6 DEF Next, Step, ChangeStep

\* A change that finds the machine in a state it may leave makes its event a crossed one if the
\* other change has been there and has not marked it; so, short of that, whoever writes the
\* machine knows what it overwrites.
LEMMA ApartInductive ==
    ASSUME TypeOK, Fresh, ChangesAreNamed, ChangesAreApart, [Next]_vars
    PROVE  ChangesAreApart'
<1> USE DEF TypeOK, ContextTypeOK, InMachine
<1>0. \A t \in Thread : call[t].pc # "idle" => call[t].ev \in Event
  BY DEF Fresh, Published
\* A step of t that keeps the machine of every event that stays, and by which t does not come
\* nearer to the machine.
<1>1. ASSUME NEW t \in Thread, \A u \in Thread \ {t} : call'[u] = call[u],
             events' \ crossed' \subseteq events \ crossed,
             \A e \in events' : machine'[e] = machine[e],
             call'[t].pc \notin InMachine
      PROVE  ChangesAreApart'
  BY <1>1 DEF ChangesAreApart
<1>2. ASSUME NEW t \in Thread, InContext(Create(t)) PROVE ChangesAreApart'
  <2>1. /\ call[t].pc = "stamped" /\ call[t].ev \in Event
        /\ call'[t].pc = "signal"
        /\ \A u \in Thread \ {t} : call'[u] = call[u]
        /\ events' = events \cup {call[t].ev} /\ crossed' = crossed
        /\ \A e \in Event \ {call[t].ev} : machine'[e] = machine[e]
    BY <1>0, <1>2, GotoEffect DEF InContext, Create
  <2>2. \A u \in Thread : call[u].pc \in InMachine => call[u].ev # call[t].ev
    BY <2>1 DEF Fresh, Published
  <2> QED
    BY <2>1, <2>2 DEF ChangesAreApart
<1>3. ASSUME NEW t \in Thread, DispatchChange(t) PROVE ChangesAreApart'
  <2>1. /\ call[t].pc = "dispatch" /\ call[t].op \in {"ack", "process"}
        /\ call'[t].pc = IF machine[call[t].ev] \in Sources(call[t].op) THEN "move" ELSE "complete"
        /\ call'[t].op = call[t].op /\ call'[t].ev = call[t].ev
        /\ \A u \in Thread \ {t} : call'[u] = call[u]
        /\ UNCHANGED <<events, machine>>
        /\ crossed \subseteq crossed'
        /\ Crosses(t) => call[t].ev \in crossed'
    BY <1>3, GotoEffect DEF DispatchChange, Dispatch, ChangesAreNamed
  <2>2. CASE call'[t].pc = "complete"
    BY <2>1, <2>2 DEF ChangesAreApart, Sources
  <2>3. CASE call'[t].pc = "move" /\ ~ Crosses(t)
    <3>1. machine[call[t].ev] \in Sources(call[t].op)
      BY <2>1, <2>3
    <3>2. \A u \in Thread : call[u].pc \in {"move", "mark"} /\ call[u].ev = call[t].ev
                               => call[u].op = call[t].op
      BY <2>3, <3>1 DEF Crosses
    <3> QED
      BY <2>1, <2>3, <3>1, <3>2 DEF ChangesAreApart, Sources
  <2>4. CASE call'[t].pc = "move" /\ Crosses(t)
    BY <2>1, <2>4 DEF ChangesAreApart
  <2> QED
    BY <2>1, <2>2, <2>3, <2>4
<1>4. ASSUME NEW t \in Thread, InContext(Move(t)) PROVE ChangesAreApart'
  <2>1. /\ call[t].pc = "move" /\ call[t].op \in {"ack", "process"} /\ call[t].ev \in Event
        /\ call'[t].pc = "mark"
        /\ call'[t].op = call[t].op /\ call'[t].ev = call[t].ev
        /\ \A u \in Thread \ {t} : call'[u] = call[u]
        /\ UNCHANGED <<events, crossed>>
        /\ machine'[call[t].ev] = Target(call[t].op)
        /\ \A e \in Event \ {call[t].ev} : machine'[e] = machine[e]
    BY <1>0, <1>4, GotoEffect DEF InContext, Move, ChangesAreNamed
  <2>2. SUFFICES ASSUME call[t].ev \in events \ crossed
                 PROVE  ChangesAreApart'
    BY <2>1 DEF ChangesAreApart
  <2>3. CASE call[t].op = "process"
    <3>1. machine[call[t].ev] \in {"created", "processed"}
      BY <2>1, <2>2, <2>3 DEF ChangesAreApart
    <3>2. \A u \in Thread : call[u].ev = call[t].ev =>
              call[u].pc # "finish" /\ (call[u].op = "ack" => call[u].pc \notin InMachine)
      BY <2>1, <2>2, <2>3, <3>1 DEF ChangesAreApart
    <3> QED
      BY <2>1, <2>2, <2>3, <3>2 DEF ChangesAreApart, Target
  <2>4. CASE call[t].op = "ack"
    <3>1. \A u \in Thread : call[u].ev = call[t].ev /\ call[u].pc \in {"move", "mark"}
                               => call[u].op = "ack"
      BY <2>1, <2>2, <2>4 DEF ChangesAreApart
    <3> QED
      BY <2>1, <2>2, <2>4, <3>1 DEF ChangesAreApart, Target
  <2> QED
    BY <2>1, <2>3, <2>4
<1>5. ASSUME NEW t \in Thread, InContext(Mark(t)) PROVE ChangesAreApart'
  <2>1. /\ call[t].pc = "mark" /\ call'[t].pc = "complete"
        /\ call'[t].op = call[t].op /\ call'[t].ev = call[t].ev
        /\ \A u \in Thread \ {t} : call'[u] = call[u]
        /\ UNCHANGED <<events, crossed, machine>>
    BY <1>5, GotoEffect DEF InContext, Mark
  <2> QED
    BY <2>1 DEF ChangesAreApart
<1>6. ASSUME NEW t \in Thread, InContext(Complete(t)) PROVE ChangesAreApart'
  <2>1. /\ call[t].pc = "complete"
        /\ call'[t].pc = IF machine[call[t].ev] = "ack" THEN "finish" ELSE "confirm"
        /\ call'[t].op = call[t].op /\ call'[t].ev = call[t].ev
        /\ \A u \in Thread \ {t} : call'[u] = call[u]
        /\ UNCHANGED <<events, crossed, machine>>
    BY <1>6, GotoEffect DEF InContext, Complete
  <2> QED
    BY <2>1 DEF ChangesAreApart
<1>7. ASSUME NEW t \in Thread, InContext(Finish(t)) PROVE ChangesAreApart'
  <2>1. /\ call[t].pc = "finish" /\ call[t].ev \in Event
        /\ call'[t].pc = "complete"
        /\ call'[t].op = call[t].op /\ call'[t].ev = call[t].ev
        /\ \A u \in Thread \ {t} : call'[u] = call[u]
        /\ UNCHANGED <<events, crossed>>
        /\ machine'[call[t].ev] = "X"
        /\ \A e \in Event \ {call[t].ev} : machine'[e] = machine[e]
    BY <1>0, <1>7, GotoEffect DEF InContext, Finish
  <2>2. SUFFICES ASSUME call[t].ev \in events \ crossed
                 PROVE  ChangesAreApart'
    BY <2>1 DEF ChangesAreApart
  <2>3. machine[call[t].ev] \in {"ack", "X"}
    BY <2>1, <2>2 DEF ChangesAreApart
  <2>4. \A u \in Thread : call[u].ev = call[t].ev /\ call[u].op = "process"
                             => call[u].pc \notin {"move", "mark"}
    BY <2>2, <2>3 DEF ChangesAreApart
  <2> QED
    BY <2>1, <2>2, <2>4 DEF ChangesAreApart
<1>8. ASSUME NEW t \in Thread,
             \/ InContext(LookUp(t)) \/ InContext(CheckStatus(t)) \/ InContext(Confirm(t))
             \/ InContext(SetHasVideo(t)) \/ Deliver(t) \/ Snapshot(t) \/ Choose(t) \/ RunAction(t)
      PROVE  ChangesAreApart'
  <2>1. call'[t].pc \notin InMachine
    BY <1>8, GotoEffect, ReturnEffect
       DEF InContext, LookUp, CheckStatus, Confirm, SetHasVideo, Deliver, Snapshot, Choose, RunAction, Call
  <2>2. UNCHANGED <<events, crossed, machine>>
    BY <1>8 DEF InContext, LookUp, CheckStatus, Confirm, SetHasVideo, Deliver, Snapshot, Choose, RunAction
  <2>3. \A u \in Thread \ {t} : call'[u] = call[u]
    BY <1>8, StepEffect DEF Step
  <2> QED
    BY <1>1, <2>1, <2>2, <2>3
<1>9. ASSUME NEW t \in Thread, NEW e \in Event, Request(t, e) PROVE ChangesAreApart'
  <2>1. \A x \in events' : machine'[x] = machine[x]
    <3>1. CASE RemoveFromContext(t, e)
      BY <3>1 DEF RemoveFromContext, RemoveEvent
    <3>2. CASE ~ RemoveFromContext(t, e)
      BY <1>9, <3>2 DEF Request, InContext, StampEvent, BeginAck, BeginHasVideo
    <3> QED
      BY <3>1, <3>2
  <2> QED
    BY <1>1, <1>9, <2>1, RequestEffect
<1>10. CASE Restart
  BY <1>10 DEF Restart, Idle, ChangesAreApart
<1>11. CASE UNCHANGED vars
  BY <1>11 DEF vars, ChangesAreApart
<1> QED
  BY <1>2, <1>3, <1>4, <1>5, <1>6, <1>7, <1>8, <1>9, <1>10, <1>11 DEF Next, Step

\* A thread that will deliver goes on to deliver, or leaves that to the last writer of the machine.
LEMMA DeliveryIsKept ==
    ASSUME TypeOK, Fresh, ChangesAreNamed, ChangesAreApart, NEW t \in Thread, ChangeStep(t),
           NEW e \in events \ crossed,
           \/ \E u \in Thread : WillDeliver(u, e)
           \/ call[t].ev = e /\ call[t].pc \in {"mark", "flag"}
    PROVE  \E u \in Thread : WillDeliver(u, e)'
<1> USE DEF TypeOK, ContextTypeOK, InMachine
<1>0. \A u \in Thread : call[u].pc # "idle" => call[u].ev \in Event
  BY DEF Fresh, Published
<1>1. CASE call[t].ev # e
  <2>1. PICK u \in Thread : WillDeliver(u, e)
    BY <1>1
  <2>2. u # t /\ call'[u] = call[u] /\ machine'[e] = machine[e]
    BY <1>1, <2>1, ChangeEffect DEF WillDeliver
  <2> QED
    BY <2>1, <2>2 DEF WillDeliver
<1>2. CASE call[t].ev = e /\ InContext(Move(t))
  <2>1. /\ call'[t].pc = "mark" /\ call'[t].ev = e /\ call'[t].op = call[t].op
        /\ machine'[e] = Target(call[t].op)
        /\ call[t].op \in {"ack", "process"}
    BY <1>0, <1>2, GotoEffect DEF InContext, Move, ChangesAreNamed
  <2> QED
    BY <2>1 DEF WillDeliver, Target, Final
<1>3. CASE call[t].ev = e /\ InContext(Mark(t))
  <2>1. /\ call[t].pc = "mark" /\ call'[t].pc = "complete" /\ call'[t].ev = e /\ call'[t].op = call[t].op
        /\ machine' = machine
        /\ call[t].op \in {"ack", "process"}
    BY <1>0, <1>3, GotoEffect DEF InContext, Mark, ChangesAreNamed
  <2>2. machine[e] \in IF call[t].op = "process" THEN {"processed"} ELSE {"ack", "X"}
    BY <1>3, <2>1 DEF ChangesAreApart
  <2> QED
    BY <2>1, <2>2 DEF WillDeliver, Final
<1>4. CASE call[t].ev = e /\ InContext(SetHasVideo(t))
  BY <1>4, GotoEffect DEF InContext, SetHasVideo, WillDeliver
<1>5. CASE call[t].ev = e /\ InContext(Finish(t))
  <2>1. /\ call[t].pc = "finish"
        /\ call'[t].pc = "complete" /\ call'[t].ev = e /\ call'[t].op = call[t].op
        /\ machine'[e] = "X"
        /\ call[t].op \in {"ack", "process"}
        /\ \A u \in Thread \ {t} : call'[u] = call[u]
    BY <1>0, <1>5, GotoEffect DEF InContext, Finish, ChangesAreNamed
  <2>2. CASE call[t].op = "ack"
    BY <2>1, <2>2 DEF WillDeliver, Final
  <2>3. CASE call[t].op = "process"
    <3>1. PICK u \in Thread : WillDeliver(u, e)
      BY <2>1
    <3>2. machine[e] \in {"ack", "X"}
      BY <1>5, <2>1 DEF ChangesAreApart
    <3>3. u # t /\ call'[u] = call[u]
      BY <2>1, <2>3, <3>1 DEF WillDeliver
    <3>4. call[u].pc = "signal" \/ (call[u].op = "ack" /\ call[u].pc \in {"mark", "complete", "finish", "confirm"})
      BY <3>1, <3>2 DEF WillDeliver, Final, ChangesAreNamed
    <3> QED
      BY <2>1, <3>1, <3>3, <3>4 DEF WillDeliver, Final
  <2> QED
    BY <2>1, <2>2, <2>3
<1>6. CASE /\ call[t].ev = e
           /\ \/ InContext(LookUp(t)) \/ InContext(CheckStatus(t)) \/ DispatchChange(t)
              \/ InContext(Complete(t)) \/ InContext(Confirm(t))
  <2>1. /\ machine' = machine
        /\ call[t].pc \in {"lookup", "guard", "dispatch", "complete", "confirm"}
        /\ \A u \in Thread \ {t} : call'[u] = call[u]
    BY <1>6, ChangeEffect
       DEF InContext, LookUp, CheckStatus, DispatchChange, Dispatch, Complete, Confirm
  <2>2. PICK u \in Thread : WillDeliver(u, e)
    BY <2>1
  <2>3. CASE u # t
    BY <2>1, <2>2, <2>3 DEF WillDeliver
  <2>4. CASE u = t /\ InContext(Complete(t))
    <3>1. /\ call'[t].pc = IF machine[e] = "ack" THEN "finish" ELSE "confirm"
          /\ call'[t].ev = e /\ call'[t].op = call[t].op
          /\ call[t].op \in {"ack", "process"}
      BY <1>6, <2>4, GotoEffect DEF InContext, Complete, ChangesAreNamed
    <3> QED
      BY <2>1, <2>2, <2>4, <3>1 DEF WillDeliver, Final
  <2>5. CASE u = t /\ InContext(Confirm(t))
    <3>1. machine[e] = Final(call[t].op)
      BY <2>2, <2>5 DEF WillDeliver, InContext, Confirm
    <3>2. call'[t].pc = "signal" /\ call'[t].ev = e
      BY <1>6, <2>5, <3>1, GotoEffect DEF InContext, Confirm
    <3> QED
      BY <3>2 DEF WillDeliver
  <2>6. u = t => call[t].pc \in {"complete", "confirm"}
    BY <2>1, <2>2 DEF WillDeliver
  <2> QED
    BY <1>6, <2>3, <2>4, <2>5, <2>6 DEF InContext, LookUp, CheckStatus, DispatchChange, Dispatch
<1> QED
  BY <1>1, <1>2, <1>3, <1>4, <1>5, <1>6 DEF ChangeStep

\* Whoever makes a row stale is on its way to deliver a signal: a delivery writes the flags of
\* the moment, and a thread whose machine state was overwritten leaves the signal to the last writer.
LEMMA RowsInductive ==
    ASSUME TypeOK, Fresh, RemovalIsFinal, InsertionIsKnown, ChangesAreNamed, ChangesAreApart,
           RowsConverge, [Next]_vars
    PROVE  RowsConverge'
<1> USE DEF TypeOK, ContextTypeOK, InMachine
<1>0. \A t \in Thread : call[t].pc # "idle" => call[t].ev \in Event
  BY DEF Fresh, Published
\* A step of t, which delivers nothing, that leaves rows and flags alone.
<1>1. ASSUME NEW t \in Thread, call[t].pc # "signal",
             \A u \in Thread \ {t} : call'[u] = call[u],
             crossed \subseteq crossed',
             UNCHANGED <<events, rows>>,
             \A e \in events \ crossed' :
                rows[e] \notin {NoRow, flags'[e]} => \E u \in Thread : WillDeliver(u, e)'
      PROVE  RowsConverge'
  <2>1. \A u \in Thread, e \in Event : WillInsert(u, e) => WillInsert(u, e)'
    BY <1>1 DEF WillInsert
  <2>2. \A u \in Thread, e \in Event :
            call[u].ev = e /\ call[u].pc = "signal" /\ call[u].op = "remove"
                => call'[u].ev = e /\ call'[u].pc = "signal" /\ call'[u].op = "remove"
    BY <1>1
  <2> QED
    BY <1>1, <2>1, <2>2 DEF RowsConverge
<1>2. ASSUME NEW t \in Thread, ChangeStep(t) PROVE RowsConverge'
  <2>1. /\ call[t].pc # "signal"
        /\ \A u \in Thread \ {t} : call'[u] = call[u]
        /\ crossed \subseteq crossed'
        /\ UNCHANGED <<events, rows>>
    BY <1>2, ChangeEffect
  <2>2. ASSUME NEW e \in events \ crossed', rows[e] \notin {NoRow, flags'[e]}
        PROVE  \E u \in Thread : WillDeliver(u, e)'
    <3>1. e \in events \ crossed
      BY <2>1, <2>2
    <3>2. CASE flags'[e] = flags[e]
      BY <1>2, <2>2, <3>1, <3>2, DeliveryIsKept DEF RowsConverge
    <3>3. CASE flags'[e] # flags[e]
      <4>1. InContext(Mark(t)) \/ InContext(SetHasVideo(t))
        BY <1>2, <3>3 DEF ChangeStep, InContext, LookUp, CheckStatus, DispatchChange, Dispatch, Move,
                          Complete, Finish, Confirm
      <4>2. call[t].ev = e /\ call[t].pc \in {"mark", "flag"}
        BY <1>2, <3>3, <4>1, ChangeEffect DEF InContext, Mark, SetHasVideo
      <4> QED
        BY <1>2, <3>1, <4>2, DeliveryIsKept
    <3> QED
      BY <3>2, <3>3
  <2> QED
    BY <1>1, <2>1, <2>2
<1>3. ASSUME NEW t \in Thread, InContext(Create(t)) PROVE RowsConverge'
  <2>1. /\ call[t].pc = "stamped" /\ call[t].op = "create" /\ call[t].ev \in Event
        /\ call'[t].pc = "signal" /\ call'[t].op = "create" /\ call'[t].ev = call[t].ev
        /\ \A u \in Thread \ {t} : call'[u] = call[u]
        /\ events' = events \cup {call[t].ev}
        /\ UNCHANGED <<rows, crossed>>
        /\ \A e \in Event \ {call[t].ev} : flags'[e] = flags[e] /\ machine'[e] = machine[e]
    BY <1>0, <1>3, GotoEffect DEF InContext, Create, Fresh
  <2>2. \A e \in Event : e = call[t].ev => WillInsert(t, e)' /\ WillDeliver(t, e)'
    BY <2>1 DEF WillInsert, WillDeliver
  <2>3. \A u \in Thread, e \in Event : WillInsert(u, e) => WillInsert(u, e)'
    BY <2>1 DEF WillInsert
  <2>4. \A u \in Thread, e \in Event \ {call[t].ev} : WillDeliver(u, e) => WillDeliver(u, e)'
    BY <2>1 DEF WillDeliver
  <2>5. \A u \in Thread, e \in Event :
            call[u].ev = e /\ call[u].pc = "signal" /\ call[u].op = "remove"
                => call'[u].ev = e /\ call'[u].pc = "signal" /\ call'[u].op = "remove"
    BY <2>1
  <2>6. \A e \in events' : rows'[e] = NoRow => \E u \in Thread : WillInsert(u, e)'
    BY <2>1, <2>2, <2>3 DEF RowsConverge
  <2>7. \A e \in events' \ crossed' :
            rows'[e] \notin {NoRow, flags'[e]} => \E u \in Thread : WillDeliver(u, e)'
    <3>1. SUFFICES ASSUME NEW e \in events' \ crossed', e # call[t].ev, rows'[e] \notin {NoRow, flags'[e]}
                   PROVE  \E u \in Thread : WillDeliver(u, e)'
      BY <2>1, <2>2
    <3>2. e \in events \ crossed /\ e \in Event /\ rows[e] \notin {NoRow, flags[e]}
      BY <2>1, <3>1
    <3> QED
      BY <2>4, <3>1, <3>2 DEF RowsConverge
  <2>8. \A e \in Event \ (events' \cup crossed') :
            rows'[e] # NoRow =>
                \E u \in Thread : call'[u].ev = e /\ call'[u].pc = "signal" /\ call'[u].op = "remove"
    BY <2>1, <2>5 DEF RowsConverge
  <2> QED
    BY <2>6, <2>7, <2>8 DEF RowsConverge
<1>4. ASSUME NEW t \in Thread, Snapshot(t) \/ Choose(t) \/ RunAction(t) PROVE RowsConverge'
  <2>1. /\ call[t].pc \in {"snapshot", "choose", "act"}
        /\ UNCHANGED <<events, rows, flags, machine, crossed>>
        /\ \A u \in Thread \ {t} : call'[u] = call[u]
    BY <1>4, StepEffect DEF Snapshot, Choose, RunAction, Step
  <2>2. \A u \in Thread, e \in Event : WillDeliver(u, e) => WillDeliver(u, e)'
    BY <2>1 DEF WillDeliver
  <2> QED
    BY <1>1, <2>1, <2>2 DEF RowsConverge
<1>5. ASSUME NEW t \in Thread, Deliver(t) PROVE RowsConverge'
  <2>1. PICK x \in Event : x = call[t].ev
    BY <1>0, <1>5 DEF Deliver
  <2>2. /\ call[t].pc = "signal"
        /\ call'[t].pc = "snapshot"
        /\ \A u \in Thread \ {t} : call'[u] = call[u]
        /\ UNCHANGED <<events, flags, machine, crossed>>
        /\ \A e \in Event \ {x} : rows'[e] = rows[e]
        /\ rows'[x] = RowAfter(Emits(call[t].op), x)
    BY <1>5, <2>1, GotoEffect DEF Deliver
  <2>3. \A u \in Thread, e \in Event \ {x} : WillDeliver(u, e) => WillDeliver(u, e)'
    BY <2>1, <2>2 DEF WillDeliver
  <2>4. \A u \in Thread, e \in Event :
            WillInsert(u, e) /\ (e = x => call[t].op # "create") => WillInsert(u, e)'
    BY <2>1, <2>2 DEF WillInsert
  <2>5. flags[x] # NoRow
    BY DEF NoRow, Flag
  <2>6. ASSUME NEW e \in events', rows'[e] = NoRow PROVE \E u \in Thread : WillInsert(u, e)'
    <3>1. CASE e = x
      <4>1. call[t].op \notin {"create", "remove"} /\ rows[x] = NoRow
        BY <2>1, <2>2, <2>5, <2>6, <3>1 DEF RowAfter, Emits, RemovalIsFinal
      <4> QED
        BY <2>2, <2>4, <3>1, <4>1 DEF RowsConverge
    <3>2. CASE e # x
      <4>1. rows[e] = NoRow /\ e \in events
        BY <2>2, <2>6, <3>2
      <4> QED
        BY <2>4, <3>2, <4>1 DEF RowsConverge
    <3> QED
      BY <3>1, <3>2
  <2>7. ASSUME NEW e \in events' \ crossed', rows'[e] \notin {NoRow, flags'[e]}
        PROVE  \E u \in Thread : WillDeliver(u, e)'
    <3>1. e # x
      BY <2>2, <2>7 DEF RowAfter, Emits
    <3>2. rows[e] \notin {NoRow, flags[e]} /\ e \in events \ crossed
      BY <2>2, <2>7, <3>1
    <3> QED
      BY <2>3, <3>1, <3>2 DEF RowsConverge
  <2>8. ASSUME NEW e \in Event \ (events' \cup crossed'), rows'[e] # NoRow
        PROVE  \E u \in Thread : call'[u].ev = e /\ call'[u].pc = "signal" /\ call'[u].op = "remove"
    <3>1. e = x => call[t].op \notin {"create", "remove"} /\ rows[x] # NoRow
      BY <2>1, <2>2, <2>8 DEF InsertionIsKnown, WillInsert, RowAfter, Emits
    <3>2. rows[e] # NoRow
      BY <2>2, <2>8, <3>1
    <3>3. PICK u \in Thread : call[u].ev = e /\ call[u].pc = "signal" /\ call[u].op = "remove"
      BY <2>2, <2>8, <3>2 DEF RowsConverge
    <3>4. u # t
      BY <2>1, <3>1, <3>3
    <3> QED
      BY <2>2, <3>3, <3>4
  <2> QED
    BY <2>6, <2>7, <2>8 DEF RowsConverge
<1>6. ASSUME NEW t \in Thread, NEW e \in Event, Request(t, e) PROVE RowsConverge'
  <2>1. CASE RemoveFromContext(t, e)
    <3>1. /\ events' = events \ {e} /\ crossed \subseteq crossed'
          /\ UNCHANGED <<rows, flags>>
          /\ \A x \in Event \ {e} : machine'[x] = machine[x]
          /\ call[t].pc = "idle"
          /\ call'[t].ev = e /\ call'[t].pc = "signal" /\ call'[t].op = "remove"
          /\ \A u \in Thread \ {t} : call'[u] = call[u]
      BY <2>1, BeginEffect DEF RemoveFromContext, RemoveEvent
    <3>2. \A u \in Thread, x \in Event \ {e} :
              /\ WillInsert(u, x) => WillInsert(u, x)'
              /\ WillDeliver(u, x) => WillDeliver(u, x)'
              /\ call[u].ev = x /\ call[u].pc = "signal" /\ call[u].op = "remove"
                    => call'[u].ev = x /\ call'[u].pc = "signal" /\ call'[u].op = "remove"
      BY <3>1 DEF WillInsert, WillDeliver
    <3> QED
      BY <3>1, <3>2 DEF RowsConverge
  <2>2. CASE ~ RemoveFromContext(t, e)
    <3>1. UNCHANGED <<events, rows, flags, machine, crossed>>
      BY <1>6, <2>2 DEF Request, InContext, StampEvent, BeginAck, BeginHasVideo
    <3>2. call[t].pc = "idle" /\ \A u \in Thread \ {t} : call'[u] = call[u]
      BY <1>6, RequestEffect
    <3>3. \A u \in Thread, x \in Event : WillDeliver(u, x) => WillDeliver(u, x)'
      BY <3>1, <3>2 DEF WillDeliver
    <3> QED
      BY <1>1, <3>1, <3>2, <3>3 DEF RowsConverge
  <2> QED
    BY <2>1, <2>2
<1>7. CASE Restart
  BY <1>7 DEF Restart, RowsConverge
<1>8. CASE UNCHANGED vars
  BY <1>8 DEF vars, RowsConverge, WillInsert, WillDeliver
<1> QED
  BY <1>2, <1>3, <1>4, <1>5, <1>6, <1>7, <1>8 DEF Next, Step, ChangeStep

----------------------------------------------------------------------------
(* The archive.                                                            *)

\* No step gives a handler an archived event: events are archived by a restart only, which
\* leaves no handler, and neither GetEvents nor a creation hands out one of them.
LEMMA ArchiveInductive ==
    ASSUME TypeOK, Fresh, ArchiveIsOutOfReach, [Next]_vars
    PROVE  ArchiveIsOutOfReach'
<1> USE DEF TypeOK, ContextTypeOK
\* A step of t that archives nothing.
<1>1. ASSUME NEW t \in Thread,
             \A u \in Thread \ {t} : call'[u] = call[u],
             \A e \in Event : machine'[e] = "archived" => machine[e] = "archived",
             \A u \in Thread : \A e \in seen'[u] : machine[e] # "archived",
             call'[t].pc \in {"act", "move", "mark", "finish"}
                  \/ (call'[t].pc # "idle" /\ call'[t].op = "create")
                => call'[t].ev \in Event /\ machine'[call'[t].ev] # "archived"
      PROVE  ArchiveIsOutOfReach'
  <2>1. \A u \in Thread : call[u].pc # "idle" => call[u].ev \in Event
    BY DEF Fresh, Published
  <2>2. \A u \in Thread : seen'[u] \subseteq Event
    BY TypeInductive
  <2> QED
    BY <1>1, <2>1, <2>2 DEF ArchiveIsOutOfReach
<1>2. \A t \in Thread : call[t].pc # "idle" => call[t].ev \in Event
  BY DEF Fresh, Published
<1>3. ASSUME NEW t \in Thread, InContext(Create(t)) PROVE ArchiveIsOutOfReach'
  <2>1. /\ \A e \in Event : machine'[e] = "archived" => machine[e] = "archived"
        /\ call[t].ev \in Event
        /\ machine'[call[t].ev] = "created"
        /\ seen' = seen
    BY <1>2, <1>3 DEF InContext, Create
  <2>2. call'[t].ev = call[t].ev /\ \A u \in Thread \ {t} : call'[u] = call[u]
    BY <1>3, GotoEffect DEF InContext, Create
  <2> QED
    BY <1>1, <2>1, <2>2 DEF ArchiveIsOutOfReach
<1>4. ASSUME NEW t \in Thread, ChangeStep(t) PROVE ArchiveIsOutOfReach'
  <2>1. /\ \A e \in Event : machine'[e] = "archived" => machine[e] = "archived"
        /\ call'[t].pc \in {"move", "mark", "finish"} => machine'[call[t].ev] # "archived"
    <3>1. CASE DispatchChange(t) \/ InContext(Complete(t))
      BY <3>1, GotoEffect DEF DispatchChange, Dispatch, InContext, Complete, Sources
    <3>2. CASE InContext(Move(t)) \/ InContext(Finish(t))
      BY <3>2, <1>2, GotoEffect DEF InContext, Move, Finish, Target
    <3>3. CASE InContext(LookUp(t)) \/ InContext(CheckStatus(t)) \/ InContext(Mark(t))
               \/ InContext(Confirm(t)) \/ InContext(SetHasVideo(t))
      BY <3>3, GotoEffect, ReturnEffect DEF InContext, LookUp, CheckStatus, Mark, Confirm, SetHasVideo
    <3> QED
      BY <1>4, <3>1, <3>2, <3>3 DEF ChangeStep
  <2>2. /\ \/ call'[t].pc = "idle"
           \/ call'[t].pc # "act" /\ call'[t].op = call[t].op /\ call'[t].ev = call[t].ev
        /\ call[t].pc # "idle" /\ \A u \in Thread \ {t} : call'[u] = call[u]
        /\ seen' = seen
    BY <1>4, ChangeEffect DEF InMachine
  <2>3. \A u \in Thread : \A e \in seen[u] : machine[e] # "archived"
    BY DEF ArchiveIsOutOfReach
  <2>4. call[t].op = "create" => machine[call[t].ev] # "archived"
    BY <2>2 DEF ArchiveIsOutOfReach
  <2> QED
    BY <1>1, <1>2, <2>1, <2>2, <2>3, <2>4
<1>11. ASSUME NEW t \in Thread, Deliver(t) PROVE ArchiveIsOutOfReach'
  BY <1>1, <1>2, <1>11, GotoEffect DEF Deliver, ArchiveIsOutOfReach
<1>5. ASSUME NEW t \in Thread, Snapshot(t) PROVE ArchiveIsOutOfReach'
  <2>1. \A u \in Thread : \A e \in seen'[u] : e \in seen[u] \/ machine[e] # "archived"
    BY <1>5 DEF Snapshot, SameCamera, Visible
  <2>2. /\ call[t].pc = "snapshot" /\ machine' = machine
        /\ call'[t].pc = "choose" /\ call'[t].op = call[t].op /\ call'[t].ev = call[t].ev
        /\ \A u \in Thread \ {t} : call'[u] = call[u]
    BY <1>5, GotoEffect DEF Snapshot
  <2> QED
    BY <1>1, <1>2, <2>1, <2>2 DEF ArchiveIsOutOfReach
<1>6. ASSUME NEW t \in Thread, Choose(t) PROVE ArchiveIsOutOfReach'
  <2>1. call'[t].pc = "idle" \/ call'[t].ev \in ToRun(t)
    BY <1>6, ReturnEffect DEF Choose, Call
  <2>2. \A e \in ToRun(t) : e \in Event /\ machine[e] # "archived"
    BY <1>2, <1>6 DEF ToRun, Earliest, Waiting, Choose, ArchiveIsOutOfReach
  <2>3. /\ machine' = machine
        /\ \A u \in Thread : seen'[u] \subseteq seen[u]
    BY <1>6 DEF Choose
  <2>4. \A u \in Thread \ {t} : call'[u] = call[u]
    BY <1>6, StepEffect DEF Step
  <2> QED
    BY <1>1, <2>1, <2>2, <2>3, <2>4 DEF ArchiveIsOutOfReach
<1>7. ASSUME NEW t \in Thread, RunAction(t) PROVE ArchiveIsOutOfReach'
  <2>1. call'[t].pc = "idle" \/ (call'[t].pc = "lookup" /\ call'[t].op = "process")
    <3>1. CASE Return(t)
      BY <3>1, ReturnEffect
    <3>2. CASE call' = [call EXCEPT ![t].pc = "lookup", ![t].op = "process"]
      BY <3>2 DEF Call
    <3> QED
      BY <1>7, <3>1, <3>2 DEF RunAction
  <2>2. machine' = machine /\ seen' = seen
    BY <1>7 DEF RunAction
  <2>3. \A u \in Thread \ {t} : call'[u] = call[u]
    BY <1>7, StepEffect DEF Step
  <2> QED
    BY <1>1, <2>1, <2>2, <2>3 DEF ArchiveIsOutOfReach
<1>8. ASSUME NEW t \in Thread, NEW e \in Event, Request(t, e) PROVE ArchiveIsOutOfReach'
  <2>1. /\ \A x \in Event : machine'[x] = "archived" => machine[x] = "archived"
        /\ seen' = seen
        /\ \A u \in Thread \ {t} : call'[u] = call[u]
        /\ call'[t].ev = e
        /\ call'[t].pc \notin {"act", "move", "mark", "finish"}
    BY <1>8, RequestEffect
  <2>2. call'[t].op = "create" => machine'[e] # "archived"
    <3>1. call'[t].op = "create" => InContext(StampEvent(t, e))
      BY <1>8, BeginEffect DEF Request, InContext, BeginAck, BeginHasVideo, RemoveFromContext, RemoveEvent
    <3>2. InContext(StampEvent(t, e)) => e \notin Published /\ machine' = machine
      BY DEF InContext, StampEvent, Published
    <3> QED
      BY <3>1, <3>2 DEF Fresh
  <2> QED
    BY <1>1, <2>1, <2>2 DEF ArchiveIsOutOfReach
<1>9. CASE Restart
  BY <1>9 DEF Restart, Idle, ArchiveIsOutOfReach
<1>10. CASE UNCHANGED vars
  BY <1>10 DEF vars, ArchiveIsOutOfReach
<1> QED
  BY <1>3, <1>4, <1>5, <1>6, <1>7, <1>8, <1>9, <1>10, <1>11 DEF Next, Step, ChangeStep

\* Nothing marks an archived event, so a row written from its flags says what was loaded.
LEMMA TableInductive ==
    ASSUME TypeOK, Fresh, RemovalIsFinal, ArchiveIsOutOfReach, ArchiveMatchesTable, [Next]_vars
    PROVE  ArchiveMatchesTable'
<1> USE DEF TypeOK, ContextTypeOK, InMachine
<1>0. \A t \in Thread : call[t].pc # "idle" => call[t].ev \in Event
  BY DEF Fresh, Published
\* A step that archives nothing and keeps rows and flags of the archive.
<1>1. ASSUME \A e \in events' : machine'[e] = "archived" =>
                /\ e \in events /\ machine[e] = "archived"
                /\ rows'[e] = rows[e]
                /\ flags'[e] \ {"has_video"} = flags[e] \ {"has_video"}
      PROVE  ArchiveMatchesTable'
  BY <1>1 DEF ArchiveMatchesTable
<1>2. ASSUME NEW t \in Thread, InContext(Create(t)) PROVE ArchiveMatchesTable'
  BY <1>0, <1>1, <1>2 DEF InContext, Create
<1>3. ASSUME NEW t \in Thread, ChangeStep(t) PROVE ArchiveMatchesTable'
  <2>1. events' = events /\ rows' = rows
    BY <1>3, ChangeEffect
  <2>2. \A e \in Event : machine'[e] = "archived" => machine[e] = "archived"
    BY <1>3 DEF ChangeStep, InContext, LookUp, CheckStatus, DispatchChange, Dispatch, Move, Mark, Complete,
                Finish, Confirm, SetHasVideo, Target
  <2>3. ASSUME NEW e \in Event, machine[e] = "archived"
        PROVE  flags'[e] \ {"has_video"} = flags[e] \ {"has_video"}
    <3>1. CASE InContext(Mark(t))
      <4>1. e # call[t].ev
        BY <2>3, <3>1 DEF InContext, Mark, ArchiveIsOutOfReach
      <4> QED
        BY <3>1, <4>1 DEF InContext, Mark
    <3>2. CASE InContext(SetHasVideo(t))
      BY <3>2 DEF InContext, SetHasVideo
    <3>3. CASE ~ InContext(Mark(t)) /\ ~ InContext(SetHasVideo(t))
      BY <1>3, <3>3 DEF ChangeStep, InContext, LookUp, CheckStatus, DispatchChange, Dispatch, Move,
                        Complete, Finish, Confirm
    <3> QED
      BY <3>1, <3>2, <3>3
  <2> QED
    BY <1>1, <2>1, <2>2, <2>3
<1>4. ASSUME NEW t \in Thread, Deliver(t) PROVE ArchiveMatchesTable'
  <2>1. /\ call[t].pc = "signal" /\ call[t].ev \in Event
        /\ UNCHANGED <<events, machine, flags>>
        /\ rows' = [rows EXCEPT ![call[t].ev] = RowAfter(Emits(call[t].op), call[t].ev)]
    BY <1>0, <1>4 DEF Deliver
  <2>2. call[t].ev \in events => call[t].op # "remove"
    BY <2>1 DEF RemovalIsFinal
  <2>3. flags[call[t].ev] # NoRow
    BY <2>1 DEF NoRow, Flag
  <2>4. call[t].ev \in events /\ machine[call[t].ev] = "archived" =>
            rows'[call[t].ev] = flags[call[t].ev]
    BY <2>1, <2>2 DEF RowAfter, Emits, ArchiveMatchesTable
  <2> QED
    BY <2>1, <2>3, <2>4 DEF ArchiveMatchesTable
<1>5. ASSUME NEW t \in Thread, Snapshot(t) \/ Choose(t) \/ RunAction(t) PROVE ArchiveMatchesTable'
  BY <1>1, <1>5 DEF Snapshot, Choose, RunAction
<1>6. ASSUME NEW t \in Thread, NEW e \in Event, Request(t, e) PROVE ArchiveMatchesTable'
  BY <1>1, <1>6, RequestEffect
<1>7. CASE Restart
  BY <1>7 DEF Restart, ArchiveMatchesTable
<1>8. CASE UNCHANGED vars
  BY <1>8 DEF vars, ArchiveMatchesTable
<1> QED
  BY <1>2, <1>3, <1>4, <1>5, <1>6, <1>7, <1>8 DEF Next, Step, ChangeStep

----------------------------------------------------------------------------
(* The theorems.                                                           *)

\* The invariant holds when the process has never run.
LEMMA InitEstablishes == Init => IndInv
<1> SUFFICES ASSUME Init PROVE IndInv
  OBVIOUS
<1> USE DEF Init, ContextInit, Idle
<1>1. TypeOK
  <2>1. Idle \in Call
    BY DEF Call, Label, Operation, MachineState
  <2>2. call \in [Thread -> Call]
    BY <2>1
  <2>3. rows \in [Event -> (SUBSET Flag) \cup {NoRow}]
    OBVIOUS
  <2>4. boots \in 0 .. MaxBoots /\ clock \in 0 .. MaxClock
    BY PipelineAssumption, EventAssumption
  <2> QED
    BY <2>2, <2>3, <2>4 DEF TypeOK, ContextTypeOK, MachineState
<1>2. /\ Fresh /\ RemovalIsFinal /\ InsertionIsKnown /\ ChangesAreNamed /\ ChangesAreApart
      /\ MarkerHasExecuted /\ RowsConverge /\ ArchiveIsOutOfReach /\ ArchiveMatchesTable
  BY DEF Fresh, RemovalIsFinal, InsertionIsKnown, WillInsert, ChangesAreNamed, ChangesAreApart, InMachine,
         MarkerHasExecuted, RowsConverge, ArchiveIsOutOfReach, ArchiveMatchesTable
<1>3. MarkedWasExecuted
  BY DEF MarkedWasExecuted
<1> QED
  BY <1>1, <1>2, <1>3 DEF IndInv

\* Each part of the invariant is preserved, given the other parts.
LEMMA StepPreserves == IndInv /\ [Next]_vars => IndInv'
BY TypeInductive, FreshInductive, RemovalInductive, InsertionInductive, NamedInductive, ApartInductive,
   MarksInductive, RowsInductive, ArchiveInductive, TableInductive
   DEF IndInv

\* The inductive invariant holds in every state the pipeline reaches.
THEOREM Invariance == Spec => []IndInv
<1>1. Init => IndInv
  BY InitEstablishes
<1>2. IndInv /\ [Next]_vars => IndInv'
  BY StepPreserves
<1> QED
  BY <1>1, <1>2, PTL DEF Spec

\* Every variable of the pipeline keeps its type, for any number of threads and events.
THEOREM TypeCorrect == Spec => []TypeOK
<1>1. IndInv => TypeOK
  BY DEF IndInv
<1> QED
  BY <1>1, Invariance, PTL

\* Table and context differ only while a thread is about to write the table, for any number of
\* unsynchronized requests, except for an event whose processing and acknowledgement overtook
\* each other inside Change, or whose removal overtook its Added signal.
THEOREM TableConverges == Spec => []RowsConverge
<1>1. IndInv => RowsConverge
  BY DEF IndInv
<1> QED
  BY <1>1, Invariance, PTL

\* No event is marked processed, in memory or in the table, unless its action was run.
THEOREM MarksAreTrue == Spec => []MarkedWasExecuted
<1>1. IndInv => MarkedWasExecuted
  BY DEF IndInv
<1> QED
  BY <1>1, Invariance, PTL

\* No step runs the action of an archived event, moves its machine or changes its status: between
\* them stand the filter of GetEvents and the table of transitions; and what a start loads is what
\* the archive was, because its row is written from its flags.
LEMMA ArchiveStep ==
    ASSUME IndInv, Next
    PROVE  ArchivedEventIsLeftAlone
<1> USE DEF IndInv, TypeOK, ContextTypeOK, InMachine
<1> SUFFICES ASSUME NEW e \in Event, e \in events, e \in events', machine[e] = "archived"
             PROVE  /\ machine'[e] = "archived"
                    /\ executed'[e] = executed[e]
                    /\ flags'[e] \ {"has_video"} = flags[e] \ {"has_video"}
  BY DEF ArchivedEventIsLeftAlone
<1>1. ASSUME NEW t \in Thread, RunAction(t)
      PROVE  executed'[e] = executed[e] /\ machine' = machine /\ flags' = flags
  <2>1. e # call[t].ev
    BY <1>1 DEF RunAction, ArchiveIsOutOfReach
  <2> QED
    BY <1>1, <2>1 DEF RunAction
<1>2. ASSUME NEW t \in Thread, InContext(Create(t)) \/ InContext(Move(t)) \/ InContext(Mark(t))
                             \/ InContext(Finish(t))
      PROVE  executed' = executed /\ machine'[e] = machine[e] /\ flags'[e] = flags[e]
  <2>1. e # call[t].ev
    <3>1. CASE InContext(Create(t))
      BY <3>1 DEF InContext, Create, Fresh, Published
    <3>2. CASE InContext(Move(t)) \/ InContext(Mark(t)) \/ InContext(Finish(t))
      BY <3>2 DEF InContext, Move, Mark, Finish, ArchiveIsOutOfReach
    <3> QED
      BY <1>2, <3>1, <3>2
  <2> QED
    BY <1>2, <2>1 DEF InContext, Create, Move, Mark, Finish
<1>3. ASSUME NEW t \in Thread, InContext(SetHasVideo(t))
      PROVE  /\ executed' = executed /\ machine' = machine
             /\ flags'[e] \ {"has_video"} = flags[e] \ {"has_video"}
  BY <1>3 DEF InContext, SetHasVideo
<1>4. ASSUME NEW t \in Thread, NEW f \in Event, Request(t, f)
      PROVE  executed' = executed /\ machine'[e] = machine[e] /\ flags' = flags
  <2>1. CASE RemoveFromContext(t, f)
    BY <2>1 DEF RemoveFromContext, RemoveEvent
  <2>2. CASE ~ RemoveFromContext(t, f)
    BY <1>4, <2>2 DEF Request, InContext, StampEvent, BeginAck, BeginHasVideo
  <2> QED
    BY <2>1, <2>2
<1>5. CASE Restart
  <2>1. rows[e] # NoRow /\ rows[e] \ {"has_video"} = flags[e] \ {"has_video"}
    BY DEF ArchiveMatchesTable
  <2>2. machine'[e] = "archived" /\ flags'[e] = rows[e] /\ executed' = executed
    BY <1>5, <2>1 DEF Restart
  <2> QED
    BY <2>1, <2>2
<1>6. ASSUME NEW t \in Thread,
             \/ InContext(LookUp(t)) \/ InContext(CheckStatus(t)) \/ DispatchChange(t)
             \/ InContext(Complete(t)) \/ InContext(Confirm(t))
             \/ Deliver(t) \/ Snapshot(t) \/ Choose(t)
      PROVE  UNCHANGED <<executed, machine, flags>>
  BY <1>6 DEF InContext, LookUp, CheckStatus, DispatchChange, Dispatch, Complete, Confirm, Deliver,
              Snapshot, Choose
<1> QED
  BY <1>1, <1>2, <1>3, <1>4, <1>5, <1>6 DEF Next, Step

\* What was loaded at start stays history: no request, signal, handler or further start runs the
\* action of an archived event, moves its machine, acknowledges it or marks it processed.
THEOREM ArchiveStaysInert == Spec => ArchiveIsInert
<1>1. IndInv /\ [Next]_vars => [ArchivedEventIsLeftAlone]_vars
  <2>1. IndInv /\ Next => ArchivedEventIsLeftAlone
    BY ArchiveStep
  <2> QED
    BY <2>1
<1> QED
  BY <1>1, Invariance, PTL DEF Spec, ArchiveIsInert

=============================================================================
