---------------------------- MODULE EventContext ----------------------------
(***************************************************************************)
(* The container of camera events of source/events/EventContext.hpp, as    *)
(* its callers drive it: the HTTP handlers of source/schemas/http/         *)
(* http_schemas/Events.hpp, the reader callback of a camera recorder, and  *)
(* the event subscriber (module EventPipeline).                            *)
(*                                                                         *)
(* An operation takes `_mu_main` only for its container access, releases   *)
(* it, and then goes on with the iterator or pointer it obtained: every    *)
(* step between two lock regions is an action here, and so is every access *)
(* of Change to shared data, which no lock guards: the status guard, the   *)
(* read of the Boost.SML machine, the write of its new state, the flag     *)
(* that the action of the transition sets after its LOG line, the          *)
(* anonymous transition that may follow, and the final test of the state.  *)
(***************************************************************************)
EXTENDS Naturals, FiniteSets

CONSTANTS
    Thread,     \* threads that call into the context
    Event,      \* event hashes
    Camera,     \* camera ids
    CameraOf,   \* CameraOf[e] is the camera_id the client puts in event e
    NoThread,   \* the signal mutex is free
    MaxClock    \* bound: the time at which the clock stops

ASSUME EventAssumption ==
    /\ CameraOf \in [Event -> Camera]
    /\ NoThread \notin Thread
    /\ MaxClock \in Nat

VARIABLES
    events,     \* the keys of `_events`
    machine,    \* the SML machine stored beside each key
    flags,      \* processed, acknowledged and has_video of the shared Event
    time,       \* created_time
    used,       \* hashes handed out by RandomString
    clock,      \* system_clock, which advances at will
    call,       \* what each thread is doing
    holder      \* the owner of the mutex of the Event signal

contextVars == <<events, machine, flags, time, used, clock, call, holder>>

----------------------------------------------------------------------------
(* The data.                                                               *)

Flag == {"processed", "acknowledged", "has_video"}

\* The states of notice_state; "none" is a machine that does not exist and
\* "freed" the bytes of an erased node after the allocator reused them.
MachineState == {"none", "created", "processed", "ack", "X", "archived", "freed"}

Operation == {"none", "create", "ack", "video", "remove", "process"}

Label == {"idle", "stamped", "lookup", "flag", "guard", "dispatch", "move", "mark",
          "complete", "finish", "confirm", "signal", "snapshot", "choose", "act"}

NoEvent == "no event"

Call == [pc : Label, op : Operation, ev : Event \cup {NoEvent}]

Idle == [pc |-> "idle", op |-> "none", ev |-> NoEvent]

\* GetStatus: a status is read off the two flags, never off the machine.
Status(e) ==
    IF "acknowledged" \in flags[e]
    THEN IF "processed" \in flags[e] THEN "ProcessedAndAcknowledged" ELSE "Acknowledged"
    ELSE IF "processed" \in flags[e] THEN "Processed" ELSE "Initial"

Acked(e) == Status(e) \in {"Acknowledged", "ProcessedAndAcknowledged"}

\* GetEvents: everything in the map that was not loaded from the database.
Visible == {e \in events : machine[e] # "archived"}

\* The transition of a change. The flag its action sets,
FlagOf(op) == IF op = "process" THEN "processed" ELSE "acknowledged"

\* (seeded fault: the table acknowledges what was loaded, too)
SourcesOrArchive(op) ==
    IF op = "process" THEN {"created"} ELSE {"created", "processed", "archived"}

\* the machine states it leaves, the one it enters,
Sources(op) == IF op = "process" THEN {"created"} ELSE {"created", "processed"}

Target(op) == IF op = "process" THEN "processed" ELSE "ack"

\* and the one the change tests for: an acknowledgement reaches it by the anonymous transition.
Final(op) == IF op = "process" THEN "processed" ELSE "X"

----------------------------------------------------------------------------
(* How an operation moves between its labels, and how it ends.             *)

Goto(t, label) == call' = [call EXCEPT ![t].pc = label]

Begin(t, operation, e, label) ==
    /\ call[t].pc = "idle"
    /\ call' = [call EXCEPT ![t] = [pc |-> label, op |-> operation, ev |-> e]]

\* Every return unwinds the handlers below it, which do nothing more with the
\* events, and so releases the recursive mutex if this thread holds it.
Return(t) ==
    /\ call' = [call EXCEPT ![t] = Idle]
    /\ holder' = IF holder = t THEN NoThread ELSE holder

----------------------------------------------------------------------------
(* Creating an event.                                                      *)

\* The handler CreateEvent fills in the event: a fresh hash and the time.
StampEvent(t, e) ==
    /\ e \notin used
    /\ Begin(t, "create", e, "stamped")
    /\ used' = used \cup {e}
    /\ time' = [time EXCEPT ![e] = clock]
    /\ clock' \in {clock, clock + 1} \cap (0 .. MaxClock)
    /\ UNCHANGED <<events, machine, flags, holder>>

\* Create: the insertion, under the lock; the hash is new, so ExistByValue is false.
Create(t) ==
    /\ call[t].pc = "stamped"
    /\ events' = events \cup {call[t].ev}
    /\ machine' = [machine EXCEPT ![call[t].ev] = "created"]
    /\ flags' = [flags EXCEPT ![call[t].ev] = {}]
    /\ Goto(t, "signal")
    /\ UNCHANGED <<time, used, clock, holder>>

----------------------------------------------------------------------------
(* Changing an event.                                                      *)

\* AckEvent: FindEvent succeeded.
BeginAck(t, e) ==
    /\ e \in events
    /\ Begin(t, "ack", e, "lookup")
    /\ UNCHANGED <<events, machine, flags, time, used, clock, holder>>

\* The recorder process reported the video of an event: FindEvent succeeded.
BeginHasVideo(t, e) ==
    /\ e \in events
    /\ Begin(t, "video", e, "lookup")
    /\ UNCHANGED <<events, machine, flags, time, used, clock, holder>>

\* Change: the search under the lock; the reference outlives the lock.
LookUp(t) ==
    /\ call[t].pc = "lookup"
    /\ \/ /\ call[t].ev \in events
          /\ Goto(t, IF call[t].op = "video" THEN "flag" ELSE "guard")
          /\ UNCHANGED holder
       \/ /\ call[t].ev \notin events
          /\ Return(t)
    /\ UNCHANGED <<events, machine, flags, time, used, clock>>

\* The guard of both cases of Change: the change was made already.
CheckStatus(t) ==
    /\ call[t].pc = "guard"
    /\ \/ /\ FlagOf(call[t].op) \notin flags[call[t].ev]
          /\ Goto(t, "dispatch")
          /\ UNCHANGED holder
       \/ /\ FlagOf(call[t].op) \in flags[call[t].ev]
          /\ Return(t)
    /\ UNCHANGED <<events, machine, flags, time, used, clock>>

\* process_event reads the current state of the machine; without a transition for it only the
\* anonymous ones are left to try ...
Dispatch(t) ==
    /\ call[t].pc = "dispatch"
    /\ Goto(t, IF machine[call[t].ev] \in Sources(call[t].op) THEN "move" ELSE "complete")
    /\ UNCHANGED <<events, machine, flags, time, used, clock, holder>>

\* ... it writes the new state, whatever became of the one it read ...
Move(t) ==
    /\ call[t].pc = "move"
    /\ machine' = [machine EXCEPT ![call[t].ev] = Target(call[t].op)]
    /\ Goto(t, "mark")
    /\ UNCHANGED <<events, flags, time, used, clock, holder>>

\* ... and runs the action, acknowledged_f or processed_f, which writes its log line and then
\* the flag of the event ...
Mark(t) ==
    /\ call[t].pc = "mark"
    /\ flags' = [flags EXCEPT ![call[t].ev] = @ \cup {FlagOf(call[t].op)}]
    /\ Goto(t, "complete")
    /\ UNCHANGED <<events, machine, time, used, clock, holder>>

\* ... and tries the anonymous transition until there is none for the state it reads, which
\* another thread may have put there.
Complete(t) ==
    /\ call[t].pc = "complete"
    /\ Goto(t, IF machine[call[t].ev] = "ack" THEN "finish" ELSE "confirm")
    /\ UNCHANGED <<events, machine, flags, time, used, clock, holder>>

Finish(t) ==
    /\ call[t].pc = "finish"
    /\ machine' = [machine EXCEPT ![call[t].ev] = "X"]
    /\ Goto(t, "complete")
    /\ UNCHANGED <<events, flags, time, used, clock, holder>>

\* The signal is sent only if the machine is found in the state the change leads to.
Confirm(t) ==
    /\ call[t].pc = "confirm"
    /\ \/ /\ machine[call[t].ev] = Final(call[t].op)
          /\ Goto(t, "signal")
          /\ UNCHANGED holder
       \/ /\ machine[call[t].ev] # Final(call[t].op)
          /\ Return(t)
    /\ UNCHANGED <<events, machine, flags, time, used, clock>>

\* The case HasVideo of Change: no guard, no machine, always a signal.
SetHasVideo(t) ==
    /\ call[t].pc = "flag"
    /\ flags' = [flags EXCEPT ![call[t].ev] = @ \cup {"has_video"}]
    /\ Goto(t, "signal")
    /\ UNCHANGED <<events, machine, time, used, clock, holder>>

----------------------------------------------------------------------------
(* Removing an event.                                                      *)

\* FindEvent and RemoveEvent. A thread inside Change may still hold a reference to the
\* erased node: its machine keeps the old bytes or turns into junk no transition matches.
RemoveEvent(t, e) ==
    /\ e \in events
    /\ Begin(t, "remove", e, "signal")
    /\ events' = events \ {e}
    /\ \E bytes \in {machine[e], "freed"} : machine' = [machine EXCEPT ![e] = bytes]
    /\ UNCHANGED <<flags, time, used, clock, holder>>

----------------------------------------------------------------------------
ContextInit ==
    /\ events = {}
    /\ machine = [e \in Event |-> "none"]
    /\ flags = [e \in Event |-> {}]
    /\ time = [e \in Event |-> 0]
    /\ used = {}
    /\ clock = 0
    /\ call = [t \in Thread |-> Idle]
    /\ holder = NoThread

ContextTypeOK ==
    /\ events \in SUBSET Event
    /\ machine \in [Event -> MachineState]
    /\ flags \in [Event -> SUBSET Flag]
    /\ time \in [Event -> Nat]
    /\ used \in SUBSET Event
    /\ clock \in 0 .. MaxClock
    /\ call \in [Thread -> Call]
    /\ holder \in Thread \cup {NoThread}
=============================================================================
