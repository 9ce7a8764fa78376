------------------------------- MODULE Cameras -------------------------------
(***************************************************************************)
(* Commands to cameras.  A handler of                                      *)
(* source/schemas/http/http_schemas/Cameras.hpp looks the camera up in the *)
(* model, posts a task to the pool, whose one worker looks the same camera *)
(* up in the replica of source/cameras/CamerasContext.hpp, and waits for   *)
(* the result.  The replica, the records of the idle action processor and  *)
(* the table follow the model by the Camera signal.                        *)
(*                                                                         *)
(* The replica is a hash map whose keys are hashed by the id of the        *)
(* camera.  An added camera has id 0 when the replica takes it, and the    *)
(* table, which is told later, writes the real id into the same object: it *)
(* stays filed under 0 and no search finds it before the next start.  A    *)
(* handler unwraps the result of such a search inside a noexcept function, *)
(* which ends the process.                                                 *)
(*                                                                         *)
(* A camera cannot be changed: the handler passes an object of id 0, which *)
(* ModelContext refuses.                                                   *)
(***************************************************************************)
EXTENDS Naturals, Sequences

CONSTANTS
    Thread,     \* threads of the HTTP server
    Camera,     \* cameras, by the row they will have: ids are never reused
    MaxBoots    \* bound: restarts of the process

Loop == "camera loop"

Nobody == "nobody"

ASSUME CamerasAssumption ==
    /\ MaxBoots \in Nat
    /\ Loop \notin Thread
    /\ Nobody \notin Camera

VARIABLES
    down,       \* the camera whose command ended the process, or Nobody
    listed,     \* _cameras of the model
    loaded,     \* the cameras main.cpp read from the table when it started
    created,    \* cameras made so far
    devices,    \* the keys of cameras_devices: cameras, filed by the hash they had then
    known,      \* the keys of _cameras_actions, the records of IdleActionProcessor
    rows,       \* the table of cameras
    pool,       \* tasks posted and not yet begun, by their posters
    worker,     \* what the worker of the pool is doing, and for whom
    call,       \* what each poster is doing
    boots       \* restarts so far

vars == <<down, listed, loaded, created, devices, known, rows, pool, worker, call, boots>>

----------------------------------------------------------------------------
Poster == Thread \cup {Loop}

Filing == {"byZero", "byId"}

Key == Camera \X Filing

Operation == {"none", "add", "remove", "move", "ask", "idle"}

Place == {"idle", "found", "signal", "records", "table", "waiting", "answered", "empty"}

Call == [pc : Place, op : Operation, camera : Camera \cup {Nobody}]

Worker == [pc : {"free", "find", "interact", "record"}, poster : Poster \cup {Nobody}]

Idle == [pc |-> "idle", op |-> "none", camera |-> Nobody]

Resting == [pc |-> "free", poster |-> Nobody]

Up == down = Nobody

Goto(t, pc) == call' = [call EXCEPT ![t].pc = pc]

Return(t) == call' = [call EXCEPT ![t] = Idle]

Begin(t, pc, op, c) ==
    /\ Up /\ call[t] = Idle
    /\ call' = [call EXCEPT ![t] = [pc |-> pc, op |-> op, camera |-> c]]

At(t, pc, ops) == Up /\ call[t].pc = pc /\ call[t].op \in ops

\* An object has its id once DBSubscriber inserted it; FindCameraById needs one.
Numbered(c) == \A t \in Thread : ~ (call[t].op = "add" /\ call[t].camera = c)

Findable(c) == c \in listed /\ Numbered(c)

\* The hash of a camera as it is now, and its key under that hash.
Hash(c) == IF Numbered(c) THEN "byId" ELSE "byZero"

KeyOf(c) == <<c, Hash(c)>>

KeysOf(c) == {c} \X Filing

\* Seeded fault: the keys are filed before the ids are read.
KeysUnread(cameras) == cameras \X {"byZero"}

KeysAtStart(cameras) == cameras \X {"byId"}

----------------------------------------------------------------------------
(* Editing the cameras of the model.                                       *)

\* Add refuses an object of id 0 while another one has no id either.
AddCamera(t, c) ==
    /\ c \notin created
    /\ \A d \in listed : Numbered(d)
    /\ created' = created \cup {c}
    /\ listed' = listed \cup {c}
    /\ Begin(t, "signal", "add", c)
    /\ UNCHANGED <<down, loaded, devices, known, rows, pool, worker, boots>>

BeginRemove(t, c) ==
    /\ Findable(c)
    /\ Begin(t, "found", "remove", c)
    /\ UNCHANGED <<down, listed, loaded, created, devices, known, rows, pool, worker, boots>>

RemoveCamera(t) ==
    /\ At(t, "found", {"remove"})
    /\ \/ /\ call[t].camera \in listed
          /\ listed' = listed \ {call[t].camera}
          /\ Goto(t, "signal")
       \/ /\ call[t].camera \notin listed
          /\ Return(t)
          /\ UNCHANGED listed
    /\ UNCHANGED <<down, loaded, created, devices, known, rows, pool, worker, boots>>

----------------------------------------------------------------------------
(* The Camera signal: one delivery at a time, to its subscribers in the    *)
(* order in which main.cpp makes them.                                     *)

Emitting == \E t \in Thread : call[t].pc \in {"records", "table"}

\* CamerasContext::_camera_updater: Add files the camera by the id it has now, Removed erases
\* the key that a linear search for the id finds.
ToReplica(t) ==
    /\ At(t, "signal", {"add", "remove"})
    /\ ~ Emitting
    /\ devices' = IF call[t].op = "add" THEN devices \cup {KeyOf(call[t].camera)}
                                        ELSE devices \ KeysOf(call[t].camera)
    /\ Goto(t, "records")
    /\ UNCHANGED <<down, listed, loaded, created, known, rows, pool, worker, boots>>

\* IdleActionProcessor::_camera_updater. Removed erases the first key with the id, of two that
\* a camera may have.
ToRecords(t) ==
    /\ At(t, "records", {"add", "remove"})
    /\ LET keys == KeysOf(call[t].camera) \cap known IN
       \/ /\ call[t].op = "add"
          /\ known' = known \cup {KeyOf(call[t].camera)}
       \/ /\ call[t].op = "remove" /\ keys # {}
          /\ \E k \in keys : known' = known \ {k}
       \/ /\ call[t].op = "remove" /\ keys = {}
          /\ UNCHANGED known
    /\ Goto(t, "table")
    /\ UNCHANGED <<down, listed, loaded, created, devices, rows, pool, worker, boots>>

\* Seeded fault: Removed is not passed on to the table.
ToTableAdds(t) ==
    /\ At(t, "table", {"add", "remove"})
    /\ rows' = IF call[t].op = "add" THEN rows \cup {call[t].camera} ELSE rows
    /\ Return(t)
    /\ UNCHANGED <<down, listed, loaded, created, devices, known, pool, worker, boots>>

\* DBSubscriber; an INSERT gives the camera its id.
ToTable(t) ==
    /\ At(t, "table", {"add", "remove"})
    /\ rows' = IF call[t].op = "add" THEN rows \cup {call[t].camera}
                                     ELSE rows \ {call[t].camera}
    /\ Return(t)
    /\ UNCHANGED <<down, listed, loaded, created, devices, known, pool, worker, boots>>

----------------------------------------------------------------------------
(* Commands, by the handlers that give them.                               *)

Request(t, c, op) ==
    /\ Findable(c)
    /\ Begin(t, "found", op, c)
    /\ UNCHANGED <<down, listed, loaded, created, devices, known, rows, pool, worker, boots>>

\* These move the camera, and the worker records that they did.
RelativeMoveSc(t, c)   == Request(t, c, "move")
ContinuousMoveSc(t, c) == Request(t, c, "move")
AbsoluteMoveSc(t, c)   == Request(t, c, "move")
GoToPresetSc(t, c)     == Request(t, c, "move")
GoToHomeSc(t, c)       == Request(t, c, "move")

\* These leave no record, Stop among them.
StopSc(t, c)                 == Request(t, c, "ask")
GetPresetsSc(t, c)           == Request(t, c, "ask")
ChangePresetSc(t, c)         == Request(t, c, "ask")
AddPresetSc(t, c)            == Request(t, c, "ask")
RemovePresetSc(t, c)         == Request(t, c, "ask")
SetHomeSc(t, c)              == Request(t, c, "ask")
GetStatusSc(t, c)            == Request(t, c, "ask")
GetCapabilitiesSc(t, c)      == Request(t, c, "ask")
GetNodesSc(t, c)             == Request(t, c, "ask")
CameraRebootSc(t, c)         == Request(t, c, "ask")
GetDeviceInformationSc(t, c) == Request(t, c, "ask")
GetMediaProfilesSc(t, c)     == Request(t, c, "ask")
GetStreamUriSc(t, c)         == Request(t, c, "ask")
StartMulticastSc(t, c)       == Request(t, c, "ask")
StopMulticastSc(t, c)        == Request(t, c, "ask")

Command(t, c) ==
    \/ RelativeMoveSc(t, c) \/ ContinuousMoveSc(t, c) \/ AbsoluteMoveSc(t, c)
    \/ GoToPresetSc(t, c) \/ GoToHomeSc(t, c) \/ StopSc(t, c)
    \/ GetPresetsSc(t, c) \/ ChangePresetSc(t, c) \/ AddPresetSc(t, c) \/ RemovePresetSc(t, c)
    \/ SetHomeSc(t, c) \/ GetStatusSc(t, c) \/ GetCapabilitiesSc(t, c) \/ GetNodesSc(t, c)
    \/ CameraRebootSc(t, c) \/ GetDeviceInformationSc(t, c) \/ GetMediaProfilesSc(t, c)
    \/ GetStreamUriSc(t, c) \/ StartMulticastSc(t, c) \/ StopMulticastSc(t, c)

Post(t) ==
    /\ At(t, "found", {"move", "ask"})
    /\ pool' = Append(pool, t)
    /\ Goto(t, "waiting")
    /\ UNCHANGED <<down, listed, loaded, created, devices, known, rows, worker, boots>>

\* The camera loop sends a camera of its copy of the records to the idle position.
LoopPost(c) ==
    /\ c \in created
    /\ pool' = Append(pool, Loop)
    /\ Begin(Loop, "waiting", "idle", c)
    /\ UNCHANGED <<down, listed, loaded, created, devices, known, rows, worker, boots>>

----------------------------------------------------------------------------
(* The worker of the pool.                                                 *)

Target == call[worker.poster].camera

Working(pc) == Up /\ worker.pc = pc

Result(pc) ==
    /\ Goto(worker.poster, pc)
    /\ worker' = Resting

\* Seeded fault: the task is run and left in the queue.
TakeKeeps ==
    /\ Working("free") /\ pool # <<>>
    /\ worker' = [pc |-> "find", poster |-> Head(pool)]
    /\ UNCHANGED <<down, listed, loaded, created, devices, known, rows, pool, call, boots>>

Take ==
    /\ Working("free") /\ pool # <<>>
    /\ worker' = [pc |-> "find", poster |-> Head(pool)]
    /\ pool' = Tail(pool)
    /\ UNCHANGED <<down, listed, loaded, created, devices, known, rows, call, boots>>

\* *cameras_context | camera: a copy of the pair if the key is found by its hash.
Find ==
    /\ Working("find")
    /\ \/ /\ KeyOf(Target) \in devices
          /\ worker' = [worker EXCEPT !.pc = "interact"]
          /\ UNCHANGED call
       \/ /\ KeyOf(Target) \notin devices
          /\ Result("empty")
    /\ UNCHANGED <<down, listed, loaded, created, devices, known, rows, pool, boots>>

\* The command itself. If it throws, the future holds the exception and nothing is recorded.
Interact ==
    /\ Working("interact")
    /\ \/ /\ call[worker.poster].op = "move"
          /\ worker' = [worker EXCEPT !.pc = "record"]
          /\ UNCHANGED call
       \/ Result("answered")
    /\ UNCHANGED <<down, listed, loaded, created, devices, known, rows, pool, boots>>

\* ModelContext::Add(CameraAction) and _action_updater, which uses the record it looked for
\* whether or not it found one.
Record ==
    /\ Working("record")
    /\ \/ /\ KeysOf(Target) \cap known # {}
          /\ Result("answered")
          /\ UNCHANGED down
       \/ /\ KeysOf(Target) \cap known = {}
          /\ down' = Target
          /\ UNCHANGED <<worker, call>>
    /\ UNCHANGED <<listed, loaded, created, devices, known, rows, pool, boots>>

----------------------------------------------------------------------------
(* What the posters make of the result.                                    *)

\* ptz_result.value(), which an empty result turns into an exception that ends the process.
Answer(t) ==
    /\ At(t, call[t].pc, {"move", "ask"})
    /\ \/ /\ call[t].pc = "answered"
          /\ Return(t)
          /\ UNCHANGED down
       \/ /\ call[t].pc = "empty"
          /\ down' = call[t].camera
          /\ UNCHANGED call
    /\ UNCHANGED <<listed, loaded, created, devices, known, rows, pool, worker, boots>>

\* Seeded fault: the loop forgets which camera it was about before it marks it.
LoopMarkLate ==
    /\ Up /\ call[Loop].pc \in {"answered", "empty"}
    /\ Return(Loop)
    /\ known' = known \cup {<<call'[Loop].camera, "byId">>}
    /\ UNCHANGED <<down, listed, loaded, created, devices, rows, pool, worker, boots>>

\* Seeded fault: the loop marks the key that the camera had when it was added.
LoopMarkUnhashed ==
    /\ Up /\ call[Loop].pc \in {"answered", "empty"}
    /\ known' = known \cup {<<call[Loop].camera, "byZero">>}
    /\ Return(Loop)
    /\ UNCHANGED <<down, listed, loaded, created, devices, rows, pool, worker, boots>>

\* The loop ignores the result and writes into the record, which [] makes if it is gone.
LoopMark ==
    /\ Up /\ call[Loop].pc \in {"answered", "empty"}
    /\ known' = known \cup {KeyOf(call[Loop].camera)}
    /\ Return(Loop)
    /\ UNCHANGED <<down, listed, loaded, created, devices, rows, pool, worker, boots>>

\* The loop looks at a record that [] made, which has no memory to look at: the process ends.
\* Module IdleActions has these records, and says when; a camera of the last start that nobody
\* removed has none.
LoopFail(c) ==
    /\ Up /\ call[Loop] = Idle
    /\ c \notin loaded \cap listed
    /\ down' = c
    /\ UNCHANGED <<listed, loaded, created, devices, known, rows, pool, worker, call, boots>>

----------------------------------------------------------------------------
\* The process ended, by itself or not, and comes up with the cameras of the table.
Restart ==
    /\ boots < MaxBoots
    /\ boots' = boots + 1
    /\ down' = Nobody
    /\ listed' = rows /\ loaded' = rows
    /\ devices' = KeysAtStart(rows) /\ known' = KeysAtStart(rows)
    /\ pool' = <<>>
    /\ worker' = Resting
    /\ call' = [t \in Poster |-> Idle]
    /\ UNCHANGED <<created, rows>>

Init ==
    /\ down = Nobody /\ boots = 0
    /\ rows \in SUBSET Camera
    /\ created = rows /\ listed = rows /\ loaded = rows
    /\ devices = KeysAtStart(rows) /\ known = KeysAtStart(rows)
    /\ pool = <<>>
    /\ worker = Resting
    /\ call = [t \in Poster |-> Idle]

Deliver(t) == ToReplica(t) \/ ToRecords(t) \/ ToTable(t)

Step(t) == RemoveCamera(t) \/ Deliver(t) \/ Post(t) \/ Answer(t)

Work == Take \/ Find \/ Interact \/ Record

Next ==
    \/ \E t \in Thread : Step(t)
    \/ \E t \in Thread, c \in Camera : AddCamera(t, c) \/ BeginRemove(t, c) \/ Command(t, c)
    \/ \E c \in Camera : LoopPost(c) \/ LoopFail(c)
    \/ LoopMark
    \/ Work
    \/ Restart

Spec == Init /\ [][Next]_vars

----------------------------------------------------------------------------
(* Properties.                                                             *)

TypeOK ==
    /\ down \in Camera \cup {Nobody}
    /\ {listed, loaded, created, rows} \subseteq SUBSET Camera
    /\ {devices, known} \subseteq SUBSET Key
    /\ pool \in Seq(Poster)
    /\ worker \in Worker
    /\ call \in [Poster -> Call]
    /\ boots \in 0 .. MaxBoots

\* The signal of an addition or a removal of c is under way and at one of the places pcs.
Announcing(op, c, pcs) ==
    \E t \in Thread : call[t].op = op /\ call[t].camera = c /\ call[t].pc \in pcs

\* The replica, the records and the table differ from the model only while the signal of the
\* difference is on its way, and not about cameras it has already told them of. The records
\* may keep more: the camera loop puts a removed camera back (IdleActionProcessor.hpp:162).
ReplicasMatchModel ==
    \A c \in Camera :
        /\ c \in listed =>
            /\ KeysOf(c) \cap devices # {} \/ Announcing("add", c, {"signal"})
            /\ KeysOf(c) \cap known # {} \/ Announcing("add", c, {"signal", "records"})
            /\ c \in rows \/ Announcing("add", c, {"signal", "records", "table"})
        /\ c \notin listed =>
            /\ KeysOf(c) \cap devices = {} \/ Announcing("remove", c, {"signal"})
            /\ c \notin rows \/ Announcing("remove", c, {"signal", "records", "table"})

\* A command or a turn of the loop that ends the process was for a camera that was added or
\* removed while the process ran: those of the last start that nobody touches are safe to use, whatever is done
\* to the others meanwhile.
OnlyEditedCamerasAreFatal == down \in loaded => down \notin listed

Waiting(t) == call[t].pc = "waiting"

Served(t) == worker.pc # "free" /\ worker.poster = t

\* Whoever waits has one task, in the queue or at work, and no task is run that nobody waits
\* for: the queue holds at most as many tasks as there are posters and the assertion of
\* ThreadPool.hpp:156 holds when those are not more than its cells.
EachWaiterHasOneTask ==
    /\ \A t \in Poster : Waiting(t) <=> Served(t) \/ \E i \in DOMAIN pool : pool[i] = t
    /\ \A i \in DOMAIN pool : ~ Served(pool[i])
    /\ \A i, j \in DOMAIN pool : i # j => pool[i] # pool[j]

\* swagger/http/camera.yaml:64-67: a command that cannot be carried out is answered with 500.
CommandsAreAnswered == Up
=============================================================================
