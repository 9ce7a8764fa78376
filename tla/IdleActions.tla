----------------------------- MODULE IdleActions -----------------------------
(***************************************************************************)
(* The camera loop of source/cameras/CameraLooper.hpp and the processor of *)
(* source/cameras/processors/IdleActionProcessor.hpp: a camera that nobody *)
(* moved for idle_timeout_sec is sent to its idle position.                *)
(*                                                                         *)
(* A turn of the loop copies the frames under the mutex, decides by the    *)
(* copies, waits for the pool with the mutex free, and then writes into    *)
(* the frame of the moment that the camera is in its idle position.        *)
(* Meanwhile the worker of the pool runs commands of users and records     *)
(* their moves.  The requests, the edits and the pool are those of module  *)
(* Cameras, whose steps are extended here by what they do to the frames.   *)
(***************************************************************************)
EXTENDS Cameras

VARIABLES
    frame,      \* _cameras_actions: in_idle and the last action, for each key
    copies      \* what is left of the copy of this turn: pairs of a key and its frame

idleVars == <<frame, copies>>

allVars == <<vars, idleVars>>

----------------------------------------------------------------------------
\* The last of the recorded actions: "fresh" within idle_timeout_sec, "stale" later; "older" in
\* a copy, when another one was recorded since. A buffer without any is "unused"; the buffer of
\* a frame that [] made has no room and stays so: "never".
Last == {"unused", "never", "fresh", "older", "stale"}

Frame == [in_idle : BOOLEAN, last : Last]

NewFrame == [in_idle |-> FALSE, last |-> "unused"]

\* Now() - action.time against idle_timeout_sec. The last element of an empty buffer is memory
\* that nobody has written: it may seem old or new.
MayBeOverdue(f) == ~ f.in_idle /\ f.last \in {"stale", "unused"}

\* Seeded fault: an action that is overdue may be passed over.
NeedNotMoveNow(f) == f.in_idle \in BOOLEAN

NeedNotMove(f) == f.in_idle \/ f.last \in {"unused", "fresh", "older"}

\* A buffer without room has no memory at all: looking for its last element ends the process.
HasNoLast(f) == ~ f.in_idle /\ f.last = "never"

\* Copies of the frame of k whose last action is one of from hold to instead.
Become(k, from, to) ==
    {IF e[1] = k /\ e[2].last \in from THEN <<k, [e[2] EXCEPT !.last = to]>> ELSE e : e \in copies}

----------------------------------------------------------------------------
(* The other threads.                                                      *)

\* _camera_updater: a new key has an empty buffer.
UpdateFrames(t) ==
    /\ ToRecords(t)
    /\ frame' = [k \in Key |-> IF k \in known \cap known' THEN frame[k] ELSE NewFrame]
    /\ UNCHANGED copies

\* _action_updater, on a frame whose key has the id.
RecordMove ==
    /\ Record
    /\ \/ \E k \in KeysOf(Target) \cap known :
             /\ frame' = [frame EXCEPT ![k].in_idle = FALSE,
                                       ![k].last = IF @ = "never" THEN @ ELSE "fresh"]
             /\ copies' = Become(k, {"fresh"}, "older")
       \/ /\ KeysOf(Target) \cap known = {}
          /\ UNCHANGED idleVars

\* idle_timeout_sec pass since the last action of a frame, or of a copy that is behind it.
Age(k) ==
    /\ Up /\ k \in known /\ frame[k].last = "fresh"
    /\ frame' = [frame EXCEPT ![k].last = "stale"]
    /\ copies' = Become(k, {"fresh", "older"}, "stale")
    /\ UNCHANGED vars

AgeCopy(k) ==
    /\ Up /\ copies # Become(k, {"older"}, "stale")
    /\ copies' = Become(k, {"older"}, "stale")
    /\ UNCHANGED <<vars, frame>>

----------------------------------------------------------------------------
(* A turn of the loop.                                                     *)

\* The frames are copied under the mutex.
Copy ==
    /\ Up /\ call[Loop] = Idle /\ copies = {} /\ known # {}
    /\ copies' = {<<k, frame[k]>> : k \in known}
    /\ UNCHANGED <<vars, frame>>

Skip(e) ==
    /\ Up /\ call[Loop] = Idle
    /\ NeedNotMove(e[2])
    /\ copies' = copies \ {e}
    /\ UNCHANGED <<vars, frame>>

Send(e) ==
    /\ MayBeOverdue(e[2])
    /\ LoopPost(e[1][1])
    /\ copies' = copies \ {e}
    /\ UNCHANGED frame

Dereference(e) ==
    /\ Up /\ call[Loop] = Idle
    /\ HasNoLast(e[2])
    /\ down' = e[1][1]
    /\ UNCHANGED <<listed, loaded, created, devices, known, rows, pool, worker, call, boots, idleVars>>

\* Seeded fault: the loop goes on waiting if the camera was not in the replica.
MarkFound ==
    /\ call[Loop].pc = "answered"
    /\ LoopMark
    /\ LET k == KeyOf(call[Loop].camera) IN
       frame' = [frame EXCEPT ![k] = IF k \in known THEN [@ EXCEPT !.in_idle = TRUE]
                                     ELSE [in_idle |-> TRUE, last |-> "never"]]
    /\ UNCHANGED copies

\* The result of the pool is not looked at, and neither is what happened since the copy.
Mark ==
    /\ LoopMark
    /\ LET k == KeyOf(call[Loop].camera) IN
       frame' = [frame EXCEPT ![k] = IF k \in known THEN [@ EXCEPT !.in_idle = TRUE]
                                     ELSE [in_idle |-> TRUE, last |-> "never"]]
    /\ UNCHANGED copies

----------------------------------------------------------------------------
FillCamerasActions == [k \in Key |-> NewFrame]

IdleInit ==
    /\ Init
    /\ frame = FillCamerasActions
    /\ copies = {}

RestartLoop ==
    /\ Restart
    /\ frame' = FillCamerasActions
    /\ copies' = {}

HandlerStep(t) ==
    \/ UpdateFrames(t)
    \/ /\ RemoveCamera(t) \/ ToReplica(t) \/ ToTable(t) \/ Post(t) \/ Answer(t)
       /\ UNCHANGED idleVars

NewRequest(t, c) ==
    /\ AddCamera(t, c) \/ BeginRemove(t, c) \/ Command(t, c)
    /\ UNCHANGED idleVars

PoolStep ==
    \/ (Take \/ Find \/ Interact) /\ UNCHANGED idleVars
    \/ RecordMove

LoopStep ==
    \/ Copy
    \/ \E e \in copies : Skip(e) \/ Send(e) \/ Dereference(e)
    \/ Mark

IdleNext ==
    \/ \E t \in Thread : HandlerStep(t)
    \/ \E t \in Thread, c \in Camera : NewRequest(t, c)
    \/ PoolStep
    \/ LoopStep
    \/ \E k \in Key : Age(k) \/ AgeCopy(k)
    \/ RestartLoop

\* Each thread goes on with what it has begun; requests come, and time passes, when they please.
IdleFairness ==
    /\ \A t \in Thread : WF_allVars(HandlerStep(t))
    /\ WF_allVars(PoolStep)
    /\ WF_allVars(LoopStep)

IdleSpec == IdleInit /\ [][IdleNext]_allVars /\ IdleFairness

----------------------------------------------------------------------------
(* Properties.                                                             *)

IdleTypeOK ==
    /\ TypeOK
    /\ frame \in [Key -> Frame]
    /\ copies \subseteq Key \X Frame

\* The cameras of the last start that nobody removed.
Lasting == loaded \cap listed

\* A lasting camera has one frame, and the one that moves are recorded in is the one that the
\* loop marks, whatever the loop does to the frames of cameras that come and go.
OneFramePerCamera == \A c \in Lasting : KeysOf(c) \cap known = {KeyOf(c)}

\* Every request is answered, and the loop goes on, unless the process ends.
RequestsReturn == \A t \in Poster : call[t].pc # "idle" ~> (call[t].pc = "idle" \/ ~ Up)

Unattended(c) == Up /\ c \in Lasting /\ frame[KeyOf(c)].last = "stale"

\* A camera that is unattended is told to go home, unless its frame says that it is there or
\* the loop is about to say so: the moves of others and the turns of the loop do not starve it.
UnattendedIsSentHome ==
    \A c \in Camera :
        (Unattended(c) /\ ~ frame[KeyOf(c)].in_idle /\ call[Loop].camera # c)
            ~> (~ Unattended(c) \/ (Working("interact") /\ worker.poster = Loop /\ Target = c))
=============================================================================
