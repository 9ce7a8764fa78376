--------------------------- MODULE CamerasProofs ---------------------------
(***************************************************************************)
(* Proofs about module Cameras: whatever the number of threads, cameras    *)
(* and restarts, and whatever the interleaving of edits, signals, commands *)
(* and the worker.  The loop and the frames of module IdleActions only add *)
(* to this behaviour, so the theorems hold there too, and a camera of the  *)
(* last start never has two frames.                                        *)
(***************************************************************************)
EXTENDS IdleActions, TLAPS

(* The inductive invariant, part by part.                                  *)

\* Cameras come from AddCamera or from the table, which holds only such ones.
OnlyCreated == listed \cup loaded \cup rows \subseteq created

\* Where a call of each kind can be, and that it is about a camera that was made.
CallsAreTyped ==
    \A p \in Poster :
        \/ call[p] = Idle
        \/ /\ call[p].camera \in created
           /\ \/ /\ p \in Thread /\ call[p].op = "add"
                 /\ call[p].pc \in {"signal", "records", "table"}
              \/ /\ p \in Thread /\ call[p].op = "remove"
                 /\ call[p].pc \in {"found", "signal", "records", "table"}
              \/ /\ p \in Thread /\ call[p].op \in {"move", "ask"}
                 /\ call[p].pc \in {"found", "waiting", "answered", "empty"}
              \/ /\ p = Loop /\ call[p].op = "idle"
                 /\ call[p].pc \in {"waiting", "answered", "empty"}

\* A camera whose addition is under way is in the model, and was not there at the start.
AddIsNew == \A t \in Thread : call[t].op = "add" => call[t].camera \in listed \ loaded

\* A camera that is being removed has its id, and once it is out of the model it stays out.
RemoveIsFinal ==
    \A t \in Thread : call[t].op = "remove" =>
        /\ Numbered(call[t].camera)
        /\ call[t].pc # "found" => call[t].camera \notin listed

\* A camera of the start that nobody removed is found by its key.
LoadedIsFiled == \A c \in loaded \cap listed : <<c, "byId">> \in devices

\* So an empty result is about another camera.
EmptyIsEdited ==
    \A t \in Thread : call[t].pc = "empty" => call[t].camera \notin loaded \cap listed

\* The worker knows for whom it works.
WorkerHasPoster == worker.pc # "free" => worker.poster \in Poster

IndInv ==
    /\ TypeOK
    /\ OnlyCreated
    /\ CallsAreTyped
    /\ AddIsNew
    /\ RemoveIsFinal
    /\ LoadedIsFiled
    /\ EmptyIsEdited
    /\ WorkerHasPoster
    /\ EachWaiterHasOneTask
    /\ ReplicasMatchModel
    /\ OnlyEditedCamerasAreFatal

----------------------------------------------------------------------------
(* What the steps of a call do to the calls.                               *)

\* An idle call is a call.
LEMMA IdleIsACall == Idle \in Call /\ Idle.pc = "idle" /\ Idle.op = "none"
BY DEF Idle, Call, Place, Operation

\* A call that goes on keeps its operation and its camera.
LEMMA GotoCalls ==
    ASSUME call \in [Poster -> Call], NEW p \in Poster, NEW pc \in Place, Goto(p, pc)
    PROVE  /\ call' \in [Poster -> Call]
           /\ call'[p].pc = pc /\ call'[p].op = call[p].op /\ call'[p].camera = call[p].camera
           /\ \A q \in Poster \ {p} : call'[q] = call[q]
<1>1. [call[p] EXCEPT !.pc = pc] \in Call
  BY DEF Call
<1> QED
  BY <1>1 DEF Goto, Call

\* A call that returns is idle.
LEMMA ReturnCalls ==
    ASSUME call \in [Poster -> Call], NEW p \in Poster, Return(p)
    PROVE  /\ call' \in [Poster -> Call]
           /\ call'[p] = Idle
           /\ \A q \in Poster \ {p} : call'[q] = call[q]
BY IdleIsACall DEF Return

\* A call that begins was idle before.
LEMMA BeginCalls ==
    ASSUME call \in [Poster -> Call], NEW p \in Poster, NEW pc \in Place, NEW op \in Operation,
           NEW c \in Camera, Begin(p, pc, op, c)
    PROVE  /\ call' \in [Poster -> Call]
           /\ call[p] = Idle /\ Up
           /\ call'[p].pc = pc /\ call'[p].op = op /\ call'[p].camera = c
           /\ \A q \in Poster \ {p} : call'[q] = call[q]
<1>1. [pc |-> pc, op |-> op, camera |-> c] \in Call
  BY DEF Call
<1> QED
  BY <1>1 DEF Begin

\* After a start every call is idle.
LEMMA RestartCalls ==
    ASSUME Restart
    PROVE  call' \in [Poster -> Call] /\ \A p \in Poster : call'[p] = Idle
BY IdleIsACall DEF Restart

\* Whoever is waiting stays so, and nobody else begins to: the tasks are the same.
LEMMA TasksKept ==
    ASSUME EachWaiterHasOneTask, UNCHANGED <<pool, worker>>,
           \A p \in Poster : call'[p].pc = "waiting" <=> call[p].pc = "waiting"
    PROVE  EachWaiterHasOneTask'
BY DEF EachWaiterHasOneTask, Waiting, Served

----------------------------------------------------------------------------
(* Commands and the worker.                                                *)

\* A step of a command leaves everything alone that is about additions and removals.
LEMMA CommandKeeps ==
    ASSUME IndInv, UNCHANGED <<listed, loaded, created, devices, rows>>, known \subseteq known',
           \A t \in Thread : call[t].op \in {"add", "remove"} \/ call'[t].op \in {"add", "remove"}
                               => call'[t] = call[t]
    PROVE  OnlyCreated' /\ AddIsNew' /\ RemoveIsFinal' /\ LoadedIsFiled' /\ ReplicasMatchModel'
<1>1. OnlyCreated' /\ AddIsNew' /\ LoadedIsFiled'
  BY DEF IndInv, OnlyCreated, AddIsNew, LoadedIsFiled
<1>2. \A c : Numbered(c)' <=> Numbered(c)
  BY DEF Numbered
<1>3. RemoveIsFinal'
  BY <1>2 DEF IndInv, RemoveIsFinal
<1>4. ASSUME NEW c, NEW op \in {"add", "remove"}, NEW pcs
      PROVE  Announcing(op, c, pcs)' <=> Announcing(op, c, pcs)
  BY DEF Announcing
<1>5. \A c \in Camera : KeysOf(c)' = KeysOf(c)
  BY DEF KeysOf
<1>6. ReplicasMatchModel'
  <2> SUFFICES ASSUME NEW c \in Camera
               PROVE  /\ c \in listed =>
                           /\ KeysOf(c) \cap devices # {} \/ Announcing("add", c, {"signal"})'
                           /\ KeysOf(c) \cap known' # {} \/ Announcing("add", c, {"signal", "records"})'
                           /\ c \in rows \/ Announcing("add", c, {"signal", "records", "table"})'
                      /\ c \notin listed =>
                           /\ KeysOf(c) \cap devices = {} \/ Announcing("remove", c, {"signal"})'
                           /\ c \notin rows \/ Announcing("remove", c, {"signal", "records", "table"})'
    BY DEF ReplicasMatchModel, KeysOf
  <2> QED
    BY <1>4 DEF IndInv, ReplicasMatchModel
<1> QED
  BY <1>1, <1>3, <1>6

\* A command begins.
LEMMA RequestKeeps ==
    ASSUME IndInv, NEW t \in Thread, NEW c \in Camera, NEW op \in {"move", "ask"}, Request(t, c, op)
    PROVE  IndInv'
<1>1. /\ call' \in [Poster -> Call] /\ call[t] = Idle /\ Up
      /\ call'[t].pc = "found" /\ call'[t].op = op /\ call'[t].camera = c
      /\ \A q \in Poster \ {t} : call'[q] = call[q]
  BY BeginCalls DEF Request, IndInv, TypeOK, Poster, Place, Operation
<1>2. Idle.pc = "idle" /\ Idle.op = "none"
  BY IdleIsACall
<1>3. OnlyCreated' /\ AddIsNew' /\ RemoveIsFinal' /\ LoadedIsFiled' /\ ReplicasMatchModel'
  BY <1>1, <1>2, CommandKeeps DEF Request, Poster
<1>4. TypeOK' /\ WorkerHasPoster' /\ OnlyEditedCamerasAreFatal'
  BY <1>1 DEF Request, IndInv, TypeOK, WorkerHasPoster, OnlyEditedCamerasAreFatal
<1>5. CallsAreTyped'
  BY <1>1 DEF Request, Findable, IndInv, CallsAreTyped, OnlyCreated
<1>6. EmptyIsEdited'
  BY <1>1 DEF Request, IndInv, EmptyIsEdited, Poster
<1>7. EachWaiterHasOneTask'
  BY <1>1, <1>2, TasksKept DEF Request, IndInv
<1> QED
  BY <1>3, <1>4, <1>5, <1>6, <1>7 DEF IndInv

\* A poster that has no task posts one and waits.
LEMMA TaskAppended ==
    ASSUME EachWaiterHasOneTask, pool \in Seq(Poster), NEW p \in Poster, call[p].pc # "waiting",
           pool' = Append(pool, p), worker' = worker, call'[p].pc = "waiting",
           \A q \in Poster \ {p} : call'[q] = call[q]
    PROVE  EachWaiterHasOneTask'
<1>1. /\ DOMAIN pool = 1 .. Len(pool) /\ DOMAIN pool' = 1 .. Len(pool) + 1 /\ Len(pool) \in Nat
      /\ \A i \in 1 .. Len(pool) : pool'[i] = pool[i] /\ pool[i] \in Poster
      /\ pool'[Len(pool) + 1] = p
  OBVIOUS
<1>2. ~ Served(p) /\ \A i \in 1 .. Len(pool) : pool[i] # p
  BY <1>1 DEF EachWaiterHasOneTask, Waiting
<1>3. \A q \in Poster : Served(q)' <=> Served(q)
  BY DEF Served
<1>4. \A q \in Poster : Waiting(q)' <=> Served(q)' \/ \E i \in DOMAIN pool' : pool'[i] = q
  <2> SUFFICES ASSUME NEW q \in Poster
               PROVE  Waiting(q)' <=> Served(q) \/ \E i \in 1 .. Len(pool) + 1 : pool'[i] = q
    BY <1>1, <1>3
  <2>1. CASE q = p
    BY <2>1, <1>1 DEF Waiting
  <2>2. CASE q # p
    <3>1. (\E i \in 1 .. Len(pool) + 1 : pool'[i] = q) <=> \E i \in 1 .. Len(pool) : pool[i] = q
      BY <1>1, <2>2
    <3> QED
      BY <3>1, <2>2, <1>1 DEF EachWaiterHasOneTask, Waiting
  <2> QED
    BY <2>1, <2>2
<1>5. \A i \in DOMAIN pool' : ~ (worker'.pc # "free" /\ worker'.poster = pool'[i])
  <2> SUFFICES ASSUME NEW i \in 1 .. Len(pool) + 1
               PROVE  ~ (worker.pc # "free" /\ worker.poster = pool'[i])
    BY <1>1
  <2>1. CASE i = Len(pool) + 1
    BY <2>1, <1>1, <1>2 DEF Served
  <2>2. CASE i # Len(pool) + 1
    BY <2>2, <1>1 DEF EachWaiterHasOneTask, Served
  <2> QED
    BY <2>1, <2>2
<1>6. \A i, j \in DOMAIN pool' : i # j => pool'[i] # pool'[j]
  BY <1>1, <1>2 DEF EachWaiterHasOneTask
<1> QED
  BY <1>4, <1>5, <1>6 DEF EachWaiterHasOneTask, Served

\* A handler posts its task.
LEMMA PostKeeps ==
    ASSUME IndInv, NEW t \in Thread, Post(t)
    PROVE  IndInv'
<1>1. /\ call' \in [Poster -> Call] /\ call[t].pc = "found" /\ call[t].op \in {"move", "ask"}
      /\ call'[t].pc = "waiting" /\ call'[t].op = call[t].op /\ call'[t].camera = call[t].camera
      /\ \A q \in Poster \ {t} : call'[q] = call[q]
  BY GotoCalls DEF Post, At, IndInv, TypeOK, Poster, Place
<1>2. Idle.pc = "idle" /\ t \in Poster
  BY IdleIsACall DEF Poster
<1>3. OnlyCreated' /\ AddIsNew' /\ RemoveIsFinal' /\ LoadedIsFiled' /\ ReplicasMatchModel'
  BY <1>1, CommandKeeps DEF Post, Poster
<1>4. TypeOK' /\ WorkerHasPoster' /\ OnlyEditedCamerasAreFatal'
  BY <1>1, <1>2 DEF Post, IndInv, TypeOK, WorkerHasPoster, OnlyEditedCamerasAreFatal
<1>5. CallsAreTyped'
  BY <1>1, <1>2 DEF Post, IndInv, CallsAreTyped
<1>6. EmptyIsEdited'
  BY <1>1 DEF Post, IndInv, EmptyIsEdited, Poster
<1>7. EachWaiterHasOneTask'
  BY <1>1, <1>2, TaskAppended DEF Post, IndInv, TypeOK
<1> QED
  BY <1>3, <1>4, <1>5, <1>6, <1>7 DEF IndInv

\* The loop posts its task.
LEMMA LoopPostKeeps ==
    ASSUME IndInv, NEW c \in Camera, LoopPost(c)
    PROVE  IndInv'
<1>1. /\ call' \in [Poster -> Call] /\ call[Loop] = Idle
      /\ call'[Loop].pc = "waiting" /\ call'[Loop].op = "idle" /\ call'[Loop].camera = c
      /\ \A q \in Poster \ {Loop} : call'[q] = call[q]
  BY BeginCalls DEF LoopPost, IndInv, TypeOK, Poster, Place, Operation
<1>2. Idle.pc = "idle" /\ Loop \in Poster /\ \A t \in Thread : t \in Poster \ {Loop}
  BY IdleIsACall, CamerasAssumption DEF Poster
<1>3. OnlyCreated' /\ AddIsNew' /\ RemoveIsFinal' /\ LoadedIsFiled' /\ ReplicasMatchModel'
  BY <1>1, <1>2, CommandKeeps DEF LoopPost
<1>4. TypeOK' /\ WorkerHasPoster' /\ OnlyEditedCamerasAreFatal'
  BY <1>1, <1>2 DEF LoopPost, IndInv, TypeOK, WorkerHasPoster, OnlyEditedCamerasAreFatal
<1>5. CallsAreTyped'
  BY <1>1, <1>2 DEF LoopPost, IndInv, CallsAreTyped
<1>6. EmptyIsEdited'
  BY <1>1, <1>2 DEF LoopPost, IndInv, EmptyIsEdited
<1>7. EachWaiterHasOneTask'
  BY <1>1, <1>2, TaskAppended DEF LoopPost, IndInv, TypeOK
<1> QED
  BY <1>3, <1>4, <1>5, <1>6, <1>7 DEF IndInv

\* The worker takes the first task; the others stay in their order.
LEMMA TakingKeeps ==
    ASSUME IndInv, Take
    PROVE  IndInv'
<1>1. /\ pool \in Seq(Poster) /\ Len(pool) \in Nat \ {0} /\ worker.pc = "free"
      /\ DOMAIN pool = 1 .. Len(pool) /\ \A i \in 1 .. Len(pool) : pool[i] \in Poster
      /\ pool' \in Seq(Poster) /\ DOMAIN pool' = 1 .. Len(pool) - 1
      /\ \A i \in 1 .. Len(pool) - 1 : pool'[i] = pool[i + 1]
      /\ worker' = [pc |-> "find", poster |-> pool[1]]
  BY DEF Take, Working, IndInv, TypeOK
<1>2. OnlyCreated' /\ AddIsNew' /\ RemoveIsFinal' /\ LoadedIsFiled' /\ ReplicasMatchModel'
  BY CommandKeeps DEF Take
<1>3. worker' \in Worker /\ WorkerHasPoster'
  BY <1>1 DEF Worker, WorkerHasPoster
<1>4. TypeOK' /\ OnlyEditedCamerasAreFatal' /\ CallsAreTyped' /\ EmptyIsEdited'
  BY <1>1, <1>3 DEF Take, IndInv, TypeOK, OnlyEditedCamerasAreFatal, CallsAreTyped, EmptyIsEdited
<1>5. EachWaiterHasOneTask'
  <2>1. \A p : ~ Served(p)
    BY <1>1 DEF Served
  <2>2. \A p : Served(p)' <=> p = pool[1]
    BY <1>1 DEF Served
  <2>3. \A p : (\E i \in 1 .. Len(pool) : pool[i] = p)
                 <=> p = pool[1] \/ \E i \in 1 .. Len(pool) - 1 : pool'[i] = p
    <3> TAKE p
    <3>1. ASSUME NEW i \in 1 .. Len(pool), pool[i] = p, p # pool[1]
          PROVE  \E j \in 1 .. Len(pool) - 1 : pool'[j] = p
      <4>1. i - 1 \in 1 .. Len(pool) - 1 /\ pool'[i - 1] = p
        BY <1>1, <3>1
      <4> QED
        BY <4>1
    <3>2. ASSUME NEW i \in 1 .. Len(pool) - 1, pool'[i] = p
          PROVE  \E j \in 1 .. Len(pool) : pool[j] = p
      <4>1. i + 1 \in 1 .. Len(pool) /\ pool[i + 1] = p
        BY <1>1, <3>2
      <4> QED
        BY <4>1
    <3>3. 1 \in 1 .. Len(pool)
      BY <1>1
    <3> QED
      BY <3>1, <3>2, <3>3
  <2>4. \A p \in Poster : Waiting(p)' <=> Served(p)' \/ \E i \in DOMAIN pool' : pool'[i] = p
    <3> SUFFICES ASSUME NEW p \in Poster
                 PROVE  Waiting(p)' <=> Served(p)' \/ \E i \in DOMAIN pool' : pool'[i] = p
      OBVIOUS
    <3>1. Waiting(p)' <=> Waiting(p)
      BY DEF Take, Waiting
    <3> QED
      BY <3>1, <2>1, <2>2, <2>3, <1>1 DEF IndInv, EachWaiterHasOneTask
  <2>5. \A i, j \in 1 .. Len(pool) : i # j => pool[i] # pool[j]
    BY <1>1 DEF IndInv, EachWaiterHasOneTask
  <2>6. \A i \in DOMAIN pool' : ~ (worker'.pc # "free" /\ worker'.poster = pool'[i])
    BY <2>5, <1>1
  <2>7. \A i, j \in DOMAIN pool' : i # j => pool'[i] # pool'[j]
    BY <2>5, <1>1
  <2> QED
    BY <2>4, <2>6, <2>7 DEF EachWaiterHasOneTask, Served
<1> QED
  BY <1>2, <1>3, <1>4, <1>5 DEF IndInv

\* The worker goes on with its task.
LEMMA TaskGoesOn ==
    ASSUME IndInv, UNCHANGED <<pool, call>>, worker.pc # "free",
           NEW pc \in {"interact", "record"}, worker' = [worker EXCEPT !.pc = pc]
    PROVE  worker' \in Worker /\ WorkerHasPoster' /\ EachWaiterHasOneTask'
<1>1. worker' \in Worker /\ worker'.pc # "free" /\ worker'.poster = worker.poster
  BY DEF IndInv, TypeOK, Worker
<1>2. WorkerHasPoster' /\ EachWaiterHasOneTask'
  BY <1>1 DEF IndInv, WorkerHasPoster, EachWaiterHasOneTask, Waiting, Served
<1> QED
  BY <1>1, <1>2

\* The worker ends its task, and its poster waits no longer.
LEMMA TaskEnds ==
    ASSUME IndInv, worker.pc # "free", NEW pc \in {"answered", "empty"}, Result(pc),
           UNCHANGED <<pool, created>>
    PROVE  /\ worker.poster \in Poster /\ call[worker.poster].pc = "waiting"
           /\ call' \in [Poster -> Call] /\ worker' \in Worker
           /\ call'[worker.poster].pc = pc
           /\ call'[worker.poster].op = call[worker.poster].op
           /\ call'[worker.poster].camera = call[worker.poster].camera
           /\ \A q \in Poster \ {worker.poster} : call'[q] = call[q]
           /\ WorkerHasPoster' /\ EachWaiterHasOneTask' /\ CallsAreTyped'
<1>1. worker.poster \in Poster
  BY DEF IndInv, WorkerHasPoster
<1>2. call[worker.poster].pc = "waiting"
  BY <1>1 DEF IndInv, EachWaiterHasOneTask, Served, Waiting
<1>3. /\ call' \in [Poster -> Call]
      /\ call'[worker.poster].pc = pc
      /\ call'[worker.poster].op = call[worker.poster].op
      /\ call'[worker.poster].camera = call[worker.poster].camera
      /\ \A q \in Poster \ {worker.poster} : call'[q] = call[q]
  BY <1>1, GotoCalls DEF Result, IndInv, TypeOK, Place
<1>4. worker' \in Worker /\ worker'.pc = "free"
  BY DEF Result, Resting, Worker
<1>5. WorkerHasPoster'
  BY <1>4 DEF WorkerHasPoster
<1>6. EachWaiterHasOneTask'
  BY <1>1, <1>2, <1>3, <1>4 DEF IndInv, EachWaiterHasOneTask, Waiting, Served
<1>7. CallsAreTyped'
  BY <1>1, <1>2, <1>3, IdleIsACall DEF IndInv, CallsAreTyped
<1> QED
  BY <1>1, <1>2, <1>3, <1>4, <1>5, <1>6, <1>7

\* The worker searches the replica; what it does not find was edited since the start.
LEMMA FindKeeps ==
    ASSUME IndInv, Find
    PROVE  IndInv'
<1>1. CASE KeyOf(Target) \in devices /\ worker' = [worker EXCEPT !.pc = "interact"] /\ UNCHANGED call
  <2>1. worker' \in Worker /\ WorkerHasPoster' /\ EachWaiterHasOneTask'
    BY <1>1, TaskGoesOn DEF Find, Working
  <2>2. OnlyCreated' /\ AddIsNew' /\ RemoveIsFinal' /\ LoadedIsFiled' /\ ReplicasMatchModel'
    BY <1>1, CommandKeeps DEF Find
  <2>3. TypeOK' /\ OnlyEditedCamerasAreFatal' /\ CallsAreTyped' /\ EmptyIsEdited'
    BY <1>1, <2>1 DEF Find, IndInv, TypeOK, OnlyEditedCamerasAreFatal, CallsAreTyped, EmptyIsEdited
  <2> QED
    BY <2>1, <2>2, <2>3 DEF IndInv
<1>2. CASE KeyOf(Target) \notin devices /\ Result("empty")
  <2>1. /\ worker.poster \in Poster /\ call[worker.poster].pc = "waiting"
        /\ call' \in [Poster -> Call] /\ worker' \in Worker
        /\ call'[worker.poster].pc = "empty"
        /\ call'[worker.poster].op = call[worker.poster].op
        /\ call'[worker.poster].camera = call[worker.poster].camera
        /\ \A q \in Poster \ {worker.poster} : call'[q] = call[q]
        /\ WorkerHasPoster' /\ EachWaiterHasOneTask' /\ CallsAreTyped'
    BY <1>2, TaskEnds DEF Find, Working
  <2>2. call[worker.poster].op \notin {"add", "remove"}
    BY <2>1, IdleIsACall DEF IndInv, CallsAreTyped
  <2>3. OnlyCreated' /\ AddIsNew' /\ RemoveIsFinal' /\ LoadedIsFiled' /\ ReplicasMatchModel'
    <3>1. \A t \in Thread : call[t].op \in {"add", "remove"} \/ call'[t].op \in {"add", "remove"}
                              => call'[t] = call[t]
      BY <2>1, <2>2 DEF Poster
    <3> QED
      BY <3>1, CommandKeeps DEF Find
  <2>4. Target \notin loaded \cap listed
    <3>1. Target \in loaded => Numbered(Target)
      BY DEF IndInv, AddIsNew, Numbered
    <3> QED
      BY <1>2, <3>1 DEF KeyOf, Hash, IndInv, LoadedIsFiled
  <2>5. EmptyIsEdited'
    BY <2>1, <2>4 DEF Find, Target, IndInv, EmptyIsEdited, Poster
  <2>6. TypeOK' /\ OnlyEditedCamerasAreFatal'
    BY <2>1 DEF Find, IndInv, TypeOK, OnlyEditedCamerasAreFatal
  <2> QED
    BY <2>1, <2>3, <2>5, <2>6 DEF IndInv
<1> QED
  BY <1>1, <1>2 DEF Find

\* A result that is not empty disturbs nothing.
LEMMA AnsweredKeeps ==
    ASSUME IndInv, worker.pc # "free", Result("answered"),
           UNCHANGED <<down, listed, loaded, created, devices, known, rows, pool, boots>>
    PROVE  IndInv'
<1>1. /\ worker.poster \in Poster /\ call[worker.poster].pc = "waiting"
      /\ call' \in [Poster -> Call] /\ worker' \in Worker
      /\ call'[worker.poster].pc = "answered"
      /\ call'[worker.poster].op = call[worker.poster].op
      /\ \A q \in Poster \ {worker.poster} : call'[q] = call[q]
      /\ WorkerHasPoster' /\ EachWaiterHasOneTask' /\ CallsAreTyped'
  BY TaskEnds
<1>2. call[worker.poster].op \notin {"add", "remove"}
  BY <1>1, IdleIsACall DEF IndInv, CallsAreTyped
<1>3. \A t \in Thread : call[t].op \in {"add", "remove"} \/ call'[t].op \in {"add", "remove"}
                          => call'[t] = call[t]
  BY <1>1, <1>2 DEF Poster
<1>4. OnlyCreated' /\ AddIsNew' /\ RemoveIsFinal' /\ LoadedIsFiled' /\ ReplicasMatchModel'
  BY <1>3, CommandKeeps
<1>5. EmptyIsEdited'
  BY <1>1 DEF IndInv, EmptyIsEdited, Poster
<1>6. TypeOK' /\ OnlyEditedCamerasAreFatal'
  BY <1>1 DEF IndInv, TypeOK, OnlyEditedCamerasAreFatal
<1> QED
  BY <1>1, <1>4, <1>5, <1>6 DEF IndInv

\* The worker performs the command.
LEMMA InteractKeeps ==
    ASSUME IndInv, Interact
    PROVE  IndInv'
<1>1. CASE worker' = [worker EXCEPT !.pc = "record"] /\ UNCHANGED call
  <2>1. worker' \in Worker /\ WorkerHasPoster' /\ EachWaiterHasOneTask'
    BY <1>1, TaskGoesOn DEF Interact, Working
  <2>2. OnlyCreated' /\ AddIsNew' /\ RemoveIsFinal' /\ LoadedIsFiled' /\ ReplicasMatchModel'
    BY <1>1, CommandKeeps DEF Interact
  <2>3. TypeOK' /\ OnlyEditedCamerasAreFatal' /\ CallsAreTyped' /\ EmptyIsEdited'
    BY <1>1, <2>1 DEF Interact, IndInv, TypeOK, OnlyEditedCamerasAreFatal, CallsAreTyped, EmptyIsEdited
  <2> QED
    BY <2>1, <2>2, <2>3 DEF IndInv
<1>2. CASE Result("answered")
  BY <1>2, AnsweredKeeps DEF Interact, Working
<1> QED
  BY <1>1, <1>2 DEF Interact

\* The worker records a move; a record that is missing is one of an edited camera.
LEMMA RecordKeeps ==
    ASSUME IndInv, Record
    PROVE  IndInv'
<1>1. CASE Result("answered") /\ UNCHANGED down
  BY <1>1, AnsweredKeeps DEF Record, Working
<1>2. CASE KeysOf(Target) \cap known = {} /\ down' = Target /\ UNCHANGED <<worker, call>>
  <2>1. OnlyCreated' /\ AddIsNew' /\ RemoveIsFinal' /\ LoadedIsFiled' /\ ReplicasMatchModel'
    BY <1>2, CommandKeeps DEF Record
  <2>2. EachWaiterHasOneTask'
    BY <1>2, TasksKept DEF Record, IndInv
  <2>3. worker.poster \in Poster /\ call[worker.poster] \in Call
    BY DEF Record, Working, IndInv, WorkerHasPoster, TypeOK
  <2>4. Target \in Camera \cup {Nobody}
    BY <2>3 DEF Target, Call
  <2>5. CallsAreTyped' /\ EmptyIsEdited' /\ WorkerHasPoster' /\ TypeOK'
    BY <1>2, <2>4 DEF Record, IndInv, CallsAreTyped, EmptyIsEdited, WorkerHasPoster, TypeOK
  <2>6. Target \in loaded => Target \notin listed
    <3> SUFFICES ASSUME Target \in loaded, Target \in listed
                 PROVE  FALSE
      OBVIOUS
    <3>1. Target \in Camera
      BY DEF IndInv, TypeOK
    <3>2. \E t \in Thread : call[t].op = "add" /\ call[t].camera = Target
      BY <1>2, <3>1 DEF IndInv, ReplicasMatchModel, Announcing
    <3> QED
      BY <3>2 DEF IndInv, AddIsNew
  <2>7. OnlyEditedCamerasAreFatal'
    BY <1>2, <2>6 DEF Record, OnlyEditedCamerasAreFatal
  <2> QED
    BY <2>1, <2>2, <2>5, <2>7 DEF IndInv
<1> QED
  BY <1>1, <1>2 DEF Record

----------------------------------------------------------------------------
(* What the posters make of the result.                                    *)

\* A handler unwraps the result.
LEMMA AnswerKeeps ==
    ASSUME IndInv, NEW t \in Thread, Answer(t)
    PROVE  IndInv'
<1>1. t \in Poster /\ call[t].op \in {"move", "ask"} /\ Idle.op = "none" /\ Idle.pc = "idle"
  BY IdleIsACall DEF Answer, At, Poster
<1>2. CASE call[t].pc = "answered" /\ Return(t) /\ UNCHANGED down
  <2>1. /\ call' \in [Poster -> Call] /\ call'[t] = Idle
        /\ \A q \in Poster \ {t} : call'[q] = call[q]
    BY <1>1, <1>2, ReturnCalls DEF IndInv, TypeOK
  <2>2. OnlyCreated' /\ AddIsNew' /\ RemoveIsFinal' /\ LoadedIsFiled' /\ ReplicasMatchModel'
    BY <1>1, <1>2, <2>1, CommandKeeps DEF Answer, Poster
  <2>3. EachWaiterHasOneTask'
    BY <1>1, <1>2, <2>1, TasksKept DEF Answer, IndInv
  <2>4. TypeOK' /\ OnlyEditedCamerasAreFatal' /\ WorkerHasPoster'
    BY <1>2, <2>1 DEF Answer, IndInv, TypeOK, OnlyEditedCamerasAreFatal, WorkerHasPoster
  <2>5. CallsAreTyped'
    BY <2>1 DEF Answer, IndInv, CallsAreTyped
  <2>6. EmptyIsEdited'
    BY <1>1, <2>1 DEF Answer, IndInv, EmptyIsEdited, Poster
  <2> QED
    BY <2>2, <2>3, <2>4, <2>5, <2>6 DEF IndInv
<1>3. CASE call[t].pc = "empty" /\ down' = call[t].camera /\ UNCHANGED call
  <2>1. OnlyCreated' /\ AddIsNew' /\ RemoveIsFinal' /\ LoadedIsFiled' /\ ReplicasMatchModel'
    BY <1>3, CommandKeeps DEF Answer
  <2>2. EachWaiterHasOneTask'
    BY <1>3, TasksKept DEF Answer, IndInv
  <2>3. call[t].camera \in Camera \cup {Nobody}
    BY <1>1 DEF IndInv, TypeOK, Call
  <2>4. TypeOK' /\ CallsAreTyped' /\ EmptyIsEdited' /\ WorkerHasPoster'
    BY <1>3, <2>3 DEF Answer, IndInv, TypeOK, CallsAreTyped, EmptyIsEdited, WorkerHasPoster
  <2>5. OnlyEditedCamerasAreFatal'
    BY <1>3 DEF Answer, IndInv, EmptyIsEdited, OnlyEditedCamerasAreFatal
  <2> QED
    BY <2>1, <2>2, <2>4, <2>5 DEF IndInv
<1> QED
  BY <1>2, <1>3 DEF Answer

\* The loop marks a key.
LEMMA LoopMarkKeeps ==
    ASSUME IndInv, LoopMark
    PROVE  IndInv'
<1>1. Loop \in Poster /\ Idle.op = "none" /\ Idle.pc = "idle" /\ \A t \in Thread : t \in Poster \ {Loop}
  BY IdleIsACall, CamerasAssumption DEF Poster
<1>2. /\ call' \in [Poster -> Call] /\ call'[Loop] = Idle
      /\ \A q \in Poster \ {Loop} : call'[q] = call[q]
  BY <1>1, ReturnCalls DEF LoopMark, IndInv, TypeOK
<1>3. call[Loop].camera \in Camera /\ call[Loop].pc # "waiting"
  BY <1>1 DEF LoopMark, IndInv, CallsAreTyped, TypeOK
<1>4. KeyOf(call[Loop].camera) \in Key
  BY <1>3 DEF KeyOf, Key, Hash, Filing
<1>5. OnlyCreated' /\ AddIsNew' /\ RemoveIsFinal' /\ LoadedIsFiled' /\ ReplicasMatchModel'
  BY <1>1, <1>2, CommandKeeps DEF LoopMark
<1>6. EachWaiterHasOneTask'
  BY <1>1, <1>2, <1>3, TasksKept DEF LoopMark, IndInv
<1>7. TypeOK' /\ OnlyEditedCamerasAreFatal' /\ WorkerHasPoster'
  BY <1>2, <1>4 DEF LoopMark, IndInv, TypeOK, OnlyEditedCamerasAreFatal, WorkerHasPoster
<1>8. CallsAreTyped'
  BY <1>2 DEF LoopMark, IndInv, CallsAreTyped
<1>9. EmptyIsEdited'
  BY <1>1, <1>2 DEF LoopMark, IndInv, EmptyIsEdited
<1> QED
  BY <1>5, <1>6, <1>7, <1>8, <1>9 DEF IndInv

----------------------------------------------------------------------------
(* Editing the cameras of the model.                                       *)

\* A step of an edit leaves the commands and the worker alone.
LEMMA EditKeeps ==
    ASSUME IndInv, NEW t \in Thread, UNCHANGED <<down, loaded, pool, worker, boots>>, Up,
           created \subseteq created', listed' \cap loaded \subseteq listed,
           call' \in [Poster -> Call], \A q \in Poster \ {t} : call'[q] = call[q],
           call[t].pc \notin {"waiting", "answered", "empty"},
           \/ call'[t] = Idle
           \/ /\ call'[t].camera \in created'
              /\ \/ call'[t].op = "add" /\ call'[t].pc \in {"signal", "records", "table"}
                 \/ call'[t].op = "remove" /\ call'[t].pc \in {"found", "signal", "records", "table"}
    PROVE  /\ CallsAreTyped' /\ EmptyIsEdited' /\ WorkerHasPoster' /\ EachWaiterHasOneTask'
           /\ OnlyEditedCamerasAreFatal'
<1>1. t \in Poster /\ Idle.op = "none" /\ Idle.pc = "idle"
  BY IdleIsACall DEF Poster
<1>2. call'[t].pc \notin {"waiting", "answered", "empty"}
  BY <1>1
<1>3. CallsAreTyped'
  BY DEF IndInv, CallsAreTyped
<1>4. EmptyIsEdited'
  BY <1>2 DEF IndInv, EmptyIsEdited, Poster
<1>5. EachWaiterHasOneTask'
  BY <1>2, TasksKept DEF IndInv
<1>6. WorkerHasPoster'
  BY DEF IndInv, WorkerHasPoster
<1>7. OnlyEditedCamerasAreFatal'
  <2>1. loaded \subseteq Camera
    BY DEF IndInv, TypeOK
  <2> QED
    BY <2>1, CamerasAssumption DEF OnlyEditedCamerasAreFatal, Up
<1> QED
  BY <1>3, <1>4, <1>5, <1>6, <1>7

\* A new camera is in no replica and in no table.
LEMMA AddCameraKeeps ==
    ASSUME IndInv, NEW t \in Thread, NEW c \in Camera, AddCamera(t, c)
    PROVE  IndInv'
<1>1. /\ call' \in [Poster -> Call] /\ call[t] = Idle /\ Up
      /\ call'[t].pc = "signal" /\ call'[t].op = "add" /\ call'[t].camera = c
      /\ \A q \in Poster \ {t} : call'[q] = call[q]
  BY BeginCalls DEF AddCamera, IndInv, TypeOK, Poster, Place, Operation
<1>2. Idle.op = "none" /\ Idle.pc = "idle" /\ t \in Poster /\ Thread \subseteq Poster
  BY IdleIsACall DEF Poster
<1>3. c \notin created /\ created' = created \cup {c} /\ listed' = listed \cup {c}
  BY DEF AddCamera
<1>4. c \notin listed /\ c \notin loaded /\ c \notin rows
  BY <1>3 DEF IndInv, OnlyCreated
<1>5. /\ CallsAreTyped' /\ EmptyIsEdited' /\ WorkerHasPoster' /\ EachWaiterHasOneTask'
      /\ OnlyEditedCamerasAreFatal'
  <2>1. UNCHANGED <<down, loaded, pool, worker, boots>> /\ created \subseteq created'
    BY DEF AddCamera
  <2>2. listed' \cap loaded \subseteq listed /\ call'[t].camera \in created'
    BY <1>1, <1>3, <1>4
  <2> QED
    BY <2>1, <2>2, <1>1, <1>2, EditKeeps
<1>6. TypeOK' /\ OnlyCreated'
  BY <1>1, <1>3 DEF AddCamera, IndInv, TypeOK, OnlyCreated
<1>7. AddIsNew'
  BY <1>1, <1>2, <1>3, <1>4 DEF AddCamera, IndInv, AddIsNew
<1>8. RemoveIsFinal'
  <2> SUFFICES ASSUME NEW u \in Thread, call'[u].op = "remove"
               PROVE  /\ Numbered(call[u].camera)' /\ call'[u] = call[u]
                      /\ call[u].pc # "found" => call[u].camera \notin listed'
    BY DEF RemoveIsFinal, Numbered
  <2>1. u # t /\ call'[u] = call[u]
    BY <1>1, <1>2
  <2>2. call[u].camera \in created
    BY <2>1, <1>2 DEF IndInv, CallsAreTyped
  <2> QED
    BY <2>1, <2>2, <1>1, <1>2, <1>3 DEF IndInv, RemoveIsFinal, Numbered
<1>9. LoadedIsFiled'
  BY <1>3, <1>4 DEF AddCamera, IndInv, LoadedIsFiled
<1>10. ReplicasMatchModel'
  <2>1. Announcing("add", c, {"signal"})' /\ Announcing("add", c, {"signal", "records"})'
        /\ Announcing("add", c, {"signal", "records", "table"})'
    BY <1>1 DEF Announcing
  <2>2. ASSUME NEW d, NEW op \in {"add", "remove"}, NEW pcs, Announcing(op, d, pcs)
        PROVE  Announcing(op, d, pcs)'
    BY <1>1, <1>2, <2>2 DEF Announcing
  <2>3. \A d \in Camera : KeysOf(d)' = KeysOf(d)
    BY DEF KeysOf
  <2> QED
    BY <2>1, <2>2, <2>3, <1>3 DEF AddCamera, IndInv, ReplicasMatchModel
<1> QED
  BY <1>5, <1>6, <1>7, <1>8, <1>9, <1>10 DEF IndInv

\* A camera that is looked up for removal has its id.
LEMMA BeginRemoveKeeps ==
    ASSUME IndInv, NEW t \in Thread, NEW c \in Camera, BeginRemove(t, c)
    PROVE  IndInv'
<1>1. /\ call' \in [Poster -> Call] /\ call[t] = Idle /\ Up
      /\ call'[t].pc = "found" /\ call'[t].op = "remove" /\ call'[t].camera = c
      /\ \A q \in Poster \ {t} : call'[q] = call[q]
  BY BeginCalls DEF BeginRemove, IndInv, TypeOK, Poster, Place, Operation
<1>2. Idle.op = "none" /\ Idle.pc = "idle" /\ t \in Poster /\ Thread \subseteq Poster
  BY IdleIsACall DEF Poster
<1>3. c \in created /\ Numbered(c)
  BY DEF BeginRemove, Findable, IndInv, OnlyCreated
<1>4. /\ CallsAreTyped' /\ EmptyIsEdited' /\ WorkerHasPoster' /\ EachWaiterHasOneTask'
      /\ OnlyEditedCamerasAreFatal'
  <2>1. UNCHANGED <<down, loaded, listed, created, pool, worker, boots>>
    BY DEF BeginRemove
  <2> QED
    BY <2>1, <1>1, <1>2, <1>3, EditKeeps
<1>5. TypeOK' /\ OnlyCreated' /\ LoadedIsFiled'
  BY <1>1 DEF BeginRemove, IndInv, TypeOK, OnlyCreated, LoadedIsFiled
<1>6. AddIsNew'
  BY <1>1, <1>2 DEF BeginRemove, IndInv, AddIsNew
<1>7. \A d : Numbered(d)' <=> Numbered(d)
  BY <1>1, <1>2 DEF Numbered
<1>8. RemoveIsFinal'
  BY <1>1, <1>2, <1>3, <1>7 DEF BeginRemove, IndInv, RemoveIsFinal
<1>9. ReplicasMatchModel'
  <2>1. ASSUME NEW d, NEW op \in {"add", "remove"}, NEW pcs, Announcing(op, d, pcs)
        PROVE  Announcing(op, d, pcs)'
    BY <1>1, <1>2, <2>1 DEF Announcing
  <2>2. \A d \in Camera : KeysOf(d)' = KeysOf(d)
    BY DEF KeysOf
  <2> QED
    BY <2>1, <2>2 DEF BeginRemove, IndInv, ReplicasMatchModel
<1> QED
  BY <1>4, <1>5, <1>6, <1>8, <1>9 DEF IndInv

\* A camera leaves the model, or has left it already.
LEMMA RemoveCameraKeeps ==
    ASSUME IndInv, NEW t \in Thread, RemoveCamera(t)
    PROVE  IndInv'
<1> DEFINE c == call[t].camera
<1>1. /\ call[t].pc = "found" /\ call[t].op = "remove" /\ Up /\ t \in Poster /\ Thread \subseteq Poster
      /\ Idle.op = "none" /\ Idle.pc = "idle"
  BY IdleIsACall DEF RemoveCamera, At, Poster
<1>2. c \in created /\ Numbered(c)
  BY <1>1 DEF IndInv, CallsAreTyped, RemoveIsFinal
<1>3. CASE c \in listed /\ listed' = listed \ {c} /\ Goto(t, "signal")
  <2>1. /\ call' \in [Poster -> Call]
        /\ call'[t].pc = "signal" /\ call'[t].op = "remove" /\ call'[t].camera = c
        /\ \A q \in Poster \ {t} : call'[q] = call[q]
    BY <1>1, <1>3, GotoCalls DEF IndInv, TypeOK, Place
  <2>2. /\ CallsAreTyped' /\ EmptyIsEdited' /\ WorkerHasPoster' /\ EachWaiterHasOneTask'
        /\ OnlyEditedCamerasAreFatal'
    <3>1. UNCHANGED <<down, loaded, created, pool, worker, boots>>
      BY DEF RemoveCamera
    <3>2. listed' \cap loaded \subseteq listed
      BY <1>3
    <3> QED
      BY <3>1, <3>2, <2>1, <1>1, <1>2, EditKeeps
  <2>3. TypeOK' /\ OnlyCreated' /\ LoadedIsFiled'
    BY <1>3, <2>1 DEF RemoveCamera, IndInv, TypeOK, OnlyCreated, LoadedIsFiled
  <2>4. AddIsNew'
    BY <1>1, <1>2, <1>3, <2>1 DEF RemoveCamera, IndInv, AddIsNew, Numbered
  <2>5. \A d : Numbered(d)' <=> Numbered(d)
    BY <1>1, <2>1 DEF Numbered
  <2>6. RemoveIsFinal'
    BY <1>1, <1>2, <1>3, <2>1, <2>5 DEF RemoveCamera, IndInv, RemoveIsFinal
  <2>7. ReplicasMatchModel'
    <3>1. ASSUME NEW d, NEW op \in {"add", "remove"}, NEW pcs, Announcing(op, d, pcs)
          PROVE  Announcing(op, d, pcs)' \/ d = c
      BY <2>1, <1>1, <3>1 DEF Announcing
    <3>2. \A d \in Camera : KeysOf(d)' = KeysOf(d)
      BY DEF KeysOf
    <3>3. UNCHANGED <<devices, known, rows>>
      BY DEF RemoveCamera
    <3> SUFFICES ASSUME NEW d \in Camera
                 PROVE  /\ d \in listed' =>
                             /\ KeysOf(d) \cap devices # {} \/ Announcing("add", d, {"signal"})'
                             /\ KeysOf(d) \cap known # {} \/ Announcing("add", d, {"signal", "records"})'
                             /\ d \in rows \/ Announcing("add", d, {"signal", "records", "table"})'
                        /\ d \notin listed' =>
                             /\ KeysOf(d) \cap devices = {} \/ Announcing("remove", d, {"signal"})'
                             /\ d \notin rows \/ Announcing("remove", d, {"signal", "records", "table"})'
      BY <3>2, <3>3 DEF ReplicasMatchModel
    <3>4. CASE d = c
      <4>1. Announcing("remove", d, {"signal"})' /\ Announcing("remove", d, {"signal", "records", "table"})'
        BY <3>4, <2>1 DEF Announcing
      <4> QED
        BY <4>1, <3>4, <1>3
    <3>5. CASE d # c
      <4>1. d \in listed' <=> d \in listed
        BY <3>5, <1>3
      <4> QED
        BY <4>1, <3>1, <3>5 DEF IndInv, ReplicasMatchModel
    <3> QED
      BY <3>4, <3>5
  <2> QED
    BY <2>2, <2>3, <2>4, <2>6, <2>7 DEF IndInv
<1>4. CASE c \notin listed /\ Return(t) /\ UNCHANGED listed
  <2>1. call' \in [Poster -> Call] /\ call'[t] = Idle /\ \A q \in Poster \ {t} : call'[q] = call[q]
    BY <1>1, <1>4, ReturnCalls DEF IndInv, TypeOK
  <2>2. /\ CallsAreTyped' /\ EmptyIsEdited' /\ WorkerHasPoster' /\ EachWaiterHasOneTask'
        /\ OnlyEditedCamerasAreFatal'
    <3>1. UNCHANGED <<down, loaded, listed, created, pool, worker, boots>>
      BY <1>4 DEF RemoveCamera
    <3> QED
      BY <3>1, <2>1, <1>1, EditKeeps
  <2>3. TypeOK' /\ OnlyCreated' /\ LoadedIsFiled'
    BY <1>4, <2>1 DEF RemoveCamera, IndInv, TypeOK, OnlyCreated, LoadedIsFiled
  <2>4. AddIsNew'
    BY <1>1, <1>4, <2>1 DEF RemoveCamera, IndInv, AddIsNew
  <2>5. \A d : Numbered(d)' <=> Numbered(d)
    BY <1>1, <2>1 DEF Numbered
  <2>6. RemoveIsFinal'
    BY <1>1, <1>4, <2>1, <2>5 DEF RemoveCamera, IndInv, RemoveIsFinal
  <2>7. ReplicasMatchModel'
    <3>1. ASSUME NEW d, NEW op \in {"add", "remove"}, NEW pcs \in SUBSET {"signal", "records", "table"},
                 Announcing(op, d, pcs)
          PROVE  Announcing(op, d, pcs)'
      BY <2>1, <1>1, <3>1 DEF Announcing
    <3>2. \A d \in Camera : KeysOf(d)' = KeysOf(d)
      BY DEF KeysOf
    <3> QED
      BY <3>1, <3>2, <1>4 DEF RemoveCamera, IndInv, ReplicasMatchModel
  <2> QED
    BY <2>2, <2>3, <2>4, <2>6, <2>7 DEF IndInv
<1> QED
  BY <1>3, <1>4 DEF RemoveCamera

----------------------------------------------------------------------------
(* The Camera signal.                                                      *)

\* A signal that goes on to its next subscriber is about the same change of the same camera,
\* which has taken place; and the other signals are where they were.
LEMMA SignalGoesOn ==
    ASSUME IndInv, NEW t \in Thread, NEW from \in {"signal", "records"}, At(t, from, {"add", "remove"}),
           NEW to \in {"records", "table"}, Goto(t, to),
           UNCHANGED <<down, listed, loaded, created, rows, pool, worker, boots>>
    PROVE  /\ CallsAreTyped' /\ EmptyIsEdited' /\ WorkerHasPoster' /\ EachWaiterHasOneTask'
           /\ OnlyEditedCamerasAreFatal' /\ OnlyCreated' /\ AddIsNew' /\ RemoveIsFinal'
           /\ call' \in [Poster -> Call] /\ call[t].camera \in Camera
           /\ call[t].op = "add" => call[t].camera \in listed \ loaded
           /\ call[t].op = "remove" => call[t].camera \notin listed
           /\ \A c, op, pcs : Announcing(op, c, pcs) =>
                 Announcing(op, c, pcs)' \/ (op = call[t].op /\ c = call[t].camera)
           /\ \A pcs : to \in pcs => \A c \in {call[t].camera}, op \in {call[t].op} : Announcing(op, c, pcs)'
<1>1. /\ call[t].pc = from /\ call[t].op \in {"add", "remove"} /\ Up /\ t \in Poster
      /\ Thread \subseteq Poster /\ Idle.op = "none" /\ Idle.pc = "idle"
  BY IdleIsACall DEF At, Poster
<1>2. /\ call' \in [Poster -> Call]
      /\ call'[t].pc = to /\ call'[t].op = call[t].op /\ call'[t].camera = call[t].camera
      /\ \A q \in Poster \ {t} : call'[q] = call[q]
  BY <1>1, GotoCalls DEF IndInv, TypeOK, Place
<1>3. call[t].camera \in created
  BY <1>1 DEF IndInv, CallsAreTyped
<1>4. /\ CallsAreTyped' /\ EmptyIsEdited' /\ WorkerHasPoster' /\ EachWaiterHasOneTask'
      /\ OnlyEditedCamerasAreFatal'
  BY <1>1, <1>2, <1>3, EditKeeps
<1>5. OnlyCreated' /\ AddIsNew'
  BY <1>1, <1>2 DEF IndInv, OnlyCreated, AddIsNew
<1>6. \A d : Numbered(d)' <=> Numbered(d)
  BY <1>1, <1>2 DEF Numbered
<1>7. RemoveIsFinal'
  BY <1>1, <1>2, <1>6 DEF IndInv, RemoveIsFinal
<1>8. /\ call[t].op = "add" => call[t].camera \in listed \ loaded
      /\ call[t].op = "remove" => call[t].camera \notin listed
  BY <1>1 DEF IndInv, AddIsNew, RemoveIsFinal
<1>9. \A c, op, pcs : Announcing(op, c, pcs) =>
          Announcing(op, c, pcs)' \/ (op = call[t].op /\ c = call[t].camera)
  BY <1>1, <1>2 DEF Announcing
<1>10. \A pcs : to \in pcs => \A c \in {call[t].camera}, op \in {call[t].op} : Announcing(op, c, pcs)'
  BY <1>2 DEF Announcing
<1> QED
  BY <1>2, <1>3, <1>4, <1>5, <1>7, <1>8, <1>9, <1>10 DEF IndInv, TypeOK

\* ReplicasMatchModel about one camera in the next state, with what a signal does not change.
LEMMA MatchNext ==
    ASSUME UNCHANGED listed,
           \A c \in Camera :
              /\ c \in listed =>
                  /\ KeysOf(c) \cap devices' # {} \/ Announcing("add", c, {"signal"})'
                  /\ KeysOf(c) \cap known' # {} \/ Announcing("add", c, {"signal", "records"})'
                  /\ c \in rows' \/ Announcing("add", c, {"signal", "records", "table"})'
              /\ c \notin listed =>
                  /\ KeysOf(c) \cap devices' = {} \/ Announcing("remove", c, {"signal"})'
                  /\ c \notin rows' \/ Announcing("remove", c, {"signal", "records", "table"})'
    PROVE  ReplicasMatchModel'
BY DEF ReplicasMatchModel, KeysOf

\* CamerasContext is told.
LEMMA ToReplicaKeeps ==
    ASSUME IndInv, NEW t \in Thread, ToReplica(t)
    PROVE  IndInv'
<1>1. /\ CallsAreTyped' /\ EmptyIsEdited' /\ WorkerHasPoster' /\ EachWaiterHasOneTask'
      /\ OnlyEditedCamerasAreFatal' /\ OnlyCreated' /\ AddIsNew' /\ RemoveIsFinal'
      /\ call' \in [Poster -> Call] /\ call[t].camera \in Camera
      /\ call[t].op = "add" => call[t].camera \in listed \ loaded
      /\ call[t].op = "remove" => call[t].camera \notin listed
  BY SignalGoesOn DEF ToReplica
<1>2. /\ \A c, op, pcs : Announcing(op, c, pcs) =>
             Announcing(op, c, pcs)' \/ (op = call[t].op /\ c = call[t].camera)
      /\ \A pcs : "records" \in pcs =>
             \A c \in {call[t].camera}, op \in {call[t].op} : Announcing(op, c, pcs)'
  BY SignalGoesOn DEF ToReplica
<1>3. KeyOf(call[t].camera) \in KeysOf(call[t].camera) /\ KeysOf(call[t].camera) \subseteq Key
  BY <1>1 DEF KeyOf, KeysOf, Key, Hash, Filing
<1>4. call[t].op \in {"add", "remove"} /\ UNCHANGED <<listed, loaded, known, rows>>
  BY DEF ToReplica, At
<1>5. devices' = IF call[t].op = "add" THEN devices \cup {KeyOf(call[t].camera)}
                                       ELSE devices \ KeysOf(call[t].camera)
  BY DEF ToReplica
<1>6. TypeOK'
  BY <1>1, <1>3, <1>5 DEF ToReplica, IndInv, TypeOK
<1>7. \A c \in Camera, d \in Camera : c # d => KeysOf(c) \cap KeysOf(d) = {}
  BY DEF KeysOf
<1>8. LoadedIsFiled'
  <2> SUFFICES ASSUME NEW c \in loaded \cap listed
               PROVE  <<c, "byId">> \in devices'
    BY <1>4 DEF LoadedIsFiled
  <2>1. <<c, "byId">> \in devices /\ c \in Camera
    BY DEF IndInv, LoadedIsFiled, TypeOK
  <2>2. call[t].op = "remove" => <<c, "byId">> \notin KeysOf(call[t].camera)
    BY <1>1 DEF KeysOf
  <2> QED
    BY <2>1, <2>2, <1>4, <1>5
<1>9. ReplicasMatchModel'
  <2> SUFFICES ASSUME NEW c \in Camera
               PROVE  /\ c \in listed =>
                           /\ KeysOf(c) \cap devices' # {} \/ Announcing("add", c, {"signal"})'
                           /\ KeysOf(c) \cap known # {} \/ Announcing("add", c, {"signal", "records"})'
                           /\ c \in rows \/ Announcing("add", c, {"signal", "records", "table"})'
                      /\ c \notin listed =>
                           /\ KeysOf(c) \cap devices' = {} \/ Announcing("remove", c, {"signal"})'
                           /\ c \notin rows \/ Announcing("remove", c, {"signal", "records", "table"})'
    BY <1>4, MatchNext
  <2>1. CASE c # call[t].camera
    <3>1. KeysOf(c) \cap devices' = KeysOf(c) \cap devices
      BY <2>1, <1>1, <1>3, <1>5, <1>7
    <3> QED
      BY <2>1, <3>1, <1>2 DEF IndInv, ReplicasMatchModel
  <2>2. CASE c = call[t].camera /\ call[t].op = "add"
    <3>1. KeysOf(c) \cap devices' # {}
      BY <2>2, <1>3, <1>5
    <3>2. Announcing("add", c, {"signal", "records"})' /\ Announcing("add", c, {"signal", "records", "table"})'
      BY <2>2, <1>2
    <3> QED
      BY <2>2, <3>1, <3>2, <1>1
  <2>3. CASE c = call[t].camera /\ call[t].op = "remove"
    <3>1. KeysOf(c) \cap devices' = {}
      BY <2>3, <1>5
    <3>2. Announcing("remove", c, {"signal", "records", "table"})'
      BY <2>3, <1>2
    <3> QED
      BY <2>3, <3>1, <3>2, <1>1
  <2> QED
    BY <2>1, <2>2, <2>3, <1>4
<1> QED
  BY <1>1, <1>6, <1>8, <1>9 DEF IndInv

\* IdleActionProcessor is told.
LEMMA ToRecordsKeeps ==
    ASSUME IndInv, NEW t \in Thread, ToRecords(t)
    PROVE  IndInv'
<1>1. /\ CallsAreTyped' /\ EmptyIsEdited' /\ WorkerHasPoster' /\ EachWaiterHasOneTask'
      /\ OnlyEditedCamerasAreFatal' /\ OnlyCreated' /\ AddIsNew' /\ RemoveIsFinal'
      /\ call' \in [Poster -> Call] /\ call[t].camera \in Camera
      /\ call[t].op = "add" => call[t].camera \in listed \ loaded
      /\ call[t].op = "remove" => call[t].camera \notin listed
  BY SignalGoesOn DEF ToRecords
<1>2. /\ \A c, op, pcs : Announcing(op, c, pcs) =>
             Announcing(op, c, pcs)' \/ (op = call[t].op /\ c = call[t].camera)
      /\ \A pcs : "table" \in pcs =>
             \A c \in {call[t].camera}, op \in {call[t].op} : Announcing(op, c, pcs)'
  BY SignalGoesOn DEF ToRecords
<1>3. KeyOf(call[t].camera) \in KeysOf(call[t].camera) /\ KeysOf(call[t].camera) \subseteq Key
  BY <1>1 DEF KeyOf, KeysOf, Key, Hash, Filing
<1>4. /\ call[t].op \in {"add", "remove"} /\ call[t].pc = "records"
      /\ UNCHANGED <<listed, loaded, devices, rows>>
  BY DEF ToRecords, At
<1>5. \/ call[t].op = "add" /\ known' = known \cup {KeyOf(call[t].camera)}
      \/ call[t].op = "remove" /\ \E k \in KeysOf(call[t].camera) : known' = known \ {k}
      \/ call[t].op = "remove" /\ known' = known
  BY DEF ToRecords
<1>6. TypeOK'
  BY <1>1, <1>3, <1>5 DEF ToRecords, IndInv, TypeOK
<1>7. \A c \in Camera, d \in Camera : c # d => KeysOf(c) \cap KeysOf(d) = {}
  BY DEF KeysOf
<1>8. LoadedIsFiled'
  BY <1>4 DEF IndInv, LoadedIsFiled
<1>9. ReplicasMatchModel'
  <2> SUFFICES ASSUME NEW c \in Camera
               PROVE  /\ c \in listed =>
                           /\ KeysOf(c) \cap devices # {} \/ Announcing("add", c, {"signal"})'
                           /\ KeysOf(c) \cap known' # {} \/ Announcing("add", c, {"signal", "records"})'
                           /\ c \in rows \/ Announcing("add", c, {"signal", "records", "table"})'
                      /\ c \notin listed =>
                           /\ KeysOf(c) \cap devices = {} \/ Announcing("remove", c, {"signal"})'
                           /\ c \notin rows \/ Announcing("remove", c, {"signal", "records", "table"})'
    BY <1>4, MatchNext
  <2>1. ASSUME NEW op \in {"add", "remove"}, Announcing(op, c, {"signal"})
        PROVE  Announcing(op, c, {"signal"})'
    <3>1. PICK u \in Thread : call[u].op = op /\ call[u].camera = c /\ call[u].pc = "signal"
      BY <2>1 DEF Announcing
    <3>2. u # t /\ u \in Poster /\ call'[u] = call[u]
      BY <3>1, <1>4 DEF ToRecords, Goto, IndInv, TypeOK, Poster
    <3> QED
      BY <3>1, <3>2 DEF Announcing
  <2>2. CASE c # call[t].camera
    <3>1. KeysOf(c) \cap known' = KeysOf(c) \cap known
      BY <2>2, <1>1, <1>3, <1>5, <1>7
    <3> QED
      BY <2>2, <3>1, <1>2 DEF IndInv, ReplicasMatchModel
  <2>3. CASE c = call[t].camera /\ call[t].op = "add"
    <3>1. KeysOf(c) \cap known' # {}
      BY <2>3, <1>3, <1>5
    <3>2. Announcing("add", c, {"signal", "records", "table"})'
      BY <2>3, <1>2
    <3> QED
      BY <2>3, <2>1, <3>1, <3>2, <1>1 DEF IndInv, ReplicasMatchModel
  <2>4. CASE c = call[t].camera /\ call[t].op = "remove"
    <3>1. Announcing("remove", c, {"signal", "records", "table"})'
      BY <2>4, <1>2
    <3> QED
      BY <2>4, <2>1, <3>1, <1>1 DEF IndInv, ReplicasMatchModel
  <2> QED
    BY <2>2, <2>3, <2>4, <1>4
<1> QED
  BY <1>1, <1>6, <1>8, <1>9 DEF IndInv

\* DBSubscriber is told, and the signal has reached everyone.
LEMMA ToTableKeeps ==
    ASSUME IndInv, NEW t \in Thread, ToTable(t)
    PROVE  IndInv'
<1>1. /\ call[t].pc = "table" /\ call[t].op \in {"add", "remove"} /\ Up /\ t \in Poster
      /\ Thread \subseteq Poster /\ Idle.op = "none" /\ Idle.pc = "idle"
      /\ UNCHANGED <<down, listed, loaded, created, devices, known, pool, worker, boots>>
  BY IdleIsACall DEF ToTable, At, Poster
<1>2. /\ call' \in [Poster -> Call] /\ call'[t] = Idle
      /\ \A q \in Poster \ {t} : call'[q] = call[q]
  BY <1>1, ReturnCalls DEF ToTable, IndInv, TypeOK
<1>3. /\ call[t].camera \in created /\ call[t].camera \in Camera
      /\ call[t].op = "add" => call[t].camera \in listed
      /\ call[t].op = "remove" => call[t].camera \notin listed
  BY <1>1 DEF IndInv, TypeOK, CallsAreTyped, AddIsNew, RemoveIsFinal
<1>4. rows' = IF call[t].op = "add" THEN rows \cup {call[t].camera} ELSE rows \ {call[t].camera}
  BY DEF ToTable
<1>5. /\ CallsAreTyped' /\ EmptyIsEdited' /\ WorkerHasPoster' /\ EachWaiterHasOneTask'
      /\ OnlyEditedCamerasAreFatal'
  BY <1>1, <1>2, EditKeeps
<1>6. TypeOK' /\ OnlyCreated' /\ LoadedIsFiled'
  BY <1>1, <1>2, <1>3, <1>4 DEF IndInv, TypeOK, OnlyCreated, LoadedIsFiled
<1>7. AddIsNew'
  BY <1>1, <1>2 DEF IndInv, AddIsNew
<1>8. RemoveIsFinal'
  BY <1>1, <1>2 DEF IndInv, RemoveIsFinal, Numbered
<1>9. ReplicasMatchModel'
  <2> SUFFICES ASSUME NEW c \in Camera
               PROVE  /\ c \in listed =>
                           /\ KeysOf(c) \cap devices # {} \/ Announcing("add", c, {"signal"})'
                           /\ KeysOf(c) \cap known # {} \/ Announcing("add", c, {"signal", "records"})'
                           /\ c \in rows' \/ Announcing("add", c, {"signal", "records", "table"})'
                      /\ c \notin listed =>
                           /\ KeysOf(c) \cap devices = {} \/ Announcing("remove", c, {"signal"})'
                           /\ c \notin rows' \/ Announcing("remove", c, {"signal", "records", "table"})'
    BY <1>1, MatchNext
  <2>1. ASSUME NEW op \in {"add", "remove"}, NEW pcs \in {{"signal"}, {"signal", "records"}},
               Announcing(op, c, pcs)
        PROVE  Announcing(op, c, pcs)'
    BY <2>1, <1>1, <1>2 DEF Announcing
  <2>2. ASSUME NEW op \in {"add", "remove"}, NEW pcs, Announcing(op, c, pcs),
               c # call[t].camera \/ op # call[t].op
        PROVE  Announcing(op, c, pcs)'
    BY <2>2, <1>1, <1>2 DEF Announcing
  <2>3. CASE c # call[t].camera
    BY <2>1, <2>2, <2>3, <1>4 DEF IndInv, ReplicasMatchModel
  <2>4. CASE c = call[t].camera
    BY <2>1, <2>4, <1>1, <1>3, <1>4 DEF IndInv, ReplicasMatchModel
  <2> QED
    BY <2>3, <2>4
<1> QED
  BY <1>5, <1>6, <1>7, <1>8, <1>9 DEF IndInv

----------------------------------------------------------------------------
\* After a start the replica and the records are those of the table.
LEMMA RestartKeeps ==
    ASSUME IndInv, Restart
    PROVE  IndInv'
<1>1. /\ call' \in [Poster -> Call] /\ \A p \in Poster : call'[p] = Idle
      /\ Idle.op = "none" /\ Idle.pc = "idle" /\ Thread \subseteq Poster
  BY RestartCalls, IdleIsACall DEF Poster
<1>2. /\ down' = Nobody /\ listed' = rows /\ loaded' = rows /\ pool' = <<>> /\ worker' = Resting
      /\ devices' = KeysAtStart(rows) /\ known' = KeysAtStart(rows)
      /\ UNCHANGED <<created, rows>> /\ boots' \in 0 .. MaxBoots
  BY CamerasAssumption DEF Restart, IndInv, TypeOK
<1>3. KeysAtStart(rows) \subseteq Key /\ \A c \in rows : <<c, "byId">> \in KeysAtStart(rows) \cap KeysOf(c)
  BY DEF KeysAtStart, KeysOf, Key, Filing, IndInv, TypeOK
<1>4. Resting \in Worker /\ Resting.pc = "free"
  BY DEF Resting, Worker
<1>5. TypeOK'
  BY <1>1, <1>2, <1>3, <1>4 DEF IndInv, TypeOK
<1>6. OnlyCreated' /\ CallsAreTyped' /\ AddIsNew' /\ RemoveIsFinal' /\ EmptyIsEdited'
  BY <1>1, <1>2 DEF IndInv, OnlyCreated, CallsAreTyped, AddIsNew, RemoveIsFinal, EmptyIsEdited
<1>7. LoadedIsFiled' /\ WorkerHasPoster'
  BY <1>2, <1>3, <1>4 DEF LoadedIsFiled, WorkerHasPoster
<1>8. OnlyEditedCamerasAreFatal'
  BY <1>2, CamerasAssumption DEF OnlyEditedCamerasAreFatal, IndInv, TypeOK
<1>9. EachWaiterHasOneTask'
  BY <1>1, <1>2, <1>4 DEF EachWaiterHasOneTask, Waiting, Served
<1>10. ReplicasMatchModel'
  <2>1. \A c \in Camera : c \notin rows => KeysOf(c) \cap KeysAtStart(rows) = {}
    BY DEF KeysOf, KeysAtStart
  <2> QED
    BY <2>1, <1>2, <1>3 DEF ReplicasMatchModel, KeysOf
<1> QED
  BY <1>5, <1>6, <1>7, <1>8, <1>9, <1>10 DEF IndInv

\* So it is in the beginning.
LEMMA InitHolds ==
    ASSUME Init
    PROVE  IndInv
<1>1. /\ call = [t \in Poster |-> Idle] /\ Idle \in Call
      /\ Idle.op = "none" /\ Idle.pc = "idle" /\ Thread \subseteq Poster
  BY IdleIsACall DEF Init, Poster
<1>2. KeysAtStart(rows) \subseteq Key /\ \A c \in rows : <<c, "byId">> \in KeysAtStart(rows) \cap KeysOf(c)
  BY DEF KeysAtStart, KeysOf, Key, Filing, Init
<1>3. Resting \in Worker /\ Resting.pc = "free"
  BY DEF Resting, Worker
<1>4. TypeOK
  BY <1>1, <1>2, <1>3, CamerasAssumption DEF Init, TypeOK
<1>5. OnlyCreated /\ CallsAreTyped /\ AddIsNew /\ RemoveIsFinal /\ EmptyIsEdited
  BY <1>1 DEF Init, OnlyCreated, CallsAreTyped, AddIsNew, RemoveIsFinal, EmptyIsEdited
<1>6. LoadedIsFiled /\ WorkerHasPoster
  BY <1>2, <1>3 DEF Init, LoadedIsFiled, WorkerHasPoster
<1>7. OnlyEditedCamerasAreFatal
  BY CamerasAssumption DEF OnlyEditedCamerasAreFatal, Init
<1>8. EachWaiterHasOneTask
  BY <1>1, <1>3 DEF Init, EachWaiterHasOneTask, Waiting, Served
<1>9. ReplicasMatchModel
  <2>1. \A c \in Camera : c \notin rows => KeysOf(c) \cap KeysAtStart(rows) = {}
    BY DEF KeysOf, KeysAtStart
  <2> QED
    BY <2>1, <1>2 DEF Init, ReplicasMatchModel
<1> QED
  BY <1>4, <1>5, <1>6, <1>7, <1>8, <1>9 DEF IndInv

\* A camera that the loop fails on is not one of the last start.
LEMMA LoopFailKeeps ==
    ASSUME IndInv, NEW c \in Camera, LoopFail(c)
    PROVE  IndInv'
<1>1. /\ down' = c /\ c \notin loaded \cap listed
      /\ UNCHANGED <<listed, loaded, created, devices, known, rows, pool, worker, call, boots>>
  BY DEF LoopFail
<1>2. TypeOK' /\ OnlyCreated' /\ CallsAreTyped' /\ AddIsNew' /\ LoadedIsFiled' /\ EmptyIsEdited'
  BY <1>1 DEF IndInv, TypeOK, OnlyCreated, CallsAreTyped, AddIsNew, LoadedIsFiled, EmptyIsEdited
<1>3. RemoveIsFinal' /\ WorkerHasPoster' /\ EachWaiterHasOneTask' /\ OnlyEditedCamerasAreFatal'
  BY <1>1 DEF IndInv, RemoveIsFinal, Numbered, WorkerHasPoster, EachWaiterHasOneTask, Waiting,
              Served, OnlyEditedCamerasAreFatal
<1>4. ReplicasMatchModel'
  BY <1>1 DEF IndInv, ReplicasMatchModel, KeysOf, Announcing
<1> QED
  BY <1>2, <1>3, <1>4 DEF IndInv

\* A step that changes nothing keeps the invariant.
LEMMA Stutters ==
    ASSUME IndInv, UNCHANGED vars
    PROVE  IndInv'
<1>1. TypeOK' /\ OnlyCreated' /\ CallsAreTyped' /\ AddIsNew' /\ LoadedIsFiled' /\ EmptyIsEdited'
  BY DEF vars, IndInv, TypeOK, OnlyCreated, CallsAreTyped, AddIsNew, LoadedIsFiled, EmptyIsEdited
<1>2. RemoveIsFinal' /\ WorkerHasPoster' /\ EachWaiterHasOneTask' /\ OnlyEditedCamerasAreFatal'
  BY DEF vars, IndInv, RemoveIsFinal, Numbered, WorkerHasPoster, EachWaiterHasOneTask, Waiting,
         Served, OnlyEditedCamerasAreFatal
<1>3. ReplicasMatchModel'
  BY DEF vars, IndInv, ReplicasMatchModel, KeysOf, Announcing
<1> QED
  BY <1>1, <1>2, <1>3 DEF IndInv

\* Every step of every actor keeps the invariant.
LEMMA StepKeeps ==
    ASSUME IndInv, [Next]_vars
    PROVE  IndInv'
<1>1. ASSUME NEW t \in Thread, NEW c \in Camera, Command(t, c)
      PROVE  IndInv'
  <2>1. Request(t, c, "move") \/ Request(t, c, "ask")
    BY <1>1 DEF Command, RelativeMoveSc, ContinuousMoveSc, AbsoluteMoveSc, GoToPresetSc, GoToHomeSc,
                StopSc, GetPresetsSc, ChangePresetSc, AddPresetSc, RemovePresetSc, SetHomeSc,
                GetStatusSc, GetCapabilitiesSc, GetNodesSc, CameraRebootSc, GetDeviceInformationSc,
                GetMediaProfilesSc, GetStreamUriSc, StartMulticastSc, StopMulticastSc
  <2> QED
    BY <2>1, RequestKeeps
<1>2. ASSUME NEW t \in Thread, NEW c \in Camera, AddCamera(t, c) \/ BeginRemove(t, c)
      PROVE  IndInv'
  BY <1>2, AddCameraKeeps, BeginRemoveKeeps
<1>3. ASSUME NEW t \in Thread, RemoveCamera(t)
      PROVE  IndInv'
  BY <1>3, RemoveCameraKeeps
<1>4. ASSUME NEW t \in Thread, Deliver(t)
      PROVE  IndInv'
  BY <1>4, ToReplicaKeeps, ToRecordsKeeps, ToTableKeeps DEF Deliver
<1>5. ASSUME NEW t \in Thread, Post(t) \/ Answer(t)
      PROVE  IndInv'
  BY <1>5, PostKeeps, AnswerKeeps
<1>6. ASSUME NEW c \in Camera, LoopPost(c) \/ LoopFail(c)
      PROVE  IndInv'
  BY <1>6, LoopPostKeeps, LoopFailKeeps
<1>7. CASE LoopMark
  BY <1>7, LoopMarkKeeps
<1>8. CASE Work
  BY <1>8, TakingKeeps, FindKeeps, InteractKeeps, RecordKeeps DEF Work
<1>9. CASE Restart
  BY <1>9, RestartKeeps
<1>10. CASE UNCHANGED vars
  BY <1>10, Stutters
<1> QED
  BY <1>1, <1>2, <1>3, <1>4, <1>5, <1>6, <1>7, <1>8, <1>9, <1>10 DEF Next, Step

\* So it always holds.
THEOREM Inductive == Spec => []IndInv
<1>1. Init => IndInv
  BY InitHolds
<1>2. IndInv /\ [Next]_vars => IndInv'
  BY StepKeeps
<1> QED
  BY <1>1, <1>2, PTL DEF Spec

----------------------------------------------------------------------------
(* The theorems.                                                           *)

\* Every variable keeps its type, whatever is queued, running or under way.
THEOREM TypeCorrect == Spec => []TypeOK
<1>1. IndInv => TypeOK
  BY DEF IndInv
<1> QED
  BY <1>1, Inductive, PTL

\* The replica, the records and the table agree with the model up to the signals under way.
THEOREM ReplicasFollow == Spec => []ReplicasMatchModel
<1>1. IndInv => ReplicasMatchModel
  BY DEF IndInv
<1> QED
  BY <1>1, Inductive, PTL

\* A camera of the last start that nobody removed cannot end the process: its key is found
\* by its id (LoadedIsFiled) and its record exists.
THEOREM StartedCamerasAreSafe == Spec => []OnlyEditedCamerasAreFatal
<1>1. IndInv => OnlyEditedCamerasAreFatal
  BY DEF IndInv
<1> QED
  BY <1>1, Inductive, PTL

\* The tasks of the pool are those that somebody waits for, one each.
THEOREM TasksAreAwaited == Spec => []EachWaiterHasOneTask
<1>1. IndInv => EachWaiterHasOneTask
  BY DEF IndInv
<1> QED
  BY <1>1, Inductive, PTL

----------------------------------------------------------------------------
(* The loop and the frames: types.                                         *)

\* Become changes frames of the copy into frames.
LEMMA BecomeTyped ==
    ASSUME copies \subseteq Key \X Frame, NEW k \in Key, NEW from, NEW to \in Last
    PROVE  Become(k, from, to) \subseteq Key \X Frame
<1> SUFFICES ASSUME NEW e \in copies
             PROVE  (IF e[1] = k /\ e[2].last \in from THEN <<k, [e[2] EXCEPT !.last = to]>> ELSE e)
                        \in Key \X Frame
  BY DEF Become
<1>1. e \in Key \X Frame /\ e[2] \in Frame
  OBVIOUS
<1>2. [e[2] EXCEPT !.last = to] \in Frame
  BY <1>1 DEF Frame
<1> QED
  BY <1>1, <1>2

\* The variables of the loop keep their types.
LEMMA IdleTypes ==
    ASSUME TypeOK, IdleTypeOK, IdleNext
    PROVE  frame' \in [Key -> Frame] /\ copies' \subseteq Key \X Frame
<1>1. /\ frame \in [Key -> Frame] /\ copies \subseteq Key \X Frame
      /\ known \subseteq Key
  BY DEF IdleTypeOK, TypeOK
<1>2. NewFrame \in Frame /\ FillCamerasActions \in [Key -> Frame]
  BY DEF NewFrame, Frame, Last, FillCamerasActions
<1>3. ASSUME UNCHANGED idleVars
      PROVE  frame' \in [Key -> Frame] /\ copies' \subseteq Key \X Frame
  BY <1>1, <1>3 DEF idleVars
<1>4. ASSUME NEW t \in Thread, UpdateFrames(t)
      PROVE  frame' \in [Key -> Frame] /\ copies' \subseteq Key \X Frame
  BY <1>1, <1>2, <1>4 DEF UpdateFrames
<1>5. CASE RecordMove
  <2>1. CASE UNCHANGED idleVars
    BY <1>1, <1>5, <2>1 DEF RecordMove, idleVars
  <2>2. ASSUME NEW k \in KeysOf(Target) \cap known,
               frame' = [frame EXCEPT ![k].in_idle = FALSE,
                                      ![k].last = IF @ = "never" THEN @ ELSE "fresh"],
               copies' = Become(k, {"fresh"}, "older")
        PROVE  frame' \in [Key -> Frame] /\ copies' \subseteq Key \X Frame
    <3>1. k \in Key /\ frame[k] \in Frame
      BY <1>1
    <3>2. [in_idle |-> FALSE, last |-> IF frame[k].last = "never" THEN frame[k].last ELSE "fresh"] \in Frame
      BY <3>1 DEF Frame, Last
    <3>3. frame' \in [Key -> Frame]
      BY <1>1, <2>2, <3>1, <3>2 DEF Frame
    <3> QED
      BY <1>1, <2>2, <3>1, <3>3, BecomeTyped DEF Last
  <2> QED
    BY <1>1, <1>5, <2>1, <2>2 DEF RecordMove
<1>6. ASSUME NEW k \in Key, Age(k) \/ AgeCopy(k)
      PROVE  frame' \in [Key -> Frame] /\ copies' \subseteq Key \X Frame
  <2>1. [frame[k] EXCEPT !.last = "stale"] \in Frame
    BY <1>1 DEF Frame, Last
  <2> QED
    BY <1>1, <1>6, <2>1, BecomeTyped DEF Age, AgeCopy, Last
<1>7. CASE LoopStep
  <2>1. CASE Copy
    BY <1>1, <2>1 DEF Copy
  <2>2. ASSUME NEW e \in copies, Skip(e) \/ Send(e) \/ Dereference(e)
        PROVE  frame' \in [Key -> Frame] /\ copies' \subseteq Key \X Frame
    BY <1>1, <2>2 DEF Skip, Send, Dereference, idleVars
  <2>3. CASE Mark
    <3>1. PICK k : frame' = [frame EXCEPT ![k] = IF k \in known THEN [frame[k] EXCEPT !.in_idle = TRUE]
                                                 ELSE [in_idle |-> TRUE, last |-> "never"]]
      BY <2>3 DEF Mark
    <3>2. [in_idle |-> TRUE, last |-> "never"] \in Frame
      BY DEF Frame, Last
    <3>3. k \in known => [frame[k] EXCEPT !.in_idle = TRUE] \in Frame
      BY <1>1 DEF Frame
    <3> QED
      BY <1>1, <2>3, <3>1, <3>2, <3>3 DEF Mark
  <2> QED
    BY <1>7, <2>1, <2>2, <2>3 DEF LoopStep
<1>8. CASE RestartLoop
  BY <1>1, <1>2, <1>8 DEF RestartLoop
<1> QED
  BY <1>3, <1>4, <1>5, <1>6, <1>7, <1>8 DEF IdleNext, HandlerStep, NewRequest, PoolStep

----------------------------------------------------------------------------
(* Steps of IdleActions are steps of Cameras.                              *)

\* A frame that [] made is not that of a lasting camera, and neither is a copy of it.
NeverIsEdited ==
    /\ \A k \in Key : frame[k].last = "never" => k[1] \notin Lasting
    /\ \A e \in copies : e[2].last = "never" => e[1][1] \notin Lasting

\* Whatever the loop and the frames do, the variables of Cameras take a step of Cameras.
LEMMA StepIsAStep ==
    ASSUME IdleTypeOK, NeverIsEdited, [IdleNext]_allVars
    PROVE  [Next]_vars
<1>1. CASE UNCHANGED allVars
  BY <1>1 DEF allVars
<1>2. ASSUME NEW t \in Thread, HandlerStep(t)
      PROVE  Next
  BY <1>2 DEF HandlerStep, UpdateFrames, Next, Step, Deliver
<1>3. ASSUME NEW t \in Thread, NEW c \in Camera, NewRequest(t, c)
      PROVE  Next
  BY <1>3 DEF NewRequest, Next
<1>4. CASE PoolStep
  BY <1>4 DEF PoolStep, RecordMove, Next, Work
<1>5. CASE LoopStep
  <2>1. ASSUME NEW e \in copies, Send(e)
        PROVE  Next
    <3>1. e[1][1] \in Camera
      BY DEF IdleTypeOK, Key
    <3> QED
      BY <2>1, <3>1 DEF Send, Next
  <2>2. ASSUME NEW e \in copies, Skip(e)
        PROVE  UNCHANGED vars
    BY <2>2 DEF Skip
  <2>3. CASE Copy
    BY <2>3 DEF Copy
  <2>4. CASE Mark
    BY <2>4 DEF Mark, Next
  <2>5. ASSUME NEW e \in copies, Dereference(e)
        PROVE  Next
    <3>1. e[1][1] \in Camera
      BY DEF IdleTypeOK, Key
    <3>2. LoopFail(e[1][1])
      BY <2>5 DEF Dereference, HasNoLast, LoopFail, NeverIsEdited, Lasting
    <3> QED
      BY <3>1, <3>2 DEF Next
  <2> QED
    BY <1>5, <2>1, <2>2, <2>3, <2>4, <2>5 DEF LoopStep
<1>6. ASSUME NEW k \in Key, Age(k) \/ AgeCopy(k)
      PROVE  UNCHANGED vars
  BY <1>6 DEF Age, AgeCopy
<1>7. CASE RestartLoop
  BY <1>7 DEF RestartLoop, Next
<1> QED
  BY <1>1, <1>2, <1>3, <1>4, <1>5, <1>6, <1>7 DEF IdleNext

----------------------------------------------------------------------------
(* The frames of lasting cameras.                                          *)

\* The keys of a lasting camera are filed by its id: it was numbered before the start.
LEMMA LastingIsNumbered ==
    ASSUME IndInv, NEW c \in Lasting
    PROVE  KeyOf(c) = <<c, "byId">> /\ c \in Camera
BY DEF IndInv, TypeOK, AddIsNew, Lasting, KeyOf, Hash, Numbered

\* The few steps of module Cameras that change what is loaded, listed or recorded.
LEMMA RecordingSteps ==
    ASSUME [Next]_vars
    PROVE  \/ Restart
           \/ \E t \in Thread, c \in Camera : AddCamera(t, c)
           \/ \E t \in Thread : RemoveCamera(t) \/ ToRecords(t)
           \/ LoopMark
           \/ UNCHANGED <<loaded, listed, known>>
<1>1. ASSUME NEW t \in Thread, NEW c \in Camera, Command(t, c)
      PROVE  UNCHANGED <<loaded, listed, known>>
  BY <1>1 DEF Command, Request, RelativeMoveSc, ContinuousMoveSc, AbsoluteMoveSc, GoToPresetSc,
              GoToHomeSc, StopSc, GetPresetsSc, ChangePresetSc, AddPresetSc, RemovePresetSc, SetHomeSc,
              GetStatusSc, GetCapabilitiesSc, GetNodesSc, CameraRebootSc, GetDeviceInformationSc,
              GetMediaProfilesSc, GetStreamUriSc, StartMulticastSc, StopMulticastSc
<1>2. ASSUME NEW t \in Thread, NEW c \in Camera, BeginRemove(t, c)
      PROVE  UNCHANGED <<loaded, listed, known>>
  BY <1>2 DEF BeginRemove
<1>3. ASSUME NEW t \in Thread, ToReplica(t) \/ ToTable(t) \/ Post(t) \/ Answer(t)
      PROVE  UNCHANGED <<loaded, listed, known>>
  BY <1>3 DEF ToReplica, ToTable, Post, Answer
<1>4. ASSUME NEW c \in Camera, LoopPost(c) \/ LoopFail(c)
      PROVE  UNCHANGED <<loaded, listed, known>>
  BY <1>4 DEF LoopPost, LoopFail
<1>5. CASE Work
  BY <1>5 DEF Work, Take, Find, Interact, Record
<1>6. CASE UNCHANGED vars
  BY <1>6 DEF vars
<1> QED
  BY <1>1, <1>2, <1>3, <1>4, <1>5, <1>6 DEF Next, Step, Deliver

\* A step of module Cameras leaves a lasting camera its one frame.
LEMMA LastingRecords ==
    ASSUME IndInv, IndInv', [Next]_vars, OneFramePerCamera
    PROVE  OneFramePerCamera'
<1> SUFFICES ASSUME NEW c \in Lasting'
             PROVE  (KeysOf(c) \cap known = {KeyOf(c)})'
  BY DEF OneFramePerCamera
<1> DEFINE k == <<c, "byId">>
<1>1. KeyOf(c)' = k /\ c \in Camera
  BY DEF IndInv, TypeOK, AddIsNew, Lasting, KeyOf, Hash, Numbered
<1>2. KeysOf(c)' = KeysOf(c) /\ \A x \in KeysOf(c) : x[1] = c
  BY DEF KeysOf
<1>3. CASE Restart
  <2>1. loaded' = rows /\ known' = rows \X {"byId"}
    BY <1>3 DEF Restart, KeysAtStart
  <2>2. c \in rows
    BY <2>1 DEF Lasting
  <2> QED
    BY <2>1, <2>2, <1>1 DEF KeysOf, Filing
<1>4. CASE ~ Restart
  <2>1. loaded' = loaded /\ listed' \cap loaded \subseteq listed
    BY <1>4, RecordingSteps DEF AddCamera, RemoveCamera, ToRecords, LoopMark, IndInv, OnlyCreated
  <2>2. c \in Lasting
    BY <2>1 DEF Lasting
  <2>3. KeysOf(c) \cap known = {k}
    BY <2>2, LastingIsNumbered DEF OneFramePerCamera
  <2>4. CASE \E t \in Thread : ToRecords(t)
    <3>1. PICK t \in Thread : ToRecords(t)
      BY <2>4
    <3>2. call[t].camera # c
      BY <3>1, <2>2 DEF ToRecords, At, IndInv, AddIsNew, RemoveIsFinal, Lasting
    <3>3. KeysOf(c) \cap known' = KeysOf(c) \cap known
      BY <3>1, <3>2 DEF ToRecords, KeysOf, KeyOf
    <3> QED
      BY <3>3, <2>3, <1>1, <1>2
  <2>5. CASE LoopMark
    <3>1. known' = known \cup {KeyOf(call[Loop].camera)}
      BY <2>5 DEF LoopMark
    <3>2. KeyOf(call[Loop].camera) \in KeysOf(c) => KeyOf(call[Loop].camera) = k
      BY <2>2, LastingIsNumbered DEF KeyOf, KeysOf
    <3> QED
      BY <3>1, <3>2, <2>3, <1>1, <1>2
  <2>6. CASE UNCHANGED known
    BY <2>6, <2>3, <1>1, <1>2
  <2> QED
    BY <1>4, <2>4, <2>5, <2>6, RecordingSteps DEF AddCamera, RemoveCamera
<1> QED
  BY <1>3, <1>4

\* A lasting camera was one before, unless the process has just started.
LEMMA LastingWasLasting ==
    ASSUME IndInv, [Next]_vars, ~ Restart
    PROVE  Lasting' \subseteq Lasting
BY RecordingSteps DEF AddCamera, RemoveCamera, ToRecords, LoopMark, IndInv, OnlyCreated, Lasting

\* Become makes no frame one that [] made.
LEMMA BecomeNever ==
    ASSUME copies \subseteq Key \X Frame, NEW k \in Key, NEW from, NEW to \in Last \ {"never"},
           NEW e \in Become(k, from, to), e[2].last = "never"
    PROVE  e \in copies
<1>1. PICK d \in copies :
          e = IF d[1] = k /\ d[2].last \in from THEN <<k, [d[2] EXCEPT !.last = to]>> ELSE d
  BY DEF Become
<1>2. [d[2] EXCEPT !.last = to].last = to
  BY DEF Frame
<1> QED
  BY <1>1, <1>2

\* Only Mark makes a frame without room, and not that of a lasting camera, which has its own.
LEMMA NeverStays ==
    ASSUME IndInv, IdleTypeOK, OneFramePerCamera, NeverIsEdited, [Next]_vars, [IdleNext]_allVars
    PROVE  NeverIsEdited'
<1>1. frame \in [Key -> Frame] /\ copies \subseteq Key \X Frame
  BY DEF IdleTypeOK
<1>2. CASE Restart /\ frame' = FillCamerasActions /\ copies' = {}
  BY <1>2 DEF FillCamerasActions, NewFrame, NeverIsEdited
<1>3. ASSUME ~ Restart,
             \A k \in Key : frame'[k].last = "never" => frame[k].last = "never" \/ k[1] \notin Lasting,
             \A e \in copies' : e[2].last = "never" => e[1][1] \notin Lasting
      PROVE  NeverIsEdited'
  BY <1>3, LastingWasLasting DEF NeverIsEdited
<1>4. ASSUME ~ Restart, UNCHANGED idleVars
      PROVE  NeverIsEdited'
  BY <1>3, <1>4 DEF idleVars, NeverIsEdited
<1>5. Restart => boots' # boots
  BY DEF Restart, IndInv, TypeOK
<1>6. ASSUME NEW t \in Thread, HandlerStep(t)
      PROVE  NeverIsEdited'
  <2>1. ~ Restart
    BY <1>5, <1>6 DEF HandlerStep, UpdateFrames, ToRecords, RemoveCamera, ToReplica, ToTable, Post, Answer
  <2>2. CASE UpdateFrames(t)
    BY <1>1, <1>3, <2>1, <2>2 DEF UpdateFrames, NewFrame, NeverIsEdited
  <2> QED
    BY <1>4, <1>6, <2>1, <2>2 DEF HandlerStep
<1>7. ASSUME NEW t \in Thread, NEW c \in Camera, NewRequest(t, c)
      PROVE  NeverIsEdited'
  <2>1. ~ Restart
    BY <1>5, <1>7 DEF NewRequest, AddCamera, BeginRemove, Command, Request, RelativeMoveSc,
              ContinuousMoveSc, AbsoluteMoveSc, GoToPresetSc,
              GoToHomeSc, StopSc, GetPresetsSc, ChangePresetSc, AddPresetSc, RemovePresetSc, SetHomeSc,
              GetStatusSc, GetCapabilitiesSc, GetNodesSc, CameraRebootSc, GetDeviceInformationSc,
              GetMediaProfilesSc, GetStreamUriSc, StartMulticastSc, StopMulticastSc
  <2> QED
    BY <1>4, <1>7, <2>1 DEF NewRequest
<1>8. CASE PoolStep
  <2>1. ~ Restart
    BY <1>5, <1>8 DEF PoolStep, RecordMove, Take, Find, Interact, Record
  <2>2. ASSUME NEW k \in KeysOf(Target) \cap known,
               frame' = [frame EXCEPT ![k].in_idle = FALSE,
                                      ![k].last = IF @ = "never" THEN @ ELSE "fresh"],
               copies' = Become(k, {"fresh"}, "older")
        PROVE  NeverIsEdited'
    <3>1. k \in Key
      BY <2>2 DEF IndInv, TypeOK
    <3>2. \A x \in Key : frame'[x].last = "never" => frame[x].last = "never"
      BY <1>1, <2>2, <3>1 DEF Frame
    <3>3. \A e \in copies' : e[2].last = "never" => e \in copies
      BY <1>1, <2>2, <3>1, BecomeNever DEF Last
    <3> QED
      BY <1>3, <2>1, <3>2, <3>3 DEF NeverIsEdited
  <2> QED
    BY <1>4, <1>8, <2>1, <2>2 DEF PoolStep, RecordMove
<1>9. ASSUME NEW k \in Key, Age(k) \/ AgeCopy(k)
      PROVE  NeverIsEdited'
  <2>1. ~ Restart
    BY <1>5, <1>9 DEF Age, AgeCopy, vars
  <2>2. \A x \in Key : frame'[x].last = "never" => frame[x].last = "never"
    BY <1>1, <1>9 DEF Age, AgeCopy, Frame
  <2>3. \A e \in copies' : e[2].last = "never" => e \in copies
    BY <1>1, <1>9, BecomeNever DEF Age, AgeCopy, Last
  <2> QED
    BY <1>3, <2>1, <2>2, <2>3 DEF NeverIsEdited
<1>10. CASE LoopStep
  <2>1. ~ Restart
    BY <1>5, <1>10 DEF LoopStep, Copy, Skip, Send, Dereference, Mark, LoopMark, LoopPost, vars
  <2>2. CASE Copy
    BY <1>3, <2>1, <2>2 DEF Copy, NeverIsEdited, IndInv, TypeOK
  <2>3. ASSUME NEW e \in copies, Skip(e) \/ Send(e) \/ Dereference(e)
        PROVE  NeverIsEdited'
    BY <1>3, <2>1, <2>3 DEF Skip, Send, Dereference, idleVars, NeverIsEdited
  <2>4. CASE Mark
    <3> DEFINE k == KeyOf(call[Loop].camera)
    <3>1. /\ copies' = copies
          /\ frame' = [frame EXCEPT ![k] = IF k \in known THEN [frame[k] EXCEPT !.in_idle = TRUE]
                                           ELSE [in_idle |-> TRUE, last |-> "never"]]
      BY <2>4 DEF Mark
    <3>2. k[1] \in Lasting => k \in known
      BY DEF KeyOf, KeysOf, OneFramePerCamera
    <3>3. \A x \in Key : frame'[x].last = "never" => frame[x].last = "never" \/ x[1] \notin Lasting
      <4> HIDE DEF k
      <4> QED
        BY <1>1, <3>1, <3>2 DEF Frame
    <3> QED
      BY <1>3, <2>1, <3>1, <3>3 DEF NeverIsEdited
  <2> QED
    BY <1>10, <2>2, <2>3, <2>4 DEF LoopStep
<1>11. CASE UNCHANGED allVars
  <2>1. ~ Restart
    BY <1>5, <1>11 DEF allVars, vars
  <2> QED
    BY <1>4, <1>11, <2>1 DEF allVars
<1> QED
  BY <1>2, <1>6, <1>7, <1>8, <1>9, <1>10, <1>11 DEF IdleNext, RestartLoop

----------------------------------------------------------------------------
(* The theorems.                                                           *)

\* What is proved together.
IdleInv == IndInv /\ IdleTypeOK /\ OneFramePerCamera /\ NeverIsEdited

\* Every step keeps the invariant of Cameras, the types, the one frame and its memory.
THEOREM IdleInductive == IdleSpec => []IdleInv
<1>1. IdleInit => IdleInv
  <2> SUFFICES ASSUME IdleInit
               PROVE  IdleInv
    OBVIOUS
  <2>1. IndInv
    BY InitHolds DEF IdleInit
  <2>2. IdleTypeOK
    BY <2>1 DEF IdleInit, IdleTypeOK, IndInv, FillCamerasActions, NewFrame, Frame, Last
  <2>3. OneFramePerCamera
    <3>1. \A c \in Lasting : KeyOf(c) = <<c, "byId">>
      BY <2>1, LastingIsNumbered
    <3>2. known = rows \X {"byId"} /\ loaded = rows
      BY DEF IdleInit, Init, KeysAtStart
    <3> QED
      BY <3>1, <3>2 DEF OneFramePerCamera, Lasting, KeysOf, Filing
  <2>4. NeverIsEdited
    BY DEF IdleInit, NeverIsEdited, FillCamerasActions, NewFrame
  <2> QED
    BY <2>1, <2>2, <2>3, <2>4 DEF IdleInv
<1>2. IdleInv /\ [IdleNext]_allVars => IdleInv'
  <2> SUFFICES ASSUME IdleInv, [IdleNext]_allVars
               PROVE  IdleInv'
    OBVIOUS
  <2>1. [Next]_vars
    BY StepIsAStep DEF IdleInv
  <2>2. IndInv'
    BY <2>1, StepKeeps DEF IdleInv
  <2>3. IdleTypeOK'
    <3>1. CASE IdleNext
      BY <3>1, <2>2, IdleTypes DEF IdleInv, IndInv, IdleTypeOK
    <3>2. CASE UNCHANGED allVars
      BY <3>2, <2>2 DEF allVars, idleVars, IdleInv, IndInv, IdleTypeOK
    <3> QED
      BY <3>1, <3>2
  <2>4. OneFramePerCamera'
    BY <2>1, <2>2, LastingRecords DEF IdleInv
  <2>5. NeverIsEdited'
    BY <2>1, NeverStays DEF IdleInv
  <2> QED
    BY <2>2, <2>3, <2>4, <2>5 DEF IdleInv
<1> QED
  BY <1>1, <1>2, PTL DEF IdleSpec

\* The loop and the frames add to the behaviours of Cameras and take none of its rules away:
\* every theorem about Cameras holds of them.
THEOREM IdleActionsImplementCameras == IdleSpec => Spec
<1>1. IdleInit => Init
  BY DEF IdleInit
<1>2. IdleInv /\ [IdleNext]_allVars => [Next]_vars
  BY StepIsAStep DEF IdleInv
<1> QED
  BY <1>1, <1>2, IdleInductive, PTL DEF IdleSpec, Spec

\* The frames and the copies keep their types.
THEOREM IdleTypeCorrect == IdleSpec => []IdleTypeOK
<1>1. IdleInv => IdleTypeOK
  BY DEF IdleInv
<1> QED
  BY <1>1, IdleInductive, PTL

\* The moves of a lasting camera are recorded in the frame that the loop marks.
THEOREM OneFrame == IdleSpec => []OneFramePerCamera
<1>1. IdleInv => OneFramePerCamera
  BY DEF IdleInv
<1> QED
  BY <1>1, IdleInductive, PTL
=============================================================================
