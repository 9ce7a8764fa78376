----------------------------- MODULE ThreadPool -----------------------------
(***************************************************************************)
(* The thread pool and those who wait for it.  A thread that needs a       *)
(* camera wraps the command in a task, posts it to a worker chosen by turn *)
(* and waits for the result without a limit (pool | task | execute); a     *)
(* worker takes tasks from its own queue and, when that is empty, from the *)
(* queue of the next worker.  A camera that never answers keeps its worker *)
(* for ever.                                                               *)
(*                                                                         *)
(* Each task has a thread of its own that posts it.  No task posts another *)
(* one, so the branch of getWorker for the threads of the pool is not      *)
(* taken.  The queues are those of BoundedFifo.                            *)
(***************************************************************************)
EXTENDS Integers, Sequences, FiniteSets

CONSTANTS
    N,          \* workers
    Capacity,   \* of the queue of each worker
    Task,
    Hung,       \* tasks that never return
    Nothing     \* no task

ASSUME PoolAssumption ==
    /\ N \in Nat \ {0}
    /\ Capacity \in Nat \ {0}
    /\ Hung \subseteq Task
    /\ Nothing \notin Task

VARIABLES
    queues,     \* m_queue of each worker
    next,       \* m_next_worker, modulo the number of workers
    workers,    \* what the thread of each worker is doing, its task and whose queue it was in
    running,    \* m_running_flag of each worker
    posters,    \* what the thread that posts each task is doing, and the worker it got
    futures,    \* the result each waiting thread has a future of
    owner       \* how far the destructor of the pool is; "aborted" when an assertion failed

vars == <<queues, next, workers, running, posters, futures, owner>>

----------------------------------------------------------------------------
Worker == 0 .. N - 1

Idle == [pc |-> "loop", task |-> Nothing, from |-> 0]

WorkerState == [pc : {"loop", "pop", "steal", "run", "ended"}, task : Task \cup {Nothing}, from : Worker]

PosterState == [pc : {"new", "push", "wait", "done"}, worker : Worker]

Result == {"none", "value", "exception"}

Alive == owner # "aborted"

\* The sibling a worker steals from.
Donor(w) == (w + 1) % N

PosterGoto(t, pc) == posters' = [posters EXCEPT ![t].pc = pc]

WorkerGoto(w, pc) == workers' = [workers EXCEPT ![w].pc = pc]

----------------------------------------------------------------------------
(* Posting.                                                                *)

\* Seeded fault: the turn is not taken modulo the number of workers.
GetWorkerBeyond(t) ==
    /\ posters[t].pc = "new" /\ owner = "up"
    /\ next' = next + 1
    /\ posters' = [posters EXCEPT ![t] = [pc |-> "push", worker |-> next]]
    /\ UNCHANGED <<queues, workers, running, futures, owner>>

\* getWorker for a thread that is not one of the pool.
GetWorker(t) ==
    /\ posters[t].pc = "new" /\ owner = "up"
    /\ next' = (next + 1) % N
    /\ posters' = [posters EXCEPT ![t] = [pc |-> "push", worker |-> next]]
    /\ UNCHANGED <<queues, workers, running, futures, owner>>

\* post asserts that the queue took the task, and the build keeps assertions: a full queue ends
\* the process.
Push(t) ==
    /\ Alive /\ posters[t].pc = "push"
    /\ LET w == posters[t].worker IN
       \/ /\ Len(queues[w]) < Capacity
          /\ queues' = [queues EXCEPT ![w] = Append(@, t)]
          /\ PosterGoto(t, "wait")
          /\ UNCHANGED owner
       \/ /\ Len(queues[w]) = Capacity
          /\ owner' = "aborted"
          /\ UNCHANGED <<queues, posters>>
    /\ UNCHANGED <<next, workers, running, futures>>

\* f.get(): a value, or the error handler.
Get(t) ==
    /\ Alive /\ posters[t].pc = "wait" /\ futures[t] # "none"
    /\ PosterGoto(t, "done")
    /\ UNCHANGED <<queues, next, workers, running, futures, owner>>

----------------------------------------------------------------------------
(* threadFunc.                                                             *)

\* Seeded fault: the thread does not look at its flag.
CheckNothing(w) ==
    /\ Alive /\ workers[w].pc = "loop"
    /\ WorkerGoto(w, "pop")
    /\ UNCHANGED <<queues, next, running, posters, futures, owner>>

Check(w) ==
    /\ Alive /\ workers[w].pc = "loop"
    /\ WorkerGoto(w, IF running[w] THEN "pop" ELSE "ended")
    /\ UNCHANGED <<queues, next, running, posters, futures, owner>>

TakeFrom(w, q) ==
    /\ workers' = [workers EXCEPT ![w] = [pc |-> "run", task |-> Head(queues[q]), from |-> q]]
    /\ queues' = [queues EXCEPT ![q] = Tail(@)]

\* Seeded fault: a task that was taken stays in the queue.
PopCopy(w) ==
    /\ Alive /\ workers[w].pc = "pop"
    /\ \/ /\ queues[w] # <<>>
          /\ workers' = [workers EXCEPT ![w] = [pc |-> "run", task |-> Head(queues[w]), from |-> w]]
       \/ queues[w] = <<>> /\ WorkerGoto(w, "steal")
    /\ UNCHANGED <<queues, next, running, posters, futures, owner>>

Pop(w) ==
    /\ Alive /\ workers[w].pc = "pop"
    /\ \/ queues[w] # <<>> /\ TakeFrom(w, w)
       \/ queues[w] = <<>> /\ WorkerGoto(w, "steal") /\ UNCHANGED queues
    /\ UNCHANGED <<next, running, posters, futures, owner>>

\* Seeded fault: a worker has no sibling.
StealNothing(w) ==
    /\ Alive /\ workers[w].pc = "steal"
    /\ WorkerGoto(w, "loop")
    /\ UNCHANGED <<queues, next, running, posters, futures, owner>>

\* A sleep of a millisecond when there is nothing to steal.
Steal(w) ==
    /\ Alive /\ workers[w].pc = "steal"
    /\ \/ queues[Donor(w)] # <<>> /\ TakeFrom(w, Donor(w))
       \/ queues[Donor(w)] = <<>> /\ WorkerGoto(w, "loop") /\ UNCHANGED queues
    /\ UNCHANGED <<next, running, posters, futures, owner>>

\* The task keeps what it returns, or what it throws, for the thread that waits.
Run(w) ==
    /\ Alive /\ workers[w].pc = "run" /\ workers[w].task \notin Hung
    /\ \E result \in {"value", "exception"} : futures' = [futures EXCEPT ![workers[w].task] = result]
    /\ workers' = [workers EXCEPT ![w] = Idle]
    /\ UNCHANGED <<queues, next, running, posters, owner>>

----------------------------------------------------------------------------
(* The destructor, when nobody uses the pool any more.                     *)

Unused == \A t \in Task : posters[t].pc \in {"new", "done"}

Stop(w) ==
    /\ \/ owner = "up" /\ w = 0 /\ Unused
       \/ owner = "next" /\ running[w] /\ \A v \in 0 .. w - 1 : ~ running[v]
    /\ running' = [running EXCEPT ![w] = FALSE]
    /\ owner' = "join"
    /\ UNCHANGED <<queues, next, workers, posters, futures>>

Join(w) ==
    /\ owner = "join"
    /\ ~ running[w] /\ \A v \in w + 1 .. N - 1 : running[v]
    /\ workers[w].pc = "ended"
    /\ owner' = IF w = N - 1 THEN "gone" ELSE "next"
    /\ UNCHANGED <<queues, next, workers, running, posters, futures>>

----------------------------------------------------------------------------
Init ==
    /\ queues = [w \in Worker |-> <<>>]
    /\ next = 0
    /\ workers = [w \in Worker |-> Idle]
    /\ running = [w \in Worker |-> TRUE]
    /\ posters = [t \in Task |-> [pc |-> "new", worker |-> 0]]
    /\ futures = [t \in Task |-> "none"]
    /\ owner = "up"

Work(w) == Check(w) \/ Pop(w) \/ Steal(w) \/ Run(w)

Next ==
    \/ \E t \in Task : GetWorker(t) \/ Push(t) \/ Get(t)
    \/ \E w \in Worker : Work(w) \/ Stop(w) \/ Join(w)

Spec == Init /\ [][Next]_vars

\* Every thread that can go on does; new tasks and the end of the pool may never come.
FairSpec ==
    /\ Spec
    /\ \A t \in Task : WF_vars(Push(t)) /\ WF_vars(Get(t))
    /\ \A w \in Worker : WF_vars(Work(w)) /\ WF_vars(Join(w)) /\ WF_vars(owner = "next" /\ Stop(w))

----------------------------------------------------------------------------
(* Properties.                                                             *)

TypeOK ==
    /\ queues \in [Worker -> Seq(Task)]
    /\ next \in Worker
    /\ workers \in [Worker -> WorkerState]
    /\ running \in [Worker -> BOOLEAN]
    /\ posters \in [Task -> PosterState]
    /\ futures \in [Task -> Result]
    /\ owner \in {"up", "join", "next", "gone", "aborted"}

\* Where a task is: a place in a queue, or a worker.
Places(t) ==
    {p \in Worker \X (1 .. Capacity) : p[2] <= Len(queues[p[1]]) /\ queues[p[1]][p[2]] = t}
        \cup {<<w, 0>> : w \in {v \in Worker : workers[v].task = t}}

\* A task that was posted and has no result yet is in one place: it is neither lost between the queues nor
\* executed twice, whether its own worker or the sibling takes it.
WaitingTasksAreSomewhere ==
    \A t \in Task :
        Cardinality(Places(t)) = IF posters[t].pc = "wait" /\ futures[t] = "none" THEN 1 ELSE 0

\* Nobody serves the queue of a worker but the worker itself and the one before it.
Stuck(w) == workers[w].task \in Hung

Deserted(w) == \A v \in Worker : (v = w \/ Donor(v) = w) => Stuck(v)

\* A thread whose task was posted gets its answer, unless the task never returns, or tasks that
\* never return keep both workers that serve the queue; other workers being idle is no help.
\* Or the process ends, at a post to a full queue.
WaitersAreAnswered ==
    \A t \in Task \ Hung :
        (posters[t].pc = "wait") ~>
            (posters[t].pc = "done" \/ Deserted(posters[t].worker) \/ ~ Alive)

\* The destructor of a pool that nobody uses ends.
DestructorEnds == (owner = "join") ~> (owner = "gone")
=============================================================================
