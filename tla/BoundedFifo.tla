----------------------------- MODULE BoundedFifo -----------------------------
(***************************************************************************)
(* What a worker's queue promises the pool: tasks come out in the order in *)
(* which they went in, each of them is handed to one thread, and no more   *)
(* than Capacity of them wait.  A thread holds the task it took until it   *)
(* has moved it out of the queue.                                          *)
(***************************************************************************)
EXTENDS Naturals, Sequences

CONSTANTS
    Thread,
    Task,
    Nothing,    \* a thread holds no task
    Capacity

VARIABLES
    queue,      \* the tasks that wait, the oldest first
    held        \* the task each thread has taken and not moved out yet

fifoVars == <<queue, held>>

FifoInit ==
    /\ queue = <<>>
    /\ held = [t \in Thread |-> Nothing]

Put(task) ==
    /\ Len(queue) < Capacity
    /\ queue' = Append(queue, task)
    /\ UNCHANGED held

Take(t) ==
    /\ queue # <<>>
    /\ held[t] = Nothing
    /\ held' = [held EXCEPT ![t] = Head(queue)]
    /\ queue' = Tail(queue)

MoveOut(t) ==
    /\ held[t] # Nothing
    /\ held' = [held EXCEPT ![t] = Nothing]
    /\ UNCHANGED queue

FifoNext ==
    \/ \E task \in Task : Put(task)
    \/ \E t \in Thread : Take(t) \/ MoveOut(t)

FifoSpec == FifoInit /\ [][FifoNext]_fifoVars
=============================================================================
