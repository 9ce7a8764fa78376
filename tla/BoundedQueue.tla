---------------------------- MODULE BoundedQueue ----------------------------
(***************************************************************************)
(* MPMCBoundedQueue of source/thread_pool/pool/implementation/             *)
(* MpscBoundedQueue.hpp: a ring of cells, each with a sequence number, and *)
(* two positions that only grow.  One action is one access to memory that  *)
(* other threads share, so push and pop interleave as they do on the       *)
(* machine.  A stall between any two accesses is a thread that takes no    *)
(* step.                                                                   *)
(***************************************************************************)
EXTENDS Integers, Sequences, FiniteSets

CONSTANTS
    Thread,
    Producer,   \* the threads that push: whoever posts to the pool
    Consumer,   \* the threads that pop: the worker and the one that steals from it
    Task,
    Nothing,
    Size        \* of the ring, a power of 2 in the constructor

ASSUME RingAssumption ==
    /\ Producer \subseteq Thread
    /\ Consumer \subseteq Thread
    /\ Nothing \notin Task
    /\ Size \in Nat \ {0, 1}

VARIABLES
    sequence,   \* the atomic number of each cell
    data,       \* the task in each cell; a moved-from cell keeps its old one here
    position,   \* m_enqueue_pos ("push") and m_dequeue_pos ("pop")
    op,         \* the operation of each thread: its kind, label, pos and task
    pushed      \* history: the tasks some thread has begun to push

vars == <<sequence, data, position, op, pushed>>

----------------------------------------------------------------------------
Kind == {"push", "pop"}

Label == {"idle", "load", "cell", "cas", "move", "store"}

Op == [pc : Label, kind : Kind, pos : Nat, task : Task \cup {Nothing}]

Idle == [pc |-> "idle", kind |-> "push", pos |-> 0, task |-> Nothing]

Cell(pos) == pos % Size

\* The number a cell must carry for an operation to claim it at pos.
Ready(kind, pos) == IF kind = "push" THEN pos ELSE pos + 1

\* Seeded fault: the lap is subtracted.
AfterLapBack(kind, pos) == IF kind = "push" THEN pos + 1 ELSE pos - Size

\* The number an operation leaves in its cell: pushed ones are ready for their pop, popped
\* ones for the push of the next lap.
After(kind, pos) == IF kind = "push" THEN pos + 1 ELSE pos + Size

Dif(t) == sequence[Cell(op[t].pos)] - Ready(op[t].kind, op[t].pos)

At(t, label) == op[t].pc = label

Goto(t, label) == op' = [op EXCEPT ![t].pc = label]

Finish(t) == op' = [op EXCEPT ![t] = Idle]

----------------------------------------------------------------------------
(* Actions.                                                                *)

BeginPush(t, task) ==
    /\ At(t, "idle") /\ task \notin pushed
    /\ pushed' = pushed \cup {task}
    /\ op' = [op EXCEPT ![t] = [pc |-> "load", kind |-> "push", pos |-> 0, task |-> task]]
    /\ UNCHANGED <<sequence, data, position>>

BeginPop(t) ==
    /\ At(t, "idle")
    /\ op' = [op EXCEPT ![t] = [pc |-> "load", kind |-> "pop", pos |-> 0, task |-> Nothing]]
    /\ UNCHANGED <<sequence, data, position, pushed>>

\* pos = m_enqueue_pos.load() or m_dequeue_pos.load(): on entry, and whenever another thread
\* was seen to be ahead.
LoadPosition(t) ==
    /\ At(t, "load")
    /\ op' = [op EXCEPT ![t].pc = "cell", ![t].pos = position[op[t].kind]]
    /\ UNCHANGED <<sequence, data, position, pushed>>

\* Seeded fault: the branches dif < 0 and dif > 0 are one, and report failure.
ReadSequenceOnce(t) ==
    /\ At(t, "cell")
    /\ IF Dif(t) = 0 THEN Goto(t, "cas") ELSE Finish(t)
    /\ UNCHANGED <<sequence, data, position, pushed>>

\* Seeded fault: an operation behind the others looks at its cell again, and no further.
ReadSequenceAgain(t) ==
    /\ At(t, "cell")
    /\ \/ Dif(t) = 0 /\ Goto(t, "cas")
       \/ Dif(t) > 0 /\ Goto(t, "cell")
       \/ Dif(t) < 0 /\ Finish(t)
    /\ UNCHANGED <<sequence, data, position, pushed>>

\* The cell is free for this position, or taken by an operation ahead of this one, or still
\* in use by the lap before: then push and pop return false.
ReadSequence(t) ==
    /\ At(t, "cell")
    /\ \/ Dif(t) = 0 /\ Goto(t, "cas")
       \/ Dif(t) > 0 /\ Goto(t, "load")
       \/ Dif(t) < 0 /\ Finish(t)
    /\ UNCHANGED <<sequence, data, position, pushed>>

\* Seeded fault: the position is loaded and stored, not exchanged.
ClaimBlindly(t) ==
    /\ At(t, "cas")
    /\ position' = [position EXCEPT ![op[t].kind] = op[t].pos + 1]
    /\ Goto(t, "move")
    /\ UNCHANGED <<sequence, data, pushed>>

\* Seeded fault: the cell is given on as soon as it is claimed, before the task was moved.
ClaimEarly(t) ==
    /\ At(t, "cas")
    /\ position[op[t].kind] = op[t].pos
    /\ position' = [position EXCEPT ![op[t].kind] = @ + 1]
    /\ sequence' = [sequence EXCEPT ![Cell(op[t].pos)] = After(op[t].kind, op[t].pos)]
    /\ Goto(t, "move")
    /\ UNCHANGED <<data, pushed>>

\* compare_exchange_weak succeeds ...
Claim(t) ==
    /\ At(t, "cas")
    /\ position[op[t].kind] = op[t].pos
    /\ position' = [position EXCEPT ![op[t].kind] = @ + 1]
    /\ Goto(t, "move")
    /\ UNCHANGED <<sequence, data, pushed>>

\* ... or leaves the current position in pos, and may do so without a reason.
MissClaim(t) ==
    /\ At(t, "cas")
    /\ op' = [op EXCEPT ![t].pc = "cell", ![t].pos = position[op[t].kind]]
    /\ UNCHANGED <<sequence, data, position, pushed>>

\* The task moves between the caller and the cell.
MoveData(t) ==
    /\ At(t, "move")
    /\ \/ /\ op[t].kind = "push"
          /\ data' = [data EXCEPT ![Cell(op[t].pos)] = op[t].task]
          /\ Goto(t, "store")
       \/ /\ op[t].kind = "pop"
          /\ op' = [op EXCEPT ![t].pc = "store", ![t].task = data[Cell(op[t].pos)]]
          /\ UNCHANGED data
    /\ UNCHANGED <<sequence, position, pushed>>

\* The cell is given on and the operation returns true.
StoreSequence(t) ==
    /\ At(t, "store")
    /\ sequence' = [sequence EXCEPT ![Cell(op[t].pos)] = After(op[t].kind, op[t].pos)]
    /\ Finish(t)
    /\ UNCHANGED <<data, position, pushed>>

----------------------------------------------------------------------------
Init ==
    /\ sequence = [i \in 0 .. Size - 1 |-> i]
    /\ data = [i \in 0 .. Size - 1 |-> Nothing]
    /\ position = [kind \in Kind |-> 0]
    /\ op = [t \in Thread |-> Idle]
    /\ pushed = {}

Step(t) ==
    \/ LoadPosition(t)
    \/ ReadSequence(t)
    \/ Claim(t)
    \/ MissClaim(t)
    \/ MoveData(t)
    \/ StoreSequence(t)

Next ==
    \/ \E t \in Producer, task \in Task : BeginPush(t, task)
    \/ \E t \in Consumer : BeginPop(t)
    \/ \E t \in Thread : Step(t)

Spec == Init /\ [][Next]_vars

\* Every thread goes on, and compare_exchange_weak does not fail without a reason for ever.
FairSpec == Spec /\ \A t \in Thread : WF_vars(Step(t)) /\ SF_vars(Claim(t))

----------------------------------------------------------------------------
(* Properties.                                                             *)

TypeOK ==
    /\ sequence \in [0 .. Size - 1 -> Nat]
    /\ data \in [0 .. Size - 1 -> Task \cup {Nothing}]
    /\ position \in [Kind -> Nat]
    /\ op \in [Thread -> Op]
    /\ pushed \subseteq Task

\* Thread t is between its successful exchange and the store that gives the cell on.
Owns(t, kind) == op[t].kind = kind /\ op[t].pc \in {"move", "store"}

\* The task at a claimed position: on its way into the cell, or in it.
TaskAt(pos) ==
    IF \E t \in Thread : Owns(t, "push") /\ op[t].pos = pos
    THEN op[CHOOSE t \in Thread : Owns(t, "push") /\ op[t].pos = pos].task
    ELSE data[Cell(pos)]

Queue ==
    [i \in 1 .. position["push"] - position["pop"] |-> TaskAt(position["pop"] + i - 1)]

\* The task a popping thread has claimed: still in the cell, or moved out of it.
Held(t) ==
    IF Owns(t, "pop")
    THEN IF op[t].pc = "move" THEN data[Cell(op[t].pos)] ELSE op[t].task
    ELSE Nothing

Abstract == INSTANCE BoundedFifo WITH
                queue <- Queue, held <- [t \in Thread |-> Held(t)], Capacity <- Size

\* Push and pop implement a bounded queue: a push or a pop takes effect at its exchange, tasks
\* come out in order and once, and no cell is written while its task is waited for or moved.
ImplementsFifo == Abstract!FifoSpec

\* No two threads are between exchange and store on one cell.
CellsAreExclusive ==
    \A t, u \in Thread :
        /\ t # u
        /\ op[t].pc \in {"move", "store"}
        /\ op[u].pc \in {"move", "store"}
        => Cell(op[t].pos) # Cell(op[u].pos)

\* A push returns false only if the queue is full, and a pop only if it is empty, unless
\* a thread of the other kind stalls with a cell in its hands: then the failure says nothing.
RefusalIsTrue ==
    \A t \in Thread : At(t, "cell") /\ op'[t].pc = "idle" =>
        IF op[t].kind = "push"
        THEN Len(Queue) = Size \/ \E u \in Thread : Owns(u, "pop")
        ELSE Queue = <<>> \/ \E u \in Thread : Owns(u, "push")

\* No push and no pop fails without a reason.
RefusalsAreTrue == [][RefusalIsTrue]_vars

\* Every push and every pop returns.
OperationsReturn == \A t \in Thread : ~ At(t, "idle") ~> At(t, "idle")
=============================================================================
