-------------------------- MODULE ThreadPoolProofs --------------------------
(***************************************************************************)
(* A task that is waited for is in one place, for any number of workers,   *)
(* of tasks and of places in a queue.                                      *)
(*                                                                         *)
(* The invariant says in terms of indices what the property says with a    *)
(* cardinality: no two places hold the same task, only tasks that are      *)
(* waited for are held, and each of them is.  Taking a task is the one     *)
(* step that moves others, to the place before theirs.                     *)
(***************************************************************************)
EXTENDS ThreadPool, FiniteSetTheorems, TLAPS

----------------------------------------------------------------------------
(* The inductive invariant.                                                *)

Waiting(t) == posters[t].pc = "wait" /\ futures[t] = "none"

QueuesAreBounded == \A w \in Worker : Len(queues[w]) <= Capacity

\* A result comes after the task was posted, and the thread goes on after the result.
ResultsComeBetween ==
    \A t \in Task :
        /\ posters[t].pc \in {"new", "push"} => futures[t] = "none"
        /\ posters[t].pc = "done" => futures[t] # "none"

OnlyRunningHold == \A w \in Worker : workers[w].pc # "run" => workers[w].task = Nothing

QueuedWait == \A w \in Worker : \A i \in 1 .. Len(queues[w]) : Waiting(queues[w][i])

TakenWait == \A w \in Worker : workers[w].task # Nothing => Waiting(workers[w].task)

QueuedOnce ==
    \A w, v \in Worker : \A i \in 1 .. Len(queues[w]), j \in 1 .. Len(queues[v]) :
        queues[w][i] = queues[v][j] => w = v /\ i = j

TakenOnce ==
    \A w, v \in Worker : workers[w].task = workers[v].task => w = v \/ workers[w].task = Nothing

QueuedOrTaken ==
    \A w, v \in Worker : \A i \in 1 .. Len(queues[w]) : queues[w][i] # workers[v].task

Queued(t) == \E w \in Worker : \E i \in 1 .. Len(queues[w]) : queues[w][i] = t

Taken(t) == \E w \in Worker : workers[w].task = t

NoneIsLost == \A t \in Task : Waiting(t) => Queued(t) \/ Taken(t)

IndInv ==
    /\ TypeOK /\ QueuesAreBounded /\ ResultsComeBetween /\ OnlyRunningHold
    /\ QueuedWait /\ TakenWait
    /\ QueuedOnce /\ TakenOnce /\ QueuedOrTaken
    /\ NoneIsLost

----------------------------------------------------------------------------
(* Workers and queues.                                                     *)

\* The sibling of a worker is a worker, and so is the next turn.
LEMMA DonorIsWorker == \A w \in Worker : Donor(w) \in Worker
BY PoolAssumption DEF Donor, Worker

\* What taking the first task of a queue leaves.
LEMMA TailOfQueue ==
    ASSUME NEW q \in Seq(Task), q # <<>>
    PROVE  /\ Head(q) = q[1] /\ 1 \in 1 .. Len(q)
           /\ Tail(q) \in Seq(Task)
           /\ Len(Tail(q)) = Len(q) - 1
           /\ \A i \in 1 .. Len(Tail(q)) : Tail(q)[i] = q[i + 1] /\ i + 1 \in 1 .. Len(q)
OBVIOUS

\* What posting a task to a queue adds.
LEMMA AppendToQueue ==
    ASSUME NEW q \in Seq(Task), NEW t \in Task
    PROVE  /\ Append(q, t) \in Seq(Task)
           /\ Len(Append(q, t)) = Len(q) + 1
           /\ \A i \in 1 .. Len(q) : Append(q, t)[i] = q[i]
           /\ Append(q, t)[Len(q) + 1] = t
OBVIOUS

----------------------------------------------------------------------------
(* Each action keeps the invariant.                                        *)

\* A turn changes nothing but its thread.
LEMMA GetWorkerKeeps ==
    ASSUME IndInv, NEW t \in Task, GetWorker(t)
    PROVE  IndInv'
<1> USE DEF IndInv, GetWorker
<1>1. TypeOK'
  BY PoolAssumption DEF TypeOK, PosterState, Worker
<1>2. QueuesAreBounded' /\ OnlyRunningHold' /\ QueuedOnce' /\ TakenOnce' /\ QueuedOrTaken'
  BY DEF QueuesAreBounded, OnlyRunningHold, QueuedOnce, TakenOnce, QueuedOrTaken
<1>3. ResultsComeBetween'
  BY DEF TypeOK, PosterState, ResultsComeBetween
<1>4. \A u \in Task : Waiting(u)' <=> Waiting(u)
  BY DEF TypeOK, PosterState, Waiting
<1>5. QueuedWait' /\ TakenWait'
  BY <1>4 DEF TypeOK, WorkerState, QueuedWait, TakenWait
<1>6. NoneIsLost'
  BY <1>4 DEF NoneIsLost, Queued, Taken
<1> QED
  BY <1>1, <1>2, <1>3, <1>5, <1>6

\* A thread with its result goes on.
LEMMA GetKeeps ==
    ASSUME IndInv, NEW t \in Task, Get(t)
    PROVE  IndInv'
<1> USE DEF IndInv, Get, PosterGoto
<1>1. TypeOK'
  BY DEF TypeOK, PosterState
<1>2. QueuesAreBounded' /\ OnlyRunningHold' /\ QueuedOnce' /\ TakenOnce' /\ QueuedOrTaken'
  BY DEF QueuesAreBounded, OnlyRunningHold, QueuedOnce, TakenOnce, QueuedOrTaken
<1>3. ResultsComeBetween'
  BY DEF TypeOK, PosterState, ResultsComeBetween
<1>4. \A u \in Task : Waiting(u)' <=> Waiting(u)
  BY DEF TypeOK, PosterState, Waiting
<1>5. QueuedWait' /\ TakenWait'
  BY <1>4 DEF TypeOK, WorkerState, QueuedWait, TakenWait
<1>6. NoneIsLost'
  BY <1>4 DEF NoneIsLost, Queued, Taken
<1> QED
  BY <1>1, <1>2, <1>3, <1>5, <1>6

\* A task that is posted is nowhere else, because nobody waited for it before.
LEMMA PushKeeps ==
    ASSUME IndInv, NEW t \in Task, Push(t)
    PROVE  IndInv'
<1> USE DEF IndInv, PosterGoto
<1> DEFINE w == posters[t].worker
<1>1. w \in Worker /\ queues[w] \in Seq(Task) /\ posters[t].pc = "push" /\ ~ Waiting(t)
  BY DEF Push, TypeOK, PosterState, Waiting
<1>2. CASE Len(queues[w]) = Capacity /\ owner' = "aborted" /\ UNCHANGED <<queues, posters>>
  <2>1. UNCHANGED <<next, workers, running, futures>>
    BY DEF Push
  <2>2. TypeOK'
    BY <1>2, <2>1 DEF TypeOK, PosterState
  <2>3. QueuesAreBounded' /\ OnlyRunningHold' /\ QueuedOnce' /\ TakenOnce' /\ QueuedOrTaken'
    BY <1>2, <2>1 DEF QueuesAreBounded, OnlyRunningHold, QueuedOnce, TakenOnce, QueuedOrTaken
  <2>4. ResultsComeBetween'
    BY <1>1, <1>2, <2>1 DEF TypeOK, PosterState, ResultsComeBetween
  <2>5. \A u \in Task : Waiting(u)' <=> Waiting(u)
    BY <1>1, <1>2, <2>1 DEF TypeOK, PosterState, Waiting
  <2>6. QueuedWait' /\ TakenWait'
    BY <1>2, <2>1, <2>5 DEF TypeOK, WorkerState, QueuedWait, TakenWait
  <2>7. NoneIsLost'
    BY <1>2, <2>1, <2>5 DEF NoneIsLost, Queued, Taken
  <2> QED
    BY <2>2, <2>3, <2>4, <2>6, <2>7
<1>3. CASE Len(queues[w]) < Capacity /\ queues' = [queues EXCEPT ![w] = Append(@, t)] /\ PosterGoto(t, "wait") /\ UNCHANGED owner
  <2>1. UNCHANGED <<next, workers, running, futures, owner>>
    BY <1>3 DEF Push
  <2>2. /\ queues'[w] = Append(queues[w], t) /\ \A v \in Worker \ {w} : queues'[v] = queues[v]
        /\ Append(queues[w], t) \in Seq(Task) /\ Len(queues'[w]) = Len(queues[w]) + 1
        /\ \A i \in 1 .. Len(queues[w]) : queues'[w][i] = queues[w][i]
        /\ queues'[w][Len(queues[w]) + 1] = t
    BY <1>1, <1>3, AppendToQueue DEF TypeOK
  <2>3. TypeOK'
    <3>1. queues' \in [Worker -> Seq(Task)]
      BY <1>1, <1>3, <2>2 DEF TypeOK
    <3>2. posters' \in [Task -> PosterState]
      BY <1>3 DEF TypeOK, PosterState
    <3> QED
      BY <2>1, <3>1, <3>2 DEF TypeOK
  <2>4. QueuesAreBounded'
    BY <1>1, <1>3, <2>2, PoolAssumption DEF QueuesAreBounded
  <2>5. ResultsComeBetween' /\ OnlyRunningHold'
    BY <1>1, <1>3, <2>1 DEF TypeOK, PosterState, ResultsComeBetween, OnlyRunningHold
  <2>6. Waiting(t)' /\ \A u \in Task \ {t} : Waiting(u)' <=> Waiting(u)
    BY <1>1, <1>3, <2>1 DEF TypeOK, PosterState, Waiting, ResultsComeBetween
  \* What a queue holds now.
  <2>7. ASSUME NEW v \in Worker, NEW i \in 1 .. Len(queues'[v])
        PROVE  \/ i \in 1 .. Len(queues[v]) /\ queues'[v][i] = queues[v][i] /\ queues[v][i] \in Task \ {t}
               \/ v = w /\ i = Len(queues[w]) + 1 /\ queues'[v][i] = t
    <3>1. Len(queues[v]) \in Nat /\ queues[v] \in Seq(Task)
      BY DEF TypeOK
    <3>2. \A j \in 1 .. Len(queues[v]) : queues[v][j] \in Task \ {t}
      BY <1>1, <3>1 DEF QueuedWait
    <3>3. CASE v = w
      <4>1. i \in 1 .. Len(queues[w]) + 1
        BY <2>2, <2>7, <3>3
      <4>2. i \in 1 .. Len(queues[w]) \/ i = Len(queues[w]) + 1
        BY <3>1, <3>3, <4>1
      <4> QED
        BY <2>2, <3>2, <3>3, <4>2
    <3>4. CASE v # w
      BY <2>2, <2>7, <3>2, <3>4
    <3> QED
      BY <3>3, <3>4
  <2>8. QueuedWait'
    BY <2>6, <2>7 DEF QueuedWait
  <2>9. TakenWait'
    BY <2>1, <2>6 DEF TypeOK, WorkerState, TakenWait
  <2>10. QueuedOnce'
    <3> SUFFICES ASSUME NEW v \in Worker, NEW x \in Worker, NEW i \in 1 .. Len(queues'[v]),
                        NEW j \in 1 .. Len(queues'[x]), queues'[v][i] = queues'[x][j]
                 PROVE  v = x /\ i = j
      BY DEF QueuedOnce
    <3>1. \/ i \in 1 .. Len(queues[v]) /\ queues'[v][i] = queues[v][i] /\ queues[v][i] # t
          \/ v = w /\ i = Len(queues[w]) + 1 /\ queues'[v][i] = t
      BY <2>7
    <3>2. \/ j \in 1 .. Len(queues[x]) /\ queues'[x][j] = queues[x][j] /\ queues[x][j] # t
          \/ x = w /\ j = Len(queues[w]) + 1 /\ queues'[x][j] = t
      BY <2>7
    <3> QED
      BY <3>1, <3>2 DEF QueuedOnce
  <2>11. TakenOnce'
    BY <2>1 DEF TakenOnce
  <2>12. \A v \in Worker : workers[v].task # t
    BY <1>1, PoolAssumption DEF TakenWait
  <2>13. QueuedOrTaken'
    BY <2>1, <2>7, <2>12 DEF QueuedOrTaken
  <2>14. Queued(t)'
    <3>1. Len(queues[w]) + 1 \in 1 .. Len(queues'[w])
      BY <1>1, <2>2
    <3> QED
      BY <1>1, <2>2, <3>1 DEF Queued
  <2>15. ASSUME NEW u \in Task, Queued(u) PROVE Queued(u)'
    <3>1. PICK v \in Worker : \E i \in 1 .. Len(queues[v]) : queues[v][i] = u
      BY <2>15 DEF Queued
    <3>2. PICK i \in 1 .. Len(queues[v]) : queues[v][i] = u
      BY <3>1
    <3>3. CASE v = w
      <4>1. Len(queues[w]) \in Nat
        BY <1>1
      <4>2. i \in 1 .. Len(queues'[w]) /\ queues'[w][i] = u
        BY <2>2, <3>2, <3>3, <4>1
      <4> QED
        BY <1>1, <4>2 DEF Queued
    <3>4. CASE v # w
      BY <2>2, <3>2, <3>4 DEF Queued
    <3> QED
      BY <3>3, <3>4
  <2>16. NoneIsLost'
    BY <2>1, <2>6, <2>14, <2>15 DEF NoneIsLost, Taken
  <2> QED
    BY <2>3, <2>4, <2>5, <2>8, <2>9, <2>10, <2>11, <2>13, <2>16
<1> QED
  BY <1>2, <1>3 DEF Push

\* Looking at the flag, finding nothing, stopping and joining: who holds what stays.
LEMMA QuietKeeps ==
    ASSUME IndInv, UNCHANGED <<queues, posters, futures>>, TypeOK',
           \A w \in Worker : workers'[w].task = workers[w].task,
           \A w \in Worker : workers'[w].pc = "run" <=> workers[w].pc = "run"
    PROVE  IndInv'
<1> USE DEF IndInv
<1>1. QueuesAreBounded' /\ ResultsComeBetween' /\ OnlyRunningHold'
  BY DEF QueuesAreBounded, ResultsComeBetween, OnlyRunningHold
<1>2. QueuedWait' /\ TakenWait'
  BY DEF QueuedWait, TakenWait, Waiting
<1>3. QueuedOnce' /\ TakenOnce' /\ QueuedOrTaken'
  BY DEF QueuedOnce, TakenOnce, QueuedOrTaken
<1>4. NoneIsLost'
  BY DEF NoneIsLost, Queued, Taken, Waiting
<1> QED
  BY <1>1, <1>2, <1>3, <1>4

\* The head of a queue goes to a worker that has no task; the others move up.
LEMMA TakeKeeps ==
    ASSUME IndInv, NEW w \in Worker, NEW q \in Worker, workers[w].pc # "run", queues[q] # <<>>,
           TakeFrom(w, q), UNCHANGED <<next, running, posters, futures, owner>>
    PROVE  IndInv'
<1> USE DEF IndInv
<1> DEFINE k == Head(queues[q])
<1>1. queues[q] \in Seq(Task) /\ k = queues[q][1] /\ 1 \in 1 .. Len(queues[q]) /\ k \in Task /\ k # Nothing
  BY TailOfQueue, PoolAssumption DEF TypeOK
<1>2. /\ queues'[q] = Tail(queues[q]) /\ \A v \in Worker \ {q} : queues'[v] = queues[v]
      /\ Tail(queues[q]) \in Seq(Task) /\ Len(queues'[q]) = Len(queues[q]) - 1
      /\ \A i \in 1 .. Len(queues'[q]) : queues'[q][i] = queues[q][i + 1] /\ i + 1 \in 1 .. Len(queues[q])
  BY <1>1, TailOfQueue DEF TakeFrom, TypeOK
<1>3. /\ workers'[w] = [pc |-> "run", task |-> k, from |-> q]
      /\ \A v \in Worker \ {w} : workers'[v] = workers[v]
      /\ workers[w].task = Nothing
  BY DEF TakeFrom, TypeOK, OnlyRunningHold
<1>4. TypeOK'
  BY <1>1, <1>2 DEF TypeOK, TakeFrom, WorkerState
<1>5. QueuesAreBounded'
  <2>1. Len(queues[q]) \in Nat
    BY <1>1
  <2>2. Len(queues'[q]) <= Capacity
    BY <1>2, <2>1, PoolAssumption DEF QueuesAreBounded
  <2> QED
    BY <1>2, <2>2 DEF QueuesAreBounded
<1>6. ResultsComeBetween' /\ OnlyRunningHold'
  BY <1>3 DEF ResultsComeBetween, OnlyRunningHold
<1>7. \A u \in Task : Waiting(u)' <=> Waiting(u)
  BY DEF Waiting
\* Where the task at a place was before.
<1>8. ASSUME NEW v \in Worker, NEW i \in 1 .. Len(queues'[v])
      PROVE  /\ queues'[v][i] = queues[v][IF v = q THEN i + 1 ELSE i]
             /\ (IF v = q THEN i + 1 ELSE i) \in 1 .. Len(queues[v])
             /\ queues'[v][i] \in Task \ {k}
  <2>1. /\ queues'[v][i] = queues[v][IF v = q THEN i + 1 ELSE i]
        /\ (IF v = q THEN i + 1 ELSE i) \in 1 .. Len(queues[v])
    BY <1>2, <1>8
  <2>2. queues[v] \in Seq(Task)
    BY DEF TypeOK
  <2>3. queues'[v][i] \in Task
    BY <2>1, <2>2
  <2>4. queues'[v][i] # k
    <3>1. CASE v = q
      <4>1. i + 1 # 1 /\ i + 1 \in 1 .. Len(queues[q])
        BY <2>1, <3>1
      <4> QED
        BY <1>1, <2>1, <3>1, <4>1 DEF QueuedOnce
    <3>2. CASE v # q
      BY <1>1, <2>1, <3>2 DEF QueuedOnce
    <3> QED
      BY <3>1, <3>2
  <2> QED
    BY <2>1, <2>3, <2>4
<1>9. QueuedWait'
  BY <1>7, <1>8 DEF QueuedWait
<1>10. TakenWait'
  <2>1. Waiting(k)
    BY <1>1 DEF QueuedWait
  <2>2. ASSUME NEW v \in Worker, workers'[v].task # Nothing PROVE Waiting(workers'[v].task)
    BY <1>3, <2>1, <2>2 DEF TakenWait
  <2> QED
    BY <2>2 DEF TakenWait, Waiting
<1>11. QueuedOnce'
  <2> SUFFICES ASSUME NEW v \in Worker, NEW x \in Worker, NEW i \in 1 .. Len(queues'[v]),
                      NEW j \in 1 .. Len(queues'[x]), queues'[v][i] = queues'[x][j]
               PROVE  v = x /\ i = j
    BY DEF QueuedOnce
  <2> DEFINE a == IF v = q THEN i + 1 ELSE i
             b == IF x = q THEN j + 1 ELSE j
  <2>1. /\ queues'[v][i] = queues[v][a] /\ a \in 1 .. Len(queues[v])
        /\ queues'[x][j] = queues[x][b] /\ b \in 1 .. Len(queues[x])
    BY <1>8
  <2>2. v = x /\ a = b
    <3> HIDE DEF a, b
    <3>1. QueuedOnce /\ queues[v][a] = queues[x][b]
      BY <2>1
    <3> QED
      BY <2>1, <3>1 DEF QueuedOnce
  <2>3. i \in Int /\ j \in Int
    OBVIOUS
  <2> QED
    BY <2>2, <2>3
<1>12. TakenOnce'
  BY <1>1, <1>3 DEF TakenOnce, QueuedOrTaken
<1>13. QueuedOrTaken'
  <2> SUFFICES ASSUME NEW v \in Worker, NEW x \in Worker, NEW i \in 1 .. Len(queues'[v])
               PROVE  queues'[v][i] # workers'[x].task
    BY DEF QueuedOrTaken
  <2>1. CASE x = w
    BY <1>3, <1>8, <2>1
  <2>2. CASE x # w
    BY <1>3, <1>8, <2>2 DEF QueuedOrTaken
  <2> QED
    BY <2>1, <2>2
<1>14. \A u \in Task : u = k => Taken(u)'
  BY <1>3 DEF Taken
<1>15. ASSUME NEW u \in Task, Queued(u) PROVE Queued(u)' \/ u = k
  <2>1. PICK v \in Worker : \E i \in 1 .. Len(queues[v]) : queues[v][i] = u
    BY <1>15 DEF Queued
  <2>2. PICK i \in 1 .. Len(queues[v]) : queues[v][i] = u
    BY <2>1
  <2>3. CASE v # q
    BY <1>2, <2>2, <2>3 DEF Queued
  <2>4. CASE v = q /\ i = 1
    BY <1>1, <2>2, <2>4
  <2>5. CASE v = q /\ i # 1
    <3>1. i - 1 \in 1 .. Len(queues'[q]) /\ (i - 1) + 1 = i
      BY <1>1, <1>2, <2>5
    <3>2. queues'[q][i - 1] = u
      BY <1>2, <2>2, <2>5, <3>1
    <3> QED
      BY <3>1, <3>2 DEF Queued
  <2> QED
    BY <2>3, <2>4, <2>5
<1>16. ASSUME NEW u \in Task, Taken(u) PROVE Taken(u)'
  BY <1>3, <1>16, PoolAssumption DEF Taken
<1>17. NoneIsLost'
  BY <1>7, <1>14, <1>15, <1>16 DEF NoneIsLost
<1> QED
  BY <1>4, <1>5, <1>6, <1>9, <1>10, <1>11, <1>12, <1>13, <1>17

\* A task that returns is nowhere any more, and its thread has the result.
LEMMA RunKeeps ==
    ASSUME IndInv, NEW w \in Worker, Run(w)
    PROVE  IndInv'
<1> USE DEF IndInv
<1> DEFINE k == workers[w].task
<1>1. PICK result \in {"value", "exception"} : futures' = [futures EXCEPT ![k] = result]
  BY DEF Run
<1>2. workers' = [workers EXCEPT ![w] = Idle] /\ UNCHANGED <<queues, next, running, posters, owner>>
  BY DEF Run
<1>3. TypeOK'
  <2>1. 0 \in Worker
    BY PoolAssumption DEF Worker
  <2>2. workers' \in [Worker -> WorkerState]
    BY <1>2, <2>1 DEF TypeOK, WorkerState, Idle
  <2>3. futures' \in [Task -> Result]
    BY <1>1 DEF TypeOK, Result
  <2> QED
    BY <1>2, <2>2, <2>3 DEF TypeOK
<1>4. QueuesAreBounded' /\ OnlyRunningHold' /\ QueuedOnce'
  BY <1>2 DEF TypeOK, QueuesAreBounded, OnlyRunningHold, QueuedOnce, Idle
<1>5. /\ \A v \in Worker \ {w} : workers'[v] = workers[v]
      /\ workers'[w].task = Nothing
  BY <1>2 DEF TypeOK, Idle
<1>6. ResultsComeBetween'
  BY <1>1, <1>2, PoolAssumption DEF TypeOK, ResultsComeBetween, TakenWait, Waiting
<1>7. \A u \in Task : Waiting(u)' <=> Waiting(u) /\ u # k
  BY <1>1, <1>2 DEF TypeOK, Waiting
<1>8. QueuedWait'
  <2> SUFFICES ASSUME NEW v \in Worker, NEW i \in 1 .. Len(queues[v]) PROVE Waiting(queues[v][i])'
    BY <1>2 DEF QueuedWait, Waiting
  <2>1. queues[v] \in Seq(Task)
    BY DEF TypeOK
  <2>2. queues[v][i] \in Task /\ queues[v][i] # k /\ Waiting(queues[v][i])
    BY <2>1 DEF QueuedWait, QueuedOrTaken
  <2> QED
    BY <1>1, <1>2, <2>2 DEF TypeOK, Waiting
<1>9. TakenWait'
  BY <1>5, <1>7 DEF TypeOK, WorkerState, TakenWait, TakenOnce
<1>10. TakenOnce'
  BY <1>5 DEF TakenOnce
<1>11. QueuedOrTaken'
  <2>1. \A v \in Worker : \A i \in 1 .. Len(queues[v]) : queues[v][i] # Nothing
    BY PoolAssumption DEF TypeOK
  <2> QED
    BY <1>2, <1>5, <2>1 DEF QueuedOrTaken
<1>12. NoneIsLost'
  BY <1>2, <1>5, <1>7 DEF NoneIsLost, Queued, Taken
<1> QED
  BY <1>3, <1>4, <1>6, <1>8, <1>9, <1>10, <1>11, <1>12

----------------------------------------------------------------------------
(* The theorems.                                                           *)

\* A new pool holds nothing.
LEMMA InitHolds == Init => IndInv
<1> SUFFICES ASSUME Init PROVE IndInv
  OBVIOUS
<1>1. TypeOK
  BY PoolAssumption DEF Init, TypeOK, WorkerState, PosterState, Result, Idle, Worker
<1>2. QueuesAreBounded /\ ResultsComeBetween /\ OnlyRunningHold
  BY PoolAssumption DEF Init, QueuesAreBounded, ResultsComeBetween, OnlyRunningHold, Idle
<1>3. QueuedWait /\ TakenWait /\ QueuedOnce /\ TakenOnce /\ QueuedOrTaken /\ NoneIsLost
  BY DEF Init, QueuedWait, TakenWait, QueuedOnce, TakenOnce, QueuedOrTaken, NoneIsLost, Waiting, Idle
<1> QED
  BY <1>1, <1>2, <1>3 DEF IndInv

\* Every step keeps the invariant.
LEMMA NextKeeps == IndInv /\ [Next]_vars => IndInv'
<1> SUFFICES ASSUME IndInv, [Next]_vars PROVE IndInv'
  OBVIOUS
<1>1. ASSUME NEW t \in Task, GetWorker(t) \/ Push(t) \/ Get(t) PROVE IndInv'
  BY <1>1, GetWorkerKeeps, PushKeeps, GetKeeps
<1>2. ASSUME NEW w \in Worker, Check(w) PROVE IndInv'
  <2>1. TypeOK'
    BY <1>2 DEF IndInv, TypeOK, Check, WorkerGoto, WorkerState
  <2> QED
    BY <1>2, <2>1, QuietKeeps DEF IndInv, TypeOK, Check, WorkerGoto, WorkerState
<1>3. ASSUME NEW w \in Worker, Pop(w) PROVE IndInv'
  <2>1. CASE queues[w] # <<>> /\ TakeFrom(w, w)
    BY <1>3, <2>1, TakeKeeps DEF Pop
  <2>2. CASE queues[w] = <<>> /\ WorkerGoto(w, "steal") /\ UNCHANGED queues
    <3>1. TypeOK'
      BY <1>3, <2>2 DEF IndInv, TypeOK, Pop, WorkerGoto, WorkerState
    <3> QED
      BY <1>3, <2>2, <3>1, QuietKeeps DEF IndInv, TypeOK, Pop, WorkerGoto, WorkerState
  <2> QED
    BY <1>3, <2>1, <2>2 DEF Pop
<1>4. ASSUME NEW w \in Worker, Steal(w) PROVE IndInv'
  <2>1. CASE queues[Donor(w)] # <<>> /\ TakeFrom(w, Donor(w))
    BY <1>4, <2>1, TakeKeeps, DonorIsWorker DEF Steal
  <2>2. CASE queues[Donor(w)] = <<>> /\ WorkerGoto(w, "loop") /\ UNCHANGED queues
    <3>1. TypeOK'
      BY <1>4, <2>2 DEF IndInv, TypeOK, Steal, WorkerGoto, WorkerState
    <3> QED
      BY <1>4, <2>2, <3>1, QuietKeeps DEF IndInv, TypeOK, Steal, WorkerGoto, WorkerState
  <2> QED
    BY <1>4, <2>1, <2>2 DEF Steal
<1>5. ASSUME NEW w \in Worker, Run(w) PROVE IndInv'
  BY <1>5, RunKeeps
<1>6. ASSUME NEW w \in Worker, Stop(w) PROVE IndInv'
  <2>1. TypeOK'
    BY <1>6 DEF IndInv, TypeOK, Stop
  <2> QED
    BY <1>6, <2>1, QuietKeeps DEF Stop
<1>7. ASSUME NEW w \in Worker, Join(w) PROVE IndInv'
  <2>1. TypeOK'
    BY <1>7 DEF IndInv, TypeOK, Join
  <2> QED
    BY <1>7, <2>1, QuietKeeps DEF Join
<1>8. CASE UNCHANGED vars
  <2>1. TypeOK'
    BY <1>8 DEF IndInv, TypeOK, vars
  <2> QED
    BY <1>8, <2>1, QuietKeeps DEF vars
<1> QED
  BY <1>1, <1>2, <1>3, <1>4, <1>5, <1>6, <1>7, <1>8 DEF Next, Work

\* The invariant holds in every behaviour, whatever the fairness.
THEOREM Invariance == Spec => []IndInv
BY InitHolds, NextKeeps, PTL DEF Spec

\* Every variable keeps its type: the turn in particular never leaves the workers.
THEOREM TypeCorrect == Spec => []TypeOK
<1>1. IndInv => TypeOK
  BY DEF IndInv
<1> QED
  BY <1>1, Invariance, PTL

\* A task that nobody waits for is nowhere.
LEMMA NotWaitingIsNowhere ==
    ASSUME IndInv, NEW t \in Task, ~ Waiting(t)
    PROVE  Places(t) = {}
BY PoolAssumption DEF IndInv, Places, QueuedWait, TakenWait

\* A task that is waited for has one place.
LEMMA WaitingHasOnePlace ==
    ASSUME IndInv, NEW t \in Task, Waiting(t)
    PROVE  \E p : Places(t) = {p}
<1> USE DEF IndInv
<1>1. CASE Queued(t)
  <2>1. PICK w \in Worker : \E i \in 1 .. Len(queues[w]) : queues[w][i] = t
    BY <1>1 DEF Queued
  <2>2. PICK i \in 1 .. Len(queues[w]) : queues[w][i] = t
    BY <2>1
  <2>3. i \in 1 .. Capacity /\ i <= Len(queues[w])
    BY PoolAssumption DEF TypeOK, QueuesAreBounded
  <2>4. \A v \in Worker : workers[v].task # t
    BY <2>2 DEF QueuedOrTaken
  <2>5. ASSUME NEW v \in Worker, NEW j \in 1 .. Capacity, j <= Len(queues[v]), queues[v][j] = t
        PROVE  v = w /\ j = i
    <3>1. j \in 1 .. Len(queues[v])
      BY <2>5, PoolAssumption DEF TypeOK
    <3> QED
      BY <2>2, <2>5, <3>1 DEF QueuedOnce
  <2>6. Places(t) = {<<w, i>>}
    BY <2>2, <2>3, <2>4, <2>5 DEF Places
  <2> QED
    BY <2>6
<1>2. CASE Taken(t)
  <2>1. PICK w \in Worker : workers[w].task = t
    BY <1>2 DEF Taken
  <2>2. \A v \in Worker : workers[v].task = t => v = w
    BY <2>1, PoolAssumption DEF TakenOnce
  <2>3. ASSUME NEW v \in Worker, NEW j \in 1 .. Capacity, j <= Len(queues[v]) PROVE queues[v][j] # t
    <3>1. j \in 1 .. Len(queues[v])
      BY <2>3, PoolAssumption DEF TypeOK
    <3> QED
      BY <2>1, <3>1 DEF QueuedOrTaken
  <2>4. Places(t) = {<<w, 0>>}
    BY <2>1, <2>2, <2>3 DEF Places
  <2> QED
    BY <2>4
<1> QED
  BY <1>1, <1>2 DEF NoneIsLost

\* post, threadFunc and the steal: a task that is waited for is in one place, for any number of workers.
THEOREM WaitingAreSomewhere == Spec => []WaitingTasksAreSomewhere
<1>1. IndInv => WaitingTasksAreSomewhere
  <2> SUFFICES ASSUME IndInv, NEW t \in Task
               PROVE  Cardinality(Places(t)) = IF Waiting(t) THEN 1 ELSE 0
    BY DEF WaitingTasksAreSomewhere, Waiting
  <2>1. CASE Waiting(t)
    BY <2>1, WaitingHasOnePlace, FS_Singleton
  <2>2. CASE ~ Waiting(t)
    BY <2>2, NotWaitingIsNowhere, FS_EmptySet
  <2> QED
    BY <2>1, <2>2
<1> QED
  BY <1>1, Invariance, PTL
=============================================================================
