------------------------- MODULE BoundedQueueProofs -------------------------
(***************************************************************************)
(* The ring of cells implements a bounded queue for any number of threads, *)
(* of tasks and of cells but one.                                          *)
(*                                                                         *)
(* The numbers of the cells carry the argument.  A thread that owns a cell *)
(* finds its own number there, and two owners of one cell would need two   *)
(* numbers: so nobody else stores there, and the number an operation saw   *)
(* before its exchange is still there if the exchange succeeds.  From the  *)
(* positions that wait, or are free, and the numbers they carry, it        *)
(* follows that the exchange of a push finds room and that of a pop a task.*)
(***************************************************************************)
EXTENDS BoundedQueue, SequenceTheorems, TLAPS

----------------------------------------------------------------------------
(* The inductive invariant.                                                *)

Owner(t) == op[t].pc \in {"move", "store"}

OwnersHaveTheNumber ==
    \A t \in Thread : Owner(t) =>
        /\ sequence[Cell(op[t].pos)] = Ready(op[t].kind, op[t].pos)
        /\ op[t].pos < position[op[t].kind]

OneOwnerPerPosition ==
    \A t, u \in Thread :
        Owner(t) /\ Owner(u) /\ op[t].kind = op[u].kind /\ op[t].pos = op[u].pos => t = u

PositionsWereReached ==
    \A t \in Thread : op[t].pc \in {"cell", "cas"} => op[t].pos <= position[op[t].kind]

\* What a thread saw is still there, or its exchange fails.
ClaimsAreFresh ==
    \A t \in Thread : At(t, "cas") /\ op[t].pos = position[op[t].kind] => Dif(t) = 0

NumbersAreKept ==
    OwnersHaveTheNumber /\ OneOwnerPerPosition /\ PositionsWereReached /\ ClaimsAreFresh

PushesHaveTasks == \A t \in Thread : op[t].kind = "push" /\ ~ At(t, "idle") => op[t].task \in Task

MovedIsThere ==
    \A t \in Thread : op[t].kind = "push" /\ At(t, "store") => data[Cell(op[t].pos)] = op[t].task

PopsHaveTasks ==
    \A t \in Thread : op[t].kind = "pop" =>
        /\ At(t, "move") => data[Cell(op[t].pos)] \in Task
        /\ At(t, "store") => op[t].task \in Task

WindowIsBounded == position["pop"] <= position["push"] /\ position["push"] <= position["pop"] + Size

\* A position that waits is owned by its push, or has its task.
WaitingAreFull ==
    \A p \in Nat : position["pop"] <= p /\ p < position["push"] =>
        \/ \E t \in Thread : Owns(t, "push") /\ op[t].pos = p
        \/ sequence[Cell(p)] = p + 1 /\ data[Cell(p)] \in Task

\* A position that is free may be pushed to, or the pop of the lap before owns it.
OthersAreFree ==
    \A p \in Nat : position["push"] <= p /\ p < position["pop"] + Size =>
        \/ sequence[Cell(p)] = p
        \/ \E t \in Thread : Owns(t, "pop") /\ op[t].pos + Size = p

TasksAreKept ==
    /\ PushesHaveTasks /\ MovedIsThere /\ PopsHaveTasks
    /\ WindowIsBounded /\ WaitingAreFull /\ OthersAreFree

IndInv == TypeOK /\ NumbersAreKept /\ TasksAreKept

----------------------------------------------------------------------------
(* Cells and positions.                                                    *)

\* Every position has a cell.
LEMMA CellIsCell == \A p \in Nat : Cell(p) \in 0 .. Size - 1
BY RingAssumption DEF Cell

\* Two cells are not a lap, or several, apart.
LEMMA LapsAreLong ==
    ASSUME NEW i \in 0 .. Size - 1, NEW j \in 0 .. Size - 1, NEW d \in Int, i - j = Size * d
    PROVE  d = 0 /\ i = j
<1>1. Size \in Nat /\ Size > 1
  BY RingAssumption
<1>2. Size * d < Size /\ Size * d > - Size
  BY <1>1
<1>3. d < 1 /\ d > -1
  BY <1>1, <1>2
<1> QED
  BY <1>1, <1>3

\* A lap later it is the same cell.
LEMMA NextLap ==
    ASSUME NEW p \in Nat
    PROVE  Cell(p + Size) = Cell(p)
<1> DEFINE a == p \div Size
           b == (p + Size) \div Size
<1>1. Size \in Nat /\ Size > 1 /\ p + Size \in Nat
  BY RingAssumption
<1>2. a \in Int /\ b \in Int /\ p = Size * a + Cell(p) /\ p + Size = Size * b + Cell(p + Size)
  BY <1>1 DEF Cell
<1> HIDE DEF a, b
<1>3. Cell(p) \in 0 .. Size - 1 /\ Cell(p + Size) \in 0 .. Size - 1
  BY <1>1, CellIsCell
<1> DEFINE d == a - b + 1
<1>4. d \in Int /\ Cell(p + Size) - Cell(p) = Size * d
  BY <1>1, <1>2, <1>3
<1> HIDE DEF d
<1> QED
  BY <1>3, <1>4, LapsAreLong

\* Positions less than a lap apart have different cells.
LEMMA WithinALap ==
    ASSUME NEW p \in Nat, NEW q \in Nat, p <= q, q < p + Size, Cell(p) = Cell(q)
    PROVE  p = q
<1> DEFINE a == p \div Size
           b == q \div Size
<1>1. Size \in Nat /\ Size > 1
  BY RingAssumption
<1>2. a \in Int /\ b \in Int /\ p = Size * a + Cell(p) /\ q = Size * b + Cell(q)
  BY <1>1 DEF Cell
<1> HIDE DEF a, b
<1>3. q - p = Size * (b - a)
  BY <1>1, <1>2, CellIsCell
<1>4. b - a < 1 /\ b - a > -1
  BY <1>1, <1>2, <1>3
<1> QED
  BY <1>2, <1>3, <1>4

\* The same for any two positions.
LEMMA SameCell ==
    ASSUME NEW p \in Nat, NEW q \in Nat, p < q + Size, q < p + Size, Cell(p) = Cell(q)
    PROVE  p = q
<1>1. CASE p <= q
  BY <1>1, WithinALap
<1>2. CASE q <= p
  BY <1>2, WithinALap
<1> QED
  BY <1>1, <1>2

----------------------------------------------------------------------------
(* Numbers.                                                                *)

\* Two operations that find the same number in one cell are one.
LEMMA NumberTellsApart ==
    ASSUME NEW j \in Kind, NEW k \in Kind, NEW p \in Nat, NEW q \in Nat,
           Ready(j, p) = Ready(k, q), Cell(p) = Cell(q)
    PROVE  j = k /\ p = q
<1>1. Size \in Nat /\ Size > 1
  BY RingAssumption
<1>2. p < q + Size /\ q < p + Size
  BY <1>1 DEF Ready, Kind
<1>3. p = q
  BY <1>2, SameCell
<1> QED
  BY <1>3 DEF Ready, Kind

\* A cell has one owner.
LEMMA OwnersAreAlone ==
    ASSUME TypeOK, NumbersAreKept, NEW t \in Thread, NEW u \in Thread, Owner(t), Owner(u),
           Cell(op[t].pos) = Cell(op[u].pos)
    PROVE  t = u
<1>1. op[t].kind \in Kind /\ op[u].kind \in Kind /\ op[t].pos \in Nat /\ op[u].pos \in Nat
  BY DEF TypeOK, Op
<1>2. Ready(op[t].kind, op[t].pos) = Ready(op[u].kind, op[u].pos)
  BY DEF NumbersAreKept, OwnersHaveTheNumber
<1>3. op[t].kind = op[u].kind /\ op[t].pos = op[u].pos
  BY <1>1, <1>2, NumberTellsApart
<1> QED
  BY <1>3 DEF NumbersAreKept, OneOwnerPerPosition

\* Nobody stores in a cell whose number is the one an operation ahead of the others waits for.
LEMMA FreshIsNotOwned ==
    ASSUME TypeOK, NumbersAreKept, NEW t \in Thread, Owner(t), NEW k \in Kind, NEW p \in Nat,
           p >= position[k], sequence[Cell(p)] = Ready(k, p)
    PROVE  Cell(op[t].pos) # Cell(p)
<1>1. op[t].kind \in Kind /\ op[t].pos \in Nat /\ position \in [Kind -> Nat]
  BY DEF TypeOK, Op
<1>2. /\ sequence[Cell(op[t].pos)] = Ready(op[t].kind, op[t].pos)
      /\ op[t].pos < position[op[t].kind]
  BY DEF NumbersAreKept, OwnersHaveTheNumber
<1> SUFFICES ASSUME Cell(op[t].pos) = Cell(p) PROVE FALSE
  OBVIOUS
<1>3. Ready(op[t].kind, op[t].pos) = Ready(k, p)
  BY <1>2
<1>4. op[t].kind = k /\ op[t].pos = p
  BY <1>1, <1>3, NumberTellsApart
<1> QED
  BY <1>1, <1>2, <1>4

\* The number an operation leaves is a number.
LEMMA AfterIsNumber == \A k \in Kind, p \in Nat : After(k, p) \in Nat /\ Ready(k, p) \in Nat
BY RingAssumption DEF After, Ready

----------------------------------------------------------------------------
(* Each action keeps the invariant.                                        *)

\* Looking, and looking again: no cell changes its owner, its number or its task.
LEMMA QuietKeeps ==
    ASSUME IndInv, NEW t \in Thread, NEW c \in Op, op' = [op EXCEPT ![t] = c],
           UNCHANGED <<sequence, data, position>>, pushed' \subseteq Task,
           ~ Owner(t), c.pc \notin {"move", "store"},
           c.pc \in {"cell", "cas"} => c.pos <= position[c.kind],
           c.pc = "cas" => sequence[Cell(c.pos)] = Ready(c.kind, c.pos) \/ c.pos # position[c.kind],
           c.kind = "push" /\ c.pc # "idle" => c.task \in Task
    PROVE  IndInv'
<1> USE DEF IndInv
<1>1. op'[t] = c /\ \A u \in Thread \ {t} : op'[u] = op[u]
  BY DEF TypeOK
<1>2. TypeOK'
  BY DEF TypeOK
<1>3. ~ Owner(t)' /\ \A u \in Thread \ {t} : Owner(u)' <=> Owner(u)
  BY <1>1 DEF Owner
<1>4. OwnersHaveTheNumber' /\ OneOwnerPerPosition'
  BY <1>1, <1>3 DEF NumbersAreKept, OwnersHaveTheNumber, OneOwnerPerPosition
<1>5. PositionsWereReached'
  BY <1>1 DEF NumbersAreKept, PositionsWereReached
<1>6. ClaimsAreFresh'
  <2> SUFFICES ASSUME NEW u \in Thread, At(u, "cas")', op'[u].pos = position[op'[u].kind]
               PROVE  Dif(u)' = 0
    BY DEF ClaimsAreFresh
  <2>1. CASE u = t
    <3>1. c.kind \in Kind /\ c.pos \in Nat
      BY DEF Op
    <3> QED
      BY <1>1, <2>1, <3>1, AfterIsNumber DEF At, Dif
  <2>2. CASE u # t
    BY <1>1, <2>2 DEF NumbersAreKept, ClaimsAreFresh, At, Dif
  <2> QED
    BY <2>1, <2>2
<1>7. PushesHaveTasks' /\ MovedIsThere' /\ PopsHaveTasks'
  BY <1>1 DEF TasksAreKept, PushesHaveTasks, MovedIsThere, PopsHaveTasks, At
<1>8. WindowIsBounded'
  BY DEF TasksAreKept, WindowIsBounded
<1>9. \A u \in Thread, k \in Kind : Owns(u, k) => Owns(u, k)' /\ op'[u].pos = op[u].pos
  BY <1>1 DEF Owns, Owner
<1>10. WaitingAreFull'
  BY <1>9 DEF TasksAreKept, WaitingAreFull, Kind
<1>11. OthersAreFree'
  BY <1>9 DEF TasksAreKept, OthersAreFree, Kind
<1> QED
  BY <1>2, <1>4, <1>5, <1>6, <1>7, <1>8, <1>10, <1>11 DEF NumbersAreKept, TasksAreKept

\* A thread begins with a task of its own, or with none.
LEMMA BeginKeeps ==
    ASSUME IndInv, NEW t \in Thread, BeginPop(t) \/ \E task \in Task : BeginPush(t, task)
    PROVE  IndInv'
<1>1. ~ Owner(t) /\ UNCHANGED <<sequence, data, position>>
  BY DEF BeginPop, BeginPush, At, Owner
<1>2. CASE BeginPop(t)
  <2> DEFINE c == [pc |-> "load", kind |-> "pop", pos |-> 0, task |-> Nothing]
  <2>1. c \in Op /\ c.pc = "load" /\ c.kind # "push"
    BY DEF Op, Label, Kind
  <2>2. op' = [op EXCEPT ![t] = c] /\ pushed' \subseteq Task
    BY <1>2 DEF BeginPop, IndInv, TypeOK
  <2> HIDE DEF c
  <2> QED
    BY <1>1, <2>1, <2>2, QuietKeeps
<1>3. ASSUME NEW task \in Task, BeginPush(t, task) PROVE IndInv'
  <2> DEFINE c == [pc |-> "load", kind |-> "push", pos |-> 0, task |-> task]
  <2>1. c \in Op /\ c.pc = "load" /\ c.task = task
    BY DEF Op, Label, Kind
  <2>2. op' = [op EXCEPT ![t] = c] /\ pushed' \subseteq Task
    BY <1>3 DEF BeginPush, IndInv, TypeOK
  <2> HIDE DEF c
  <2> QED
    BY <1>1, <2>1, <2>2, QuietKeeps
<1> QED
  BY <1>2, <1>3

\* A position that is loaded, on entry or by an exchange that fails, was reached.
LEMMA LoadKeeps ==
    ASSUME IndInv, NEW t \in Thread, LoadPosition(t) \/ MissClaim(t)
    PROVE  IndInv'
<1> DEFINE c == [op[t] EXCEPT !.pc = "cell", !.pos = position[op[t].kind]]
<1>1. ~ Owner(t) /\ ~ At(t, "idle") /\ UNCHANGED <<sequence, data, position>> /\ pushed' \subseteq Task
  BY DEF LoadPosition, MissClaim, At, Owner, IndInv, TypeOK
<1>2. op' = [op EXCEPT ![t] = c]
  BY DEF LoadPosition, MissClaim
<1>3. /\ c \in Op /\ c.pc = "cell" /\ c.kind = op[t].kind /\ c.pos = position[c.kind] /\ c.task = op[t].task
      /\ position[c.kind] \in Nat
  BY DEF IndInv, TypeOK, Op, Label
<1>4. c.kind = "push" => c.task \in Task
  BY <1>1, <1>3 DEF IndInv, TasksAreKept, PushesHaveTasks
<1>5. c.pc \notin {"move", "store"} /\ c.pc # "cas" /\ c.pos <= position[c.kind]
  BY <1>3
<1> HIDE DEF c
<1> QED
  BY <1>1, <1>2, <1>3, <1>4, <1>5, QuietKeeps

\* A number that fits is fresh when it is read.
LEMMA ReadKeeps ==
    ASSUME IndInv, NEW t \in Thread, ReadSequence(t)
    PROVE  IndInv'
<1>1. ~ Owner(t) /\ At(t, "cell") /\ UNCHANGED <<sequence, data, position>> /\ pushed' \subseteq Task
  BY DEF ReadSequence, At, Owner, IndInv, TypeOK
<1>2. op[t] \in Op /\ op[t].pos \in Nat /\ op[t].kind \in Kind
  BY DEF IndInv, TypeOK, Op
<1>3. CASE Finish(t)
  <2>1. Idle \in Op /\ Idle.pc = "idle"
    BY DEF Idle, Op, Label, Kind
  <2> QED
    BY <1>1, <1>3, <2>1, QuietKeeps DEF Finish
<1>4. ASSUME NEW label \in {"cas", "load"}, Goto(t, label), label = "cas" => Dif(t) = 0 PROVE IndInv'
  <2> DEFINE c == [op[t] EXCEPT !.pc = label]
  <2>1. op' = [op EXCEPT ![t] = c]
    BY <1>4 DEF Goto
  <2>2. c \in Op /\ c.pc = label /\ c.kind = op[t].kind /\ c.pos = op[t].pos /\ c.task = op[t].task
    BY <1>2 DEF Op, Label
  <2>3. c.pos <= position[c.kind]
    BY <1>1, <2>2 DEF IndInv, NumbersAreKept, PositionsWereReached, At
  <2>4. c.kind = "push" => c.task \in Task
    BY <1>1, <2>2 DEF IndInv, TasksAreKept, PushesHaveTasks, At
  <2>5. label = "cas" => sequence[Cell(c.pos)] = Ready(c.kind, c.pos)
    <3>1. sequence[Cell(op[t].pos)] \in Nat /\ Ready(op[t].kind, op[t].pos) \in Nat
      BY <1>2, CellIsCell, AfterIsNumber DEF IndInv, TypeOK
    <3> QED
      BY <1>4, <2>2, <3>1 DEF Dif
  <2> HIDE DEF c
  <2> QED
    BY <1>1, <2>1, <2>2, <2>3, <2>4, <2>5, QuietKeeps
<1> QED
  BY <1>3, <1>4 DEF ReadSequence

\* What an exchange that succeeds finds: its number, and room or a task.
LEMMA ClaimFinds ==
    ASSUME IndInv, NEW t \in Thread, Claim(t)
    PROVE  /\ op[t].kind \in Kind /\ op[t].pos \in Nat /\ op[t].pos = position[op[t].kind]
           /\ sequence[Cell(op[t].pos)] = Ready(op[t].kind, op[t].pos)
           /\ op[t].kind = "push" => position["push"] < position["pop"] + Size
           /\ op[t].kind = "pop" =>
                /\ position["pop"] < position["push"]
                /\ data[Cell(op[t].pos)] \in Task
                /\ \A u \in Thread : ~ (Owns(u, "push") /\ op[u].pos = op[t].pos)
<1> DEFINE p == op[t].pos
<1>1. op[t].kind \in Kind /\ p \in Nat /\ p = position[op[t].kind]
  BY DEF Claim, IndInv, TypeOK, Op
<1>2. Size \in Nat /\ Size > 1 /\ position["push"] \in Nat /\ position["pop"] \in Nat
  BY RingAssumption DEF IndInv, TypeOK, Kind
<1>3. sequence[Cell(p)] = Ready(op[t].kind, p)
  <2>1. sequence[Cell(p)] \in Nat /\ Ready(op[t].kind, p) \in Nat
    BY <1>1, CellIsCell, AfterIsNumber DEF IndInv, TypeOK
  <2>2. Dif(t) = 0
    BY DEF Claim, IndInv, NumbersAreKept, ClaimsAreFresh
  <2> QED
    BY <2>1, <2>2 DEF Dif
<1>4. ASSUME op[t].kind = "push" PROVE position["push"] < position["pop"] + Size
  <2> DEFINE q == position["pop"]
  <2> SUFFICES ASSUME p = q + Size PROVE FALSE
    BY <1>1, <1>2, <1>4 DEF IndInv, TasksAreKept, WindowIsBounded
  <2>1. sequence[Cell(q)] = q + Size
    BY <1>2, <1>3, <1>4, NextLap DEF Ready
  <2>2. q < position["push"]
    BY <1>1, <1>2, <1>4
  <2>3. CASE \E u \in Thread : Owns(u, "push") /\ op[u].pos = q
    BY <1>2, <2>1, <2>3 DEF IndInv, NumbersAreKept, OwnersHaveTheNumber, Owns, Owner, Ready
  <2>4. CASE sequence[Cell(q)] = q + 1
    BY <1>2, <2>1, <2>4
  <2> QED
    BY <1>2, <2>2, <2>3, <2>4 DEF IndInv, TasksAreKept, WaitingAreFull
<1>5. ASSUME op[t].kind = "pop"
      PROVE  /\ p < position["push"] /\ data[Cell(p)] \in Task
             /\ \A u \in Thread : ~ (Owns(u, "push") /\ op[u].pos = p)
  <2>1. sequence[Cell(p)] = p + 1
    BY <1>3, <1>5 DEF Ready
  <2>2. ASSUME NEW u \in Thread, Owns(u, "push"), op[u].pos = p PROVE FALSE
    <3>1. sequence[Cell(p)] = p
      BY <2>2 DEF IndInv, NumbersAreKept, OwnersHaveTheNumber, Owns, Owner, Ready
    <3> QED
      BY <1>1, <2>1, <3>1
  <2>3. ASSUME NEW u \in Thread, Owns(u, "pop"), op[u].pos + Size = p PROVE FALSE
    <3>1. op[u].pos \in Nat /\ sequence[Cell(op[u].pos)] = op[u].pos + 1
      BY <2>3 DEF IndInv, TypeOK, Op, NumbersAreKept, OwnersHaveTheNumber, Owns, Owner, Ready
    <3>2. Cell(p) = Cell(op[u].pos)
      BY <2>3, <3>1, NextLap
    <3> QED
      BY <1>2, <2>1, <2>3, <3>1, <3>2
  <2>4. p < position["push"]
    <3> SUFFICES ASSUME position["push"] <= p PROVE FALSE
      BY <1>1, <1>2
    <3>1. sequence[Cell(p)] = p \/ \E u \in Thread : Owns(u, "pop") /\ op[u].pos + Size = p
      BY <1>1, <1>2, <1>5 DEF IndInv, TasksAreKept, OthersAreFree
    <3> QED
      BY <1>1, <2>1, <2>3, <3>1
  <2>5. data[Cell(p)] \in Task
    BY <1>1, <1>5, <2>2, <2>4 DEF IndInv, TasksAreKept, WaitingAreFull
  <2> QED
    BY <2>2, <2>4, <2>5
<1> QED
  BY <1>1, <1>3, <1>4, <1>5

\* The exchange gives a thread the cell, and the position to nobody else.
LEMMA ClaimKeeps ==
    ASSUME IndInv, NEW t \in Thread, Claim(t)
    PROVE  IndInv'
<1> DEFINE k == op[t].kind
           p == op[t].pos
<1> USE DEF IndInv
<1>1. k \in Kind /\ p \in Nat /\ p = position[k] /\ sequence[Cell(p)] = Ready(k, p)
  BY ClaimFinds
<1>2. /\ op'[t].pc = "move" /\ op'[t].kind = k /\ op'[t].pos = p /\ op'[t].task = op[t].task
      /\ \A u \in Thread \ {t} : op'[u] = op[u]
      /\ At(t, "cas") /\ UNCHANGED <<sequence, data, pushed>>
  BY DEF Claim, Goto, TypeOK, Op, At
<1>3. /\ position'[k] = p + 1 /\ \A j \in Kind \ {k} : position'[j] = position[j]
      /\ \A j \in Kind : position[j] \in Nat /\ position'[j] \in Nat /\ position[j] <= position'[j]
      /\ position' \in [Kind -> Nat]
  BY <1>1 DEF Claim, TypeOK
<1>4. \A u \in Thread : op[u].kind \in Kind /\ op[u].pos \in Nat
  BY DEF TypeOK, Op
<1>5. TypeOK'
  <2>1. [op[t] EXCEPT !.pc = "move"] \in Op
    BY DEF TypeOK, Op, Label
  <2> QED
    BY <1>2, <1>3, <2>1 DEF TypeOK, Claim, Goto
<1>6. Owner(t)' /\ ~ Owner(t) /\ \A u \in Thread \ {t} : Owner(u)' <=> Owner(u)
  BY <1>2 DEF Owner, At
<1>7. OwnersHaveTheNumber'
  <2> SUFFICES ASSUME NEW u \in Thread, Owner(u)'
               PROVE  /\ sequence[Cell(op'[u].pos)] = Ready(op'[u].kind, op'[u].pos)
                      /\ op'[u].pos < position'[op'[u].kind]
    BY <1>2 DEF OwnersHaveTheNumber
  <2>1. CASE u = t
    BY <1>1, <1>2, <1>3, <2>1
  <2>2. CASE u # t
    BY <1>2, <1>3, <1>4, <1>6, <2>2 DEF NumbersAreKept, OwnersHaveTheNumber
  <2> QED
    BY <2>1, <2>2
<1>8. OneOwnerPerPosition'
  <2>1. ASSUME NEW u \in Thread \ {t}, Owner(u), op[u].kind = k PROVE op[u].pos # p
    BY <1>1, <1>4, <2>1 DEF NumbersAreKept, OwnersHaveTheNumber
  <2> QED
    BY <1>2, <1>6, <2>1 DEF NumbersAreKept, OneOwnerPerPosition
<1>9. PositionsWereReached'
  BY <1>2, <1>3, <1>4 DEF NumbersAreKept, PositionsWereReached
<1>10. ClaimsAreFresh'
  <2> SUFFICES ASSUME NEW u \in Thread, op'[u].pc = "cas", op'[u].pos = position'[op'[u].kind]
               PROVE  Dif(u)' = 0
    BY DEF ClaimsAreFresh, At
  <2>1. u # t /\ op'[u] = op[u] /\ op[u].pos <= position[op[u].kind]
    BY <1>2 DEF NumbersAreKept, PositionsWereReached
  <2>2. op[u].kind # k
    BY <1>1, <1>3, <1>4, <2>1
  <2> QED
    BY <1>2, <1>3, <1>4, <2>1, <2>2 DEF NumbersAreKept, ClaimsAreFresh, Dif, At
<1>11. PushesHaveTasks' /\ MovedIsThere'
  BY <1>2 DEF TasksAreKept, PushesHaveTasks, MovedIsThere, At
<1>12. PopsHaveTasks'
  <2>1. k = "pop" => data[Cell(p)] \in Task
    BY ClaimFinds
  <2> QED
    BY <1>2, <2>1 DEF TasksAreKept, PopsHaveTasks, At
<1>13. Size \in Nat /\ k \in {"push", "pop"} /\ "push" \in Kind /\ "pop" \in Kind
  BY <1>1, RingAssumption DEF Kind
<1>14. WindowIsBounded'
  <2>1. position["pop"] <= position["push"] /\ position["push"] <= position["pop"] + Size
    BY DEF TasksAreKept, WindowIsBounded
  <2>2. CASE k = "push"
    BY <1>1, <1>3, <1>13, <2>1, <2>2, ClaimFinds DEF WindowIsBounded
  <2>3. CASE k = "pop"
    BY <1>1, <1>3, <1>13, <2>1, <2>3, ClaimFinds DEF WindowIsBounded
  <2> QED
    BY <1>13, <2>2, <2>3
<1>15. \A u \in Thread, j \in Kind : Owns(u, j) => Owns(u, j)' /\ op'[u].pos = op[u].pos
  BY <1>2 DEF Owns, At
<1>16. Owns(t, k)'
  BY <1>2 DEF Owns
<1>17. WaitingAreFull'
  <2> SUFFICES ASSUME NEW q \in Nat, position'["pop"] <= q, q < position'["push"]
               PROVE  \/ \E u \in Thread : Owns(u, "push")' /\ op'[u].pos = q
                      \/ sequence[Cell(q)] = q + 1 /\ data[Cell(q)] \in Task
    BY <1>2 DEF WaitingAreFull
  <2>1. position["pop"] <= q
    BY <1>3, <1>13
  <2>2. CASE q < position["push"]
    BY <1>13, <1>15, <2>1, <2>2 DEF TasksAreKept, WaitingAreFull
  <2>3. CASE ~ q < position["push"]
    <3>1. k = "push" /\ q = p
      BY <1>1, <1>3, <1>13, <2>3
    <3> QED
      BY <1>2, <1>16, <3>1
  <2> QED
    BY <2>2, <2>3
<1>18. OthersAreFree'
  <2> SUFFICES ASSUME NEW q \in Nat, position'["push"] <= q, q < position'["pop"] + Size
               PROVE  \/ sequence[Cell(q)] = q
                      \/ \E u \in Thread : Owns(u, "pop")' /\ op'[u].pos + Size = q
    BY <1>2 DEF OthersAreFree
  <2>1. position["push"] <= q
    BY <1>3, <1>13
  <2>2. CASE q < position["pop"] + Size
    BY <1>13, <1>15, <2>1, <2>2 DEF TasksAreKept, OthersAreFree
  <2>3. CASE ~ q < position["pop"] + Size
    <3>1. k = "pop" /\ q = p + Size
      BY <1>1, <1>3, <1>13, <2>3
    <3> QED
      BY <1>2, <1>16, <3>1
  <2> QED
    BY <2>2, <2>3
<1> QED
  BY <1>5, <1>7, <1>8, <1>9, <1>10, <1>11, <1>12, <1>14, <1>17, <1>18 DEF NumbersAreKept, TasksAreKept

\* What an owner is sure of.
LEMMA OwnerHas ==
    ASSUME IndInv, NEW t \in Thread, Owner(t)
    PROVE  /\ op[t].kind \in Kind /\ op[t].pos \in Nat /\ Cell(op[t].pos) \in 0 .. Size - 1
           /\ sequence[Cell(op[t].pos)] = Ready(op[t].kind, op[t].pos)
           /\ op[t].pos < position[op[t].kind]
           /\ \A u \in Thread \ {t} : Owner(u) => Cell(op[u].pos) # Cell(op[t].pos)
BY CellIsCell, OwnersAreAlone DEF IndInv, TypeOK, Op, NumbersAreKept, OwnersHaveTheNumber

\* The task that is moved is a task, and the cell nobody else's.
LEMMA MoveKeeps ==
    ASSUME IndInv, NEW t \in Thread, MoveData(t)
    PROVE  IndInv'
<1> DEFINE p == op[t].pos
<1> USE DEF IndInv
<1>1. At(t, "move") /\ Owner(t) /\ UNCHANGED <<sequence, position, pushed>>
  BY DEF MoveData, At, Owner
<1>2. /\ op'[t].pc = "store" /\ op'[t].kind = op[t].kind /\ op'[t].pos = p
      /\ \A u \in Thread \ {t} : op'[u] = op[u]
  BY DEF MoveData, Goto, TypeOK, Op
<1>3. /\ op[t].kind = "push" => op'[t].task = op[t].task /\ data'[Cell(p)] = op[t].task /\ op[t].task \in Task
      /\ op[t].kind = "pop" => op'[t].task = data[Cell(p)] /\ data[Cell(p)] \in Task
      /\ op[t].kind \in {"push", "pop"}
  <2>1. op[t].kind \in {"push", "pop"} /\ Cell(p) \in 0 .. Size - 1
    BY <1>1, OwnerHas DEF Kind
  <2>2. CASE op[t].kind = "push"
    <3>1. op[t].task \in Task
      BY <1>1, <2>2 DEF TasksAreKept, PushesHaveTasks, At
    <3>2. data' = [data EXCEPT ![Cell(p)] = op[t].task] /\ op' = [op EXCEPT ![t].pc = "store"]
      BY <2>2 DEF MoveData, Goto
    <3> QED
      BY <2>1, <2>2, <3>1, <3>2 DEF TypeOK, Op
  <2>3. CASE op[t].kind = "pop"
    <3>1. data[Cell(p)] \in Task
      BY <1>1, <2>3 DEF TasksAreKept, PopsHaveTasks
    <3>2. op' = [op EXCEPT ![t].pc = "store", ![t].task = data[Cell(p)]]
      BY <2>3 DEF MoveData
    <3> QED
      BY <2>1, <2>3, <3>1, <3>2 DEF TypeOK, Op
  <2> QED
    BY <2>1, <2>2, <2>3
<1>4. /\ \A i \in 0 .. Size - 1 : i # Cell(p) => data'[i] = data[i]
      /\ \A i \in 0 .. Size - 1 : data[i] \in Task => data'[i] \in Task
      /\ data' \in [0 .. Size - 1 -> Task \cup {Nothing}]
  BY <1>1, <1>3, OwnerHas DEF MoveData, TypeOK
<1>5. TypeOK'
  <2>1. op' \in [Thread -> Op]
    <3>1. CASE op[t].kind = "push"
      BY <3>1 DEF MoveData, Goto, TypeOK, Op, Label
    <3>2. CASE op[t].kind = "pop"
      <4>1. [op[t] EXCEPT !.pc = "store", !.task = data[Cell(p)]] \in Op
        BY <1>3, <3>2 DEF TypeOK, Op, Label
      <4>2. op' = [op EXCEPT ![t] = [op[t] EXCEPT !.pc = "store", !.task = data[Cell(p)]]]
        BY <3>2 DEF MoveData
      <4> QED
        BY <4>1, <4>2 DEF TypeOK
    <3> QED
      BY <1>3, <3>1, <3>2
  <2> QED
    BY <1>1, <1>4, <2>1 DEF TypeOK
<1>6. \A u \in Thread : (Owner(u)' <=> Owner(u)) /\ op'[u].kind = op[u].kind /\ op'[u].pos = op[u].pos
  BY <1>1, <1>2 DEF Owner
<1>7. OwnersHaveTheNumber' /\ OneOwnerPerPosition'
  BY <1>1, <1>6 DEF NumbersAreKept, OwnersHaveTheNumber, OneOwnerPerPosition
<1>8. PositionsWereReached' /\ ClaimsAreFresh'
  BY <1>1, <1>2 DEF NumbersAreKept, PositionsWereReached, ClaimsAreFresh, At, Dif
<1>9. PushesHaveTasks'
  BY <1>2, <1>3 DEF TasksAreKept, PushesHaveTasks, At
<1>10. MovedIsThere'
  <2> SUFFICES ASSUME NEW u \in Thread, op'[u].kind = "push", op'[u].pc = "store"
               PROVE  data'[Cell(op'[u].pos)] = op'[u].task
    BY DEF MovedIsThere, At
  <2>1. CASE u = t
    BY <1>2, <1>3, <2>1
  <2>2. CASE u # t
    <3>1. Owner(u) /\ op'[u] = op[u]
      BY <1>2, <2>2 DEF Owner
    <3>2. Cell(op[u].pos) \in 0 .. Size - 1 /\ Cell(op[u].pos) # Cell(p)
      BY <1>1, <2>2, <3>1, OwnerHas
    <3> QED
      BY <1>4, <3>1, <3>2 DEF TasksAreKept, MovedIsThere, At
  <2> QED
    BY <2>1, <2>2
<1>11. PopsHaveTasks'
  <2> SUFFICES ASSUME NEW u \in Thread, op'[u].kind = "pop"
               PROVE  /\ op'[u].pc = "move" => data'[Cell(op'[u].pos)] \in Task
                      /\ op'[u].pc = "store" => op'[u].task \in Task
    BY DEF PopsHaveTasks, At
  <2>1. CASE u = t
    BY <1>2, <1>3, <2>1
  <2>2. CASE u # t
    <3>1. Cell(op[u].pos) \in 0 .. Size - 1
      BY CellIsCell DEF TypeOK, Op
    <3> QED
      BY <1>2, <1>4, <2>2, <3>1 DEF TasksAreKept, PopsHaveTasks, At
  <2> QED
    BY <2>1, <2>2
<1>12. WindowIsBounded'
  BY <1>1 DEF TasksAreKept, WindowIsBounded
<1>13. \A u \in Thread, k \in Kind : Owns(u, k)' <=> Owns(u, k)
  BY <1>6 DEF Owns, Owner
<1>14. WaitingAreFull' /\ OthersAreFree'
  BY <1>1, <1>4, <1>6, <1>13, CellIsCell DEF TasksAreKept, WaitingAreFull, OthersAreFree, Kind
<1> QED
  BY <1>5, <1>7, <1>8, <1>9, <1>10, <1>11, <1>12, <1>14 DEF NumbersAreKept, TasksAreKept

\* The cell is given on: nobody else looks for the number it had.
LEMMA StoreKeeps ==
    ASSUME IndInv, NEW t \in Thread, StoreSequence(t)
    PROVE  IndInv'
<1> DEFINE k == op[t].kind
           p == op[t].pos
<1> USE DEF IndInv
<1>1. At(t, "store") /\ Owner(t) /\ UNCHANGED <<data, position, pushed>>
  BY DEF StoreSequence, At, Owner
<1>2. /\ k \in {"push", "pop"} /\ k \in Kind /\ p \in Nat /\ Cell(p) \in 0 .. Size - 1
      /\ sequence[Cell(p)] = Ready(k, p) /\ p < position[k]
  BY <1>1, OwnerHas DEF Kind
<1>3. op'[t] = Idle /\ \A u \in Thread \ {t} : op'[u] = op[u]
  BY DEF StoreSequence, Finish, TypeOK
<1>4. sequence'[Cell(p)] = After(k, p) /\ \A i \in 0 .. Size - 1 : i # Cell(p) => sequence'[i] = sequence[i]
  BY <1>2 DEF StoreSequence, TypeOK
<1>5. TypeOK'
  <2>1. Idle \in Op
    BY DEF Idle, Op, Label, Kind
  <2>2. op' \in [Thread -> Op] /\ sequence' \in [0 .. Size - 1 -> Nat]
    BY <1>2, <2>1, AfterIsNumber DEF StoreSequence, Finish, TypeOK
  <2> QED
    BY <1>1, <2>2 DEF TypeOK
<1>6. ~ Owner(t)' /\ \A u \in Thread \ {t} : Owner(u)' <=> Owner(u)
  BY <1>3 DEF Owner, Idle
<1>7. OwnersHaveTheNumber'
  <2> SUFFICES ASSUME NEW u \in Thread \ {t}, Owner(u)
               PROVE  /\ sequence'[Cell(op[u].pos)] = Ready(op[u].kind, op[u].pos)
                      /\ op[u].pos < position[op[u].kind]
    BY <1>1, <1>3, <1>6 DEF OwnersHaveTheNumber
  <2> QED
    BY <1>1, <1>4, OwnerHas
<1>8. OneOwnerPerPosition' /\ PositionsWereReached'
  BY <1>1, <1>3, <1>6 DEF NumbersAreKept, OneOwnerPerPosition, PositionsWereReached, Idle
<1>9. ClaimsAreFresh'
  <2> SUFFICES ASSUME NEW u \in Thread, op'[u].pc = "cas", op'[u].pos = position[op'[u].kind]
               PROVE  Dif(u)' = 0
    BY <1>1 DEF ClaimsAreFresh, At
  <2>1. u # t /\ op'[u] = op[u] /\ Dif(u) = 0
    BY <1>3 DEF NumbersAreKept, ClaimsAreFresh, Idle, At
  <2>2. op[u].kind \in Kind /\ op[u].pos \in Nat /\ Cell(op[u].pos) \in 0 .. Size - 1
    BY CellIsCell DEF TypeOK, Op
  <2>3. sequence[Cell(op[u].pos)] = Ready(op[u].kind, op[u].pos)
    <3>1. sequence[Cell(op[u].pos)] \in Nat /\ Ready(op[u].kind, op[u].pos) \in Nat
      BY <2>2, AfterIsNumber DEF TypeOK
    <3> QED
      BY <2>1, <3>1 DEF Dif
  <2>4. Cell(op[u].pos) # Cell(p)
    BY <1>1, <2>1, <2>2, <2>3, FreshIsNotOwned DEF TypeOK
  <2> QED
    BY <1>4, <2>1, <2>2, <2>4 DEF Dif
<1>10. PushesHaveTasks' /\ MovedIsThere' /\ PopsHaveTasks'
  BY <1>1, <1>3 DEF TasksAreKept, PushesHaveTasks, MovedIsThere, PopsHaveTasks, At, Idle
<1>11. WindowIsBounded'
  BY <1>1 DEF TasksAreKept, WindowIsBounded
<1>12. \A u \in Thread \ {t}, j \in Kind : Owns(u, j) => Owns(u, j)' /\ op'[u].pos = op[u].pos
  BY <1>3 DEF Owns
<1>13. Size \in Nat /\ Size > 1 /\ "push" \in Kind /\ "pop" \in Kind /\ position["push"] \in Nat /\ position["pop"] \in Nat
  BY RingAssumption DEF Kind, TypeOK
<1>14. WaitingAreFull'
  <2> SUFFICES ASSUME NEW q \in Nat, position["pop"] <= q, q < position["push"]
               PROVE  \/ \E u \in Thread : Owns(u, "push")' /\ op'[u].pos = q
                      \/ sequence'[Cell(q)] = q + 1 /\ data[Cell(q)] \in Task
    BY <1>1 DEF WaitingAreFull
  <2>1. CASE k = "push" /\ q = p
    BY <1>1, <1>4, <2>1 DEF After, TasksAreKept, MovedIsThere, PushesHaveTasks, At
  <2>2. ASSUME NEW u \in Thread, Owns(u, "push"), op[u].pos = q, ~ (k = "push" /\ q = p)
        PROVE  Owns(u, "push")' /\ op'[u].pos = q
    BY <1>12, <1>13, <2>2 DEF Owns
  <2>3. CASE sequence[Cell(q)] = q + 1 /\ data[Cell(q)] \in Task /\ ~ (k = "push" /\ q = p)
    <3>1. Cell(q) # Cell(p)
      <4> SUFFICES ASSUME Cell(q) = Cell(p) PROVE FALSE
        OBVIOUS
      <4>1. Ready("pop", q) = Ready(k, p)
        BY <1>2, <2>3 DEF Ready
      <4>2. k = "pop" /\ q = p
        BY <1>2, <1>13, <4>1, NumberTellsApart
      <4> QED
        BY <1>2, <1>13, <4>2
    <3> QED
      BY <1>4, <2>3, <3>1, CellIsCell
  <2> QED
    BY <2>1, <2>2, <2>3 DEF TasksAreKept, WaitingAreFull
<1>15. OthersAreFree'
  <2> SUFFICES ASSUME NEW q \in Nat, position["push"] <= q, q < position["pop"] + Size
               PROVE  \/ sequence'[Cell(q)] = q
                      \/ \E u \in Thread : Owns(u, "pop")' /\ op'[u].pos + Size = q
    BY <1>1 DEF OthersAreFree
  <2>1. CASE k = "pop" /\ p + Size = q
    BY <1>2, <1>4, <2>1, NextLap DEF After
  <2>2. ASSUME NEW u \in Thread, Owns(u, "pop"), op[u].pos + Size = q, ~ (k = "pop" /\ p + Size = q)
        PROVE  Owns(u, "pop")' /\ op'[u].pos + Size = q
    BY <1>12, <1>13, <2>2 DEF Owns
  <2>3. CASE sequence[Cell(q)] = q
    <3>1. Cell(q) # Cell(p)
      <4> SUFFICES ASSUME Cell(q) = Cell(p) PROVE FALSE
        OBVIOUS
      <4>1. Ready("push", q) = Ready(k, p)
        BY <1>2, <2>3 DEF Ready
      <4>2. k = "push" /\ q = p
        BY <1>2, <1>13, <4>1, NumberTellsApart
      <4> QED
        BY <1>2, <1>13, <4>2
    <3> QED
      BY <1>4, <2>3, <3>1, CellIsCell
  <2> QED
    BY <2>1, <2>2, <2>3 DEF TasksAreKept, OthersAreFree
<1> QED
  BY <1>5, <1>7, <1>8, <1>9, <1>10, <1>11, <1>14, <1>15 DEF NumbersAreKept, TasksAreKept

----------------------------------------------------------------------------
(* The invariant and what follows from it.                                 *)

\* In a new ring each cell is free for the position of its index.
LEMMA InitHolds == Init => IndInv
<1> SUFFICES ASSUME Init PROVE IndInv
  OBVIOUS
<1>1. Size \in Nat /\ Size > 1
  BY RingAssumption
<1>2. TypeOK
  BY <1>1 DEF Init, TypeOK, Op, Idle, Label, Kind
<1>3. \A t \in Thread : op[t].pc = "idle" /\ ~ Owner(t)
  BY DEF Init, Idle, Owner
<1>4. NumbersAreKept
  BY <1>3 DEF NumbersAreKept, OwnersHaveTheNumber, OneOwnerPerPosition, PositionsWereReached, ClaimsAreFresh, At
<1>5. PushesHaveTasks /\ MovedIsThere /\ PopsHaveTasks
  BY <1>3 DEF PushesHaveTasks, MovedIsThere, PopsHaveTasks, At
<1>6. position["push"] = 0 /\ position["pop"] = 0
  BY DEF Init, Kind
<1>7. WindowIsBounded /\ WaitingAreFull
  BY <1>1, <1>6 DEF WindowIsBounded, WaitingAreFull
<1>8. OthersAreFree
  <2>1. ASSUME NEW q \in Nat, q < Size PROVE sequence[Cell(q)] = q
    <3>1. Cell(q) \in 0 .. Size - 1 /\ Cell(Cell(q)) = Cell(q)
      BY <1>1, <2>1, CellIsCell DEF Cell
    <3>2. Cell(q) = q
      BY <1>1, <2>1, <3>1, SameCell
    <3> QED
      BY <3>1, <3>2 DEF Init
  <2>2. \A q \in Nat : q < position["pop"] + Size => q < Size
    BY <1>1, <1>6
  <2> QED
    BY <2>1, <2>2 DEF OthersAreFree
<1> QED
  BY <1>2, <1>4, <1>5, <1>7, <1>8 DEF IndInv, TasksAreKept

\* Every step keeps the invariant.
LEMMA NextKeeps == IndInv /\ [Next]_vars => IndInv'
<1> SUFFICES ASSUME IndInv, [Next]_vars PROVE IndInv'
  OBVIOUS
<1>1. ASSUME NEW t \in Thread, BeginPop(t) \/ \E task \in Task : BeginPush(t, task) PROVE IndInv'
  BY <1>1, BeginKeeps
<1>2. ASSUME NEW t \in Thread, Step(t) PROVE IndInv'
  BY <1>2, LoadKeeps, ReadKeeps, ClaimKeeps, MoveKeeps, StoreKeeps DEF Step
<1>3. CASE UNCHANGED vars
  <2> USE <1>3 DEF IndInv, vars
  <2>1. TypeOK'
    BY DEF TypeOK
  <2>2. NumbersAreKept'
    BY DEF NumbersAreKept, OwnersHaveTheNumber, OneOwnerPerPosition, PositionsWereReached, ClaimsAreFresh, Owner, At, Dif
  <2>3. TasksAreKept'
    BY DEF TasksAreKept, PushesHaveTasks, MovedIsThere, PopsHaveTasks, WindowIsBounded, WaitingAreFull, OthersAreFree, At, Owns
  <2> QED
    BY <2>1, <2>2, <2>3
<1> QED
  BY <1>1, <1>2, <1>3, RingAssumption DEF Next

\* The invariant holds in every behaviour, fair or not.
THEOREM Invariance == Spec => []IndInv
BY InitHolds, NextKeeps, PTL DEF Spec

\* Every variable keeps its type: the numbers and the positions never go below zero.
THEOREM TypeCorrect == Spec => []TypeOK
<1>1. IndInv => TypeOK
  BY DEF IndInv
<1> QED
  BY <1>1, Invariance, PTL

\* push and pop: no two threads are between exchange and store on one cell.
THEOREM OneOwnerPerCell == Spec => []CellsAreExclusive
<1>1. IndInv => CellsAreExclusive
  BY OwnersAreAlone DEF IndInv, CellsAreExclusive, Owner
<1> QED
  BY <1>1, Invariance, PTL

----------------------------------------------------------------------------
(* The queue the ring stands for.                                          *)

\* What the definition of the task at a position comes to.
TasksAreKnown ==
    \A p \in Nat :
        /\ \A u \in Thread : Owns(u, "push") /\ op[u].pos = p => TaskAt(p) = op[u].task
        /\ (\A u \in Thread : ~ (Owns(u, "push") /\ op[u].pos = p)) => TaskAt(p) = data[Cell(p)]
        /\ position["pop"] <= p /\ p < position["push"] => TaskAt(p) \in Task

\* What the definition of the queue comes to.
QueueIsKnown ==
    /\ Queue \in Seq(Task)
    /\ Len(Queue) = position["push"] - position["pop"]
    /\ \A i \in 1 .. Len(Queue) : Queue[i] = TaskAt(position["pop"] + i - 1)

\* The thread whose task is meant is the only one that owns the position.
LEMMA TasksKnown == IndInv => TasksAreKnown
<1> SUFFICES ASSUME IndInv PROVE TasksAreKnown
  OBVIOUS
<1>1. ASSUME NEW p \in Nat, NEW u \in Thread, Owns(u, "push"), op[u].pos = p
      PROVE  TaskAt(p) = op[u].task /\ op[u].task \in Task
  <2>1. \A v \in Thread : Owns(v, "push") /\ op[v].pos = p => v = u
    BY <1>1 DEF IndInv, NumbersAreKept, OneOwnerPerPosition, Owner, Owns
  <2>2. (CHOOSE v \in Thread : Owns(v, "push") /\ op[v].pos = p) = u
    BY <1>1, <2>1
  <2>3. TaskAt(p) = op[u].task
    BY <1>1, <2>2 DEF TaskAt
  <2>4. op[u].task \in Task
    BY <1>1 DEF IndInv, TasksAreKept, PushesHaveTasks, Owns, At
  <2> QED
    BY <2>3, <2>4
<1>2. ASSUME NEW p \in Nat, \A u \in Thread : ~ (Owns(u, "push") /\ op[u].pos = p)
      PROVE  TaskAt(p) = data[Cell(p)]
  BY <1>2 DEF TaskAt
<1>3. ASSUME NEW p \in Nat, position["pop"] <= p, p < position["push"]
      PROVE  TaskAt(p) \in Task
  <2>1. CASE \E u \in Thread : Owns(u, "push") /\ op[u].pos = p
    BY <1>1, <2>1
  <2>2. CASE ~ \E u \in Thread : Owns(u, "push") /\ op[u].pos = p
    BY <1>2, <1>3, <2>2 DEF IndInv, TasksAreKept, WaitingAreFull
  <2> QED
    BY <2>1, <2>2
<1> QED
  BY <1>1, <1>2, <1>3 DEF TasksAreKnown

\* The queue is a sequence of the tasks at the positions that wait.
LEMMA QueueKnown == IndInv => QueueIsKnown
<1> SUFFICES ASSUME IndInv PROVE QueueIsKnown
  OBVIOUS
<1> DEFINE n == position["push"] - position["pop"]
<1>1. position["push"] \in Nat /\ position["pop"] \in Nat /\ n \in Nat
  BY DEF IndInv, TypeOK, Kind, TasksAreKept, WindowIsBounded
<1>2. ASSUME NEW i \in 1 .. n PROVE TaskAt(position["pop"] + i - 1) \in Task
  <2>1. position["pop"] + i - 1 \in Nat /\ position["pop"] <= position["pop"] + i - 1 /\ position["pop"] + i - 1 < position["push"]
    BY <1>1
  <2> QED
    BY <2>1, TasksKnown DEF TasksAreKnown
<1>3. Queue \in [1 .. n -> Task] /\ \A i \in 1 .. n : Queue[i] = TaskAt(position["pop"] + i - 1)
  BY <1>2 DEF Queue
<1> HIDE DEF n
<1>4. Queue \in Seq(Task)
  BY <1>1, <1>3, SeqDef
<1>5. Len(Queue) = n
  <2>1. DOMAIN Queue = 1 .. n /\ DOMAIN Queue = 1 .. Len(Queue) /\ Len(Queue) \in Nat
    BY <1>3, <1>4, LenProperties
  <2> QED
    BY <1>1, <2>1
<1> QED
  BY <1>3, <1>4, <1>5 DEF QueueIsKnown, n

\* Both are known after a step as well.
LEMMA KnownAfter == IndInv' => TasksAreKnown' /\ QueueIsKnown'
BY TasksKnown, QueueKnown, PTL

\* A step that moves no position leaves the queue alone, if it leaves the tasks in it alone.
LEMMA QueueStays ==
    ASSUME IndInv, IndInv', position' = position,
           \A p \in Nat : position["pop"] <= p /\ p < position["push"] => TaskAt(p)' = TaskAt(p)
    PROVE  Queue' = Queue
<1>1. QueueIsKnown /\ QueueIsKnown'
  BY QueueKnown, KnownAfter
<1>2. Queue \in Seq(Task) /\ Queue' \in Seq(Task) /\ Len(Queue') = Len(Queue)
  BY <1>1 DEF QueueIsKnown
<1>3. ASSUME NEW i \in 1 .. Len(Queue) PROVE Queue'[i] = Queue[i]
  <2>1. position["pop"] \in Nat /\ position["push"] \in Nat /\ Len(Queue) = position["push"] - position["pop"]
    BY <1>1 DEF QueueIsKnown, IndInv, TypeOK, Kind
  <2>2. PICK p \in Nat : p = position["pop"] + i - 1
    BY <2>1
  <2>3. position["pop"] <= p /\ p < position["push"]
    BY <2>1, <2>2
  <2>4. Queue[i] = TaskAt(p)
    BY <1>1, <2>2 DEF QueueIsKnown
  <2>5. p = position'["pop"] + i - 1
    BY <2>2
  <2>6. Queue'[i] = TaskAt(p)'
    BY <1>1, <1>2, <2>5 DEF QueueIsKnown
  <2>7. TaskAt(p)' = TaskAt(p)
    BY <2>3
  <2> QED
    BY <2>4, <2>6, <2>7
<1> QED
  BY <1>2, <1>3, SeqEqual

\* What the threads hold, as the abstract queue sees it.
HeldByAll == [t \in Thread |-> Held(t)]

\* Looking changes nothing.
LEMMA QuietStutters ==
    ASSUME IndInv, IndInv', NEW t \in Thread, ~ Owner(t), ~ Owner(t)',
           \A u \in Thread \ {t} : op'[u] = op[u], UNCHANGED <<data, position>>
    PROVE  Queue' = Queue /\ HeldByAll' = HeldByAll
<1>1. \A u \in Thread, k \in Kind : (Owns(u, k)' <=> Owns(u, k)) /\ (Owns(u, k) => op'[u] = op[u])
  BY DEF Owns, Owner
<1>2. ASSUME NEW p \in Nat PROVE TaskAt(p)' = TaskAt(p)
  <2>1. TasksAreKnown /\ TasksAreKnown'
    BY TasksKnown, KnownAfter
  <2>2. CASE \E u \in Thread : Owns(u, "push") /\ op[u].pos = p
    BY <1>1, <2>1, <2>2 DEF TasksAreKnown, Kind
  <2>3. CASE ~ \E u \in Thread : Owns(u, "push") /\ op[u].pos = p
    BY <1>1, <2>1, <2>3 DEF TasksAreKnown, Kind
  <2> QED
    BY <2>2, <2>3
<1>3. Queue' = Queue
  BY <1>2, QueueStays
<1>4. ASSUME NEW u \in Thread PROVE Held(u)' = Held(u)
  BY <1>1 DEF Held, Kind
<1> QED
  BY <1>3, <1>4 DEF HeldByAll

\* Moving a task into its cell, or out of it, changes nothing: it counts as there, or as held, before and after.
LEMMA MoveStutters ==
    ASSUME IndInv, IndInv', NEW t \in Thread, MoveData(t)
    PROVE  Queue' = Queue /\ HeldByAll' = HeldByAll
<1> DEFINE p == op[t].pos
<1>1. op[t].pc = "move" /\ Owner(t) /\ position' = position
  BY DEF MoveData, At, Owner
<1>2. /\ op'[t].pc = "store" /\ op'[t].kind = op[t].kind /\ op'[t].pos = p
      /\ \A u \in Thread \ {t} : op'[u] = op[u]
      /\ op[t].kind = "push" => op'[t].task = op[t].task
      /\ op[t].kind = "pop" => op'[t].task = data[Cell(p)] /\ data' = data
      /\ op[t].kind \in {"push", "pop"} /\ p \in Nat
  BY DEF MoveData, Goto, IndInv, TypeOK, Op, Kind
<1>3. \A i \in 0 .. Size - 1 : i # Cell(p) => data'[i] = data[i]
  BY DEF MoveData, IndInv, TypeOK
<1>4. \A u \in Thread, k \in Kind : (Owns(u, k)' <=> Owns(u, k)) /\ op'[u].pos = op[u].pos
  BY <1>1, <1>2 DEF Owns
<1>5. TasksAreKnown /\ TasksAreKnown'
  BY TasksKnown, KnownAfter
<1>6. ASSUME NEW q \in Nat, position["pop"] <= q, q < position["push"] PROVE TaskAt(q)' = TaskAt(q)
  <2>1. CASE \E u \in Thread : Owns(u, "push") /\ op[u].pos = q
    <3>1. PICK u \in Thread : Owns(u, "push") /\ op[u].pos = q
      BY <2>1
    <3>2. op'[u].task = op[u].task
      BY <1>2, <3>1 DEF Owns
    <3>3. Owns(u, "push")' /\ op'[u].pos = q
      BY <1>4, <3>1 DEF Kind
    <3> QED
      BY <1>5, <3>1, <3>2, <3>3 DEF TasksAreKnown
  <2>2. CASE ~ \E u \in Thread : Owns(u, "push") /\ op[u].pos = q
    <3>1. sequence[Cell(q)] = q + 1
      BY <1>6, <2>2 DEF IndInv, TasksAreKept, WaitingAreFull
    <3>2. data'[Cell(q)] = data[Cell(q)]
      <4>1. CASE op[t].kind = "pop"
        BY <1>2, <4>1
      <4>2. CASE op[t].kind = "push"
        <5>1. sequence[Cell(p)] = Ready("push", p)
          BY <1>1, <4>2, OwnerHas
        <5>2. Cell(q) # Cell(p)
          BY <1>2, <3>1, <5>1, NumberTellsApart DEF Ready, Kind
        <5> QED
          BY <1>3, <5>2, CellIsCell
      <4> QED
        BY <1>2, <4>1, <4>2
    <3>3. \A u \in Thread : ~ (Owns(u, "push")' /\ op'[u].pos = q)
      BY <1>4, <2>2 DEF Kind
    <3> QED
      BY <1>5, <2>2, <3>2, <3>3 DEF TasksAreKnown
  <2> QED
    BY <2>1, <2>2
<1>7. Queue' = Queue
  BY <1>1, <1>6, QueueStays
<1>8. ASSUME NEW u \in Thread PROVE Held(u)' = Held(u)
  <2>1. CASE u = t
    BY <1>1, <1>2, <1>4, <2>1 DEF Held, Owns
  <2>2. CASE u # t /\ Owns(u, "pop")
    <3>1. Cell(op[u].pos) \in 0 .. Size - 1 /\ Cell(op[u].pos) # Cell(p)
      BY <1>1, <2>2, OwnerHas DEF Owns, Owner
    <3> QED
      BY <1>2, <1>3, <1>4, <2>2, <3>1 DEF Held, Kind
  <2>3. CASE ~ Owns(u, "pop")
    BY <1>4, <2>3 DEF Held, Kind
  <2> QED
    BY <2>1, <2>2, <2>3
<1> QED
  BY <1>7, <1>8 DEF HeldByAll

\* Giving a cell on changes nothing in the queue; a pop lets go of its task.
LEMMA StoreSteps ==
    ASSUME IndInv, IndInv', NEW t \in Thread, StoreSequence(t)
    PROVE  /\ Queue' = Queue
           /\ op[t].kind = "push" => HeldByAll' = HeldByAll
           /\ op[t].kind = "pop" => HeldByAll[t] # Nothing /\ HeldByAll' = [HeldByAll EXCEPT ![t] = Nothing]
<1> DEFINE p == op[t].pos
<1>1. op[t].pc = "store" /\ Owner(t) /\ UNCHANGED <<data, position>>
  BY DEF StoreSequence, At, Owner
<1>2. op'[t] = Idle /\ \A u \in Thread \ {t} : op'[u] = op[u]
  BY DEF StoreSequence, Finish, IndInv, TypeOK
<1>3. /\ \A u \in Thread \ {t}, k \in Kind : (Owns(u, k)' <=> Owns(u, k)) /\ op'[u] = op[u]
      /\ \A k \in Kind : ~ Owns(t, k)'
  BY <1>2 DEF Owns, Idle
<1>4. TasksAreKnown /\ TasksAreKnown'
  BY TasksKnown, KnownAfter
<1>5. ASSUME NEW q \in Nat PROVE TaskAt(q)' = TaskAt(q)
  <2>1. CASE \E u \in Thread \ {t} : Owns(u, "push") /\ op[u].pos = q
    BY <1>3, <1>4, <2>1 DEF TasksAreKnown, Kind
  <2>2. CASE ~ \E u \in Thread : Owns(u, "push") /\ op[u].pos = q
    <3>1. \A u \in Thread : ~ (Owns(u, "push")' /\ op'[u].pos = q)
      BY <1>3, <2>2 DEF Kind
    <3> QED
      BY <1>1, <1>4, <2>2, <3>1 DEF TasksAreKnown
  <2>3. CASE /\ Owns(t, "push") /\ p = q
             /\ ~ \E u \in Thread \ {t} : Owns(u, "push") /\ op[u].pos = q
    <3>1. \A u \in Thread : ~ (Owns(u, "push")' /\ op'[u].pos = q)
      BY <1>3, <2>3 DEF Kind
    <3>2. TaskAt(q)' = data[Cell(q)]
      BY <1>1, <1>4, <3>1 DEF TasksAreKnown
    <3>3. TaskAt(q) = op[t].task
      BY <1>4, <2>3 DEF TasksAreKnown
    <3>4. data[Cell(p)] = op[t].task
      BY <1>1, <2>3 DEF IndInv, TasksAreKept, MovedIsThere, Owns, At
    <3> QED
      BY <2>3, <3>2, <3>3, <3>4
  <2> QED
    BY <2>1, <2>2, <2>3
<1>6. Queue' = Queue
  BY <1>1, <1>5, QueueStays
<1>7. ASSUME NEW u \in Thread \ {t} PROVE Held(u)' = Held(u)
  BY <1>1, <1>3 DEF Held, Kind
<1>8. Held(t)' = Nothing
  BY <1>3 DEF Held, Kind
<1>9. ASSUME op[t].kind = "push" PROVE HeldByAll' = HeldByAll
  <2>1. Held(t) = Nothing
    BY <1>9 DEF Held, Owns
  <2> QED
    BY <1>7, <1>8, <2>1 DEF HeldByAll
<1>10. ASSUME op[t].kind = "pop"
       PROVE  HeldByAll[t] # Nothing /\ HeldByAll' = [HeldByAll EXCEPT ![t] = Nothing]
  <2>1. Held(t) = op[t].task /\ op[t].task \in Task
    BY <1>1, <1>10 DEF Held, Owns, IndInv, TasksAreKept, PopsHaveTasks, At
  <2>2. Held(t) # Nothing
    BY <2>1, RingAssumption
  <2>3. HeldByAll[t] # Nothing
    BY <2>2 DEF HeldByAll
  <2>4. \A u \in Thread : Held(u)' = IF u = t THEN Nothing ELSE Held(u)
    BY <1>7, <1>8
  <2>5. HeldByAll' = [HeldByAll EXCEPT ![t] = Nothing]
    BY <2>4 DEF HeldByAll
  <2> QED
    BY <2>3, <2>5
<1> QED
  BY <1>6, <1>9, <1>10

\* The exchange of a push puts its task at the end of the queue.
LEMMA ClaimPuts ==
    ASSUME IndInv, IndInv', NEW t \in Thread, Claim(t), op[t].kind = "push"
    PROVE  /\ op[t].task \in Task /\ Len(Queue) < Size
           /\ Queue' = Append(Queue, op[t].task) /\ HeldByAll' = HeldByAll
<1> DEFINE e == op[t].pos
           task == op[t].task
<1>1. /\ At(t, "cas") /\ UNCHANGED <<sequence, data>>
      /\ op'[t].pc = "move" /\ op'[t].kind = "push" /\ op'[t].pos = e /\ op'[t].task = task
      /\ \A u \in Thread \ {t} : op'[u] = op[u]
  BY DEF Claim, Goto, IndInv, TypeOK, Op, At
<1>2. /\ e \in Nat /\ e = position["push"] /\ position["push"] < position["pop"] + Size
      /\ position["pop"] \in Nat /\ Size \in Nat
      /\ position'["push"] = e + 1 /\ position'["pop"] = position["pop"]
  BY ClaimFinds, RingAssumption DEF Claim, IndInv, TypeOK, Kind
<1>3. task \in Task
  BY <1>1 DEF IndInv, TasksAreKept, PushesHaveTasks, At
<1>4. QueueIsKnown /\ QueueIsKnown' /\ TasksAreKnown /\ TasksAreKnown'
  BY QueueKnown, TasksKnown, KnownAfter
<1>5. Len(Queue) = e - position["pop"] /\ Len(Queue') = Len(Queue) + 1 /\ Len(Queue) \in Nat
  BY <1>2, <1>4 DEF QueueIsKnown
<1>6. /\ \A u \in Thread \ {t} : Owns(u, "push")' <=> Owns(u, "push")
      /\ Owns(t, "push")' /\ ~ Owns(t, "push") /\ ~ Owns(t, "pop") /\ ~ Owns(t, "pop")'
      /\ \A u \in Thread \ {t} : Owns(u, "pop")' <=> Owns(u, "pop")
  BY <1>1 DEF Owns, At
<1>7. ASSUME NEW q \in Nat, q # e PROVE TaskAt(q)' = TaskAt(q)
  <2>1. CASE \E u \in Thread : Owns(u, "push") /\ op[u].pos = q
    BY <1>1, <1>4, <1>6, <2>1 DEF TasksAreKnown
  <2>2. CASE ~ \E u \in Thread : Owns(u, "push") /\ op[u].pos = q
    <3>1. \A u \in Thread : ~ (Owns(u, "push")' /\ op'[u].pos = q)
      BY <1>1, <1>6, <1>7, <2>2
    <3> QED
      BY <1>1, <1>4, <2>2, <3>1 DEF TasksAreKnown
  <2> QED
    BY <2>1, <2>2
<1>8. \A q \in Nat : q = e => TaskAt(q)' = task
  BY <1>1, <1>4, <1>6 DEF TasksAreKnown
<1>9. ASSUME NEW i \in 1 .. Len(Queue') PROVE Queue'[i] = Append(Queue, task)[i]
  <2>1. PICK q \in Nat : q = position["pop"] + i - 1
    BY <1>2, <1>5
  <2>2. q = position'["pop"] + i - 1
    BY <1>2, <2>1
  <2>3. Queue'[i] = TaskAt(q)'
    BY <1>4, <2>2 DEF QueueIsKnown
  <2>4. Queue \in Seq(Task)
    BY <1>4 DEF QueueIsKnown
  <2>5. CASE i \in 1 .. Len(Queue)
    <3>1. q # e /\ Queue[i] = TaskAt(q)
      BY <1>2, <1>4, <1>5, <2>1, <2>5 DEF QueueIsKnown
    <3> QED
      BY <1>7, <2>3, <2>4, <2>5, <3>1
  <2>6. CASE i = Len(Queue) + 1
    <3>1. q = e
      BY <1>2, <1>5, <2>1, <2>6
    <3> QED
      BY <1>8, <2>3, <2>4, <2>6, <3>1
  <2> QED
    BY <1>5, <2>5, <2>6
<1>10. Queue' = Append(Queue, task)
  <2>1. Queue \in Seq(Task) /\ Queue' \in Seq(Task)
    BY <1>4 DEF QueueIsKnown
  <2>2. Append(Queue, task) \in Seq(Task) /\ Len(Append(Queue, task)) = Len(Queue) + 1
    BY <1>3, <2>1
  <2> QED
    BY <1>5, <1>9, <2>1, <2>2, SeqEqual
<1>11. ASSUME NEW u \in Thread PROVE Held(u)' = Held(u)
  BY <1>1, <1>6 DEF Held
<1> QED
  BY <1>2, <1>3, <1>5, <1>10, <1>11 DEF HeldByAll

\* The exchange of a pop takes the task at the head of the queue.
LEMMA ClaimTakes ==
    ASSUME IndInv, IndInv', NEW t \in Thread, Claim(t), op[t].kind = "pop"
    PROVE  /\ Queue # <<>> /\ HeldByAll[t] = Nothing
           /\ HeldByAll' = [HeldByAll EXCEPT ![t] = Head(Queue)] /\ Queue' = Tail(Queue)
<1> DEFINE d == op[t].pos
<1>1. /\ At(t, "cas") /\ UNCHANGED <<sequence, data>>
      /\ op'[t].pc = "move" /\ op'[t].kind = "pop" /\ op'[t].pos = d
      /\ \A u \in Thread \ {t} : op'[u] = op[u]
  BY DEF Claim, Goto, IndInv, TypeOK, Op, At
<1>2. /\ d \in Nat /\ d = position["pop"] /\ position["pop"] < position["push"]
      /\ position["push"] \in Nat
      /\ position'["pop"] = d + 1 /\ position'["push"] = position["push"]
      /\ \A u \in Thread : ~ (Owns(u, "push") /\ op[u].pos = d)
  BY ClaimFinds DEF Claim, IndInv, TypeOK, Kind
<1>3. QueueIsKnown /\ QueueIsKnown' /\ TasksAreKnown /\ TasksAreKnown'
  BY QueueKnown, TasksKnown, KnownAfter
<1>4. /\ Queue \in Seq(Task) /\ Queue' \in Seq(Task)
      /\ Len(Queue) = position["push"] - d /\ Len(Queue') = Len(Queue) - 1
      /\ Len(Queue) \in Nat /\ Len(Queue) > 0
  BY <1>2, <1>3 DEF QueueIsKnown
<1>5. Queue # <<>> /\ Head(Queue) = Queue[1] /\ 1 \in 1 .. Len(Queue)
  BY <1>4
<1>6. Head(Queue) = data[Cell(d)]
  <2>1. Queue[1] = TaskAt(position["pop"] + 1 - 1)
    BY <1>3, <1>5 DEF QueueIsKnown
  <2>2. position["pop"] + 1 - 1 = d
    BY <1>2
  <2>3. TaskAt(d) = data[Cell(d)]
    BY <1>2, <1>3 DEF TasksAreKnown
  <2> QED
    BY <1>5, <2>1, <2>2, <2>3
<1>7. /\ \A u \in Thread : Owns(u, "push")' <=> Owns(u, "push")
      /\ \A u \in Thread : op'[u].pos = op[u].pos
      /\ \A u \in Thread : Owns(u, "push") => op'[u] = op[u]
      /\ Owns(t, "pop")' /\ ~ Owns(t, "pop")
      /\ \A u \in Thread \ {t} : Owns(u, "pop")' <=> Owns(u, "pop")
  BY <1>1 DEF Owns, At
<1>8. ASSUME NEW q \in Nat PROVE TaskAt(q)' = TaskAt(q)
  <2>1. CASE \E u \in Thread : Owns(u, "push") /\ op[u].pos = q
    BY <1>3, <1>7, <2>1 DEF TasksAreKnown
  <2>2. CASE ~ \E u \in Thread : Owns(u, "push") /\ op[u].pos = q
    <3>1. \A u \in Thread : ~ (Owns(u, "push")' /\ op'[u].pos = q)
      BY <1>7, <2>2
    <3> QED
      BY <1>1, <1>3, <2>2, <3>1 DEF TasksAreKnown
  <2> QED
    BY <2>1, <2>2
<1>9. /\ Tail(Queue) \in Seq(Task) /\ Len(Tail(Queue)) = Len(Queue) - 1
      /\ \A i \in 1 .. Len(Tail(Queue)) : Tail(Queue)[i] = Queue[i + 1]
  BY <1>4, <1>5, HeadTailProperties
<1>10. ASSUME NEW i \in 1 .. Len(Queue') PROVE Queue'[i] = Tail(Queue)[i]
  <2>1. i + 1 \in 1 .. Len(Queue) /\ i \in Nat
    BY <1>4
  <2>2. PICK q \in Nat : q = d + i
    BY <1>2, <2>1
  <2>3. q = position'["pop"] + i - 1 /\ q = position["pop"] + (i + 1) - 1
    BY <1>2, <2>1, <2>2
  <2>4. Queue'[i] = TaskAt(q)'
    BY <1>3, <2>3 DEF QueueIsKnown
  <2>5. Queue[i + 1] = TaskAt(q)
    BY <1>3, <2>1, <2>3 DEF QueueIsKnown
  <2>6. Tail(Queue)[i] = Queue[i + 1]
    BY <1>4, <1>9
  <2> QED
    BY <1>8, <2>4, <2>5, <2>6
<1>11. Queue' = Tail(Queue)
  BY <1>4, <1>9, <1>10, SeqEqual
<1>12. \A u \in Thread : Held(u)' = IF u = t THEN Head(Queue) ELSE Held(u)
  <2>1. Held(t)' = data[Cell(d)]
    BY <1>1, <1>7 DEF Held
  <2>2. \A u \in Thread \ {t} : Held(u)' = Held(u)
    BY <1>1, <1>7 DEF Held
  <2> QED
    BY <1>6, <2>1, <2>2
<1>13. Held(t) = Nothing
  BY <1>7 DEF Held
<1>14. HeldByAll' = [HeldByAll EXCEPT ![t] = Head(Queue)]
  BY <1>12 DEF HeldByAll
<1> QED
  BY <1>5, <1>11, <1>13, <1>14 DEF HeldByAll

----------------------------------------------------------------------------
(* The refinement.                                                         *)

\* An empty ring is an empty queue.
LEMMA InitRefines == Init => Abstract!FifoInit
<1> SUFFICES ASSUME Init PROVE Abstract!FifoInit
  OBVIOUS
<1>1. IndInv
  BY InitHolds
<1>2. Queue \in Seq(Task) /\ Len(Queue) = 0
  BY <1>1, QueueKnown DEF QueueIsKnown, Init, Kind
<1>3. Queue = <<>>
  BY <1>2, EmptySeq
<1>4. \A t \in Thread : Held(t) = Nothing
  BY DEF Init, Held, Owns, Idle
<1> QED
  BY <1>3, <1>4 DEF Abstract!FifoInit

\* Every step of the ring is a step of the queue, or none.
LEMMA NextRefines == IndInv /\ IndInv' /\ [Next]_vars => [Abstract!FifoNext]_(Abstract!fifoVars)
<1> SUFFICES ASSUME IndInv, IndInv', [Next]_vars PROVE [Abstract!FifoNext]_(Abstract!fifoVars)
  OBVIOUS
<1>1. ASSUME Queue' = Queue, HeldByAll' = HeldByAll PROVE UNCHANGED Abstract!fifoVars
  BY <1>1 DEF Abstract!fifoVars, HeldByAll
<1>2. ASSUME NEW t \in Thread, BeginPop(t) \/ \E task \in Task : BeginPush(t, task)
      PROVE  UNCHANGED Abstract!fifoVars
  BY <1>1, <1>2, QuietStutters DEF BeginPop, BeginPush, At, Owner, IndInv, TypeOK
<1>3. ASSUME NEW t \in Thread, LoadPosition(t) \/ MissClaim(t) PROVE UNCHANGED Abstract!fifoVars
  <2>1. ~ Owner(t) /\ UNCHANGED <<data, position>>
    BY <1>3 DEF LoadPosition, MissClaim, At, Owner
  <2>2. op'[t].pc = "cell" /\ \A u \in Thread \ {t} : op'[u] = op[u]
    BY <1>3 DEF LoadPosition, MissClaim, IndInv, TypeOK, Op
  <2> QED
    BY <1>1, <2>1, <2>2, QuietStutters DEF Owner
<1>4. ASSUME NEW t \in Thread, ReadSequence(t) PROVE UNCHANGED Abstract!fifoVars
  <2>1. ~ Owner(t) /\ UNCHANGED <<data, position>>
    BY <1>4 DEF ReadSequence, At, Owner
  <2>2. op'[t].pc \in {"idle", "cas", "load"} /\ \A u \in Thread \ {t} : op'[u] = op[u]
    BY <1>4 DEF ReadSequence, Goto, Finish, Idle, IndInv, TypeOK, Op
  <2> QED
    BY <1>1, <2>1, <2>2, QuietStutters DEF Owner
<1>5. ASSUME NEW t \in Thread, MoveData(t) PROVE UNCHANGED Abstract!fifoVars
  BY <1>1, <1>5, MoveStutters
<1>6. ASSUME NEW t \in Thread, StoreSequence(t) PROVE UNCHANGED Abstract!fifoVars \/ Abstract!MoveOut(t)
  <2>1. op[t].kind \in {"push", "pop"}
    BY DEF IndInv, TypeOK, Op, Kind
  <2>2. CASE op[t].kind = "push"
    BY <1>1, <1>6, <2>2, StoreSteps
  <2>3. CASE op[t].kind = "pop"
    BY <1>6, <2>3, StoreSteps DEF Abstract!MoveOut, HeldByAll
  <2> QED
    BY <2>1, <2>2, <2>3
<1>7. ASSUME NEW t \in Thread, Claim(t)
      PROVE  Abstract!Take(t) \/ \E task \in Task : Abstract!Put(task)
  <2>1. op[t].kind \in {"push", "pop"}
    BY DEF IndInv, TypeOK, Op, Kind
  <2>2. CASE op[t].kind = "push"
    BY <1>7, <2>2, ClaimPuts DEF Abstract!Put, HeldByAll
  <2>3. CASE op[t].kind = "pop"
    BY <1>7, <2>3, ClaimTakes DEF Abstract!Take, HeldByAll
  <2> QED
    BY <2>1, <2>2, <2>3
<1>8. CASE UNCHANGED vars
  <2>1. \A u \in Thread : Held(u)' = Held(u)
    BY <1>8 DEF vars, Held, Owns
  <2>2. \A p \in Nat : TaskAt(p)' = TaskAt(p)
    BY <1>8 DEF vars, TaskAt, Owns
  <2> QED
    BY <1>1, <1>8, <2>1, <2>2, QueueStays DEF vars, HeldByAll
<1> QED
  BY <1>2, <1>3, <1>4, <1>5, <1>6, <1>7, <1>8, RingAssumption DEF Next, Step, Abstract!FifoNext

\* MPMCBoundedQueue is a bounded queue, for every number of threads, tasks and cells: tasks come out in the order
\* of the exchanges that put them in, each of them once, and no cell is written while its task is waited for.
THEOREM ImplementsQueue == Spec => ImplementsFifo
<1>1. Init => Abstract!FifoInit
  BY InitRefines
<1>2. IndInv /\ IndInv' /\ [Next]_vars => [Abstract!FifoNext]_(Abstract!fifoVars)
  BY NextRefines
<1> QED
  BY <1>1, <1>2, Invariance, PTL DEF Spec, ImplementsFifo, Abstract!FifoSpec

----------------------------------------------------------------------------
(* Refusals.                                                               *)

\* The position of this lap whose cell is that of an earlier, or the same, position.
LEMMA CellOfThisLap ==
    ASSUME NEW d \in Nat, NEW p \in Nat
    PROVE  \E q \in d .. d + Size - 1 : Cell(q) = Cell(p)
<1>1. Size \in Nat /\ Size > 1
  BY RingAssumption
<1> DEFINE r == (p - d) % Size
           q == d + r
           a == (p - d) \div Size
           b == p \div Size
           c == q \div Size
<1>2. r \in 0 .. Size - 1 /\ a \in Int /\ p - d = Size * a + r
  BY <1>1
<1>3. q \in Nat /\ q \in d .. d + Size - 1
  BY <1>1, <1>2
<1>4. b \in Int /\ c \in Int /\ p = Size * b + Cell(p) /\ q = Size * c + Cell(q)
  BY <1>1, <1>3 DEF Cell
<1>5. Cell(p) \in 0 .. Size - 1 /\ Cell(q) \in 0 .. Size - 1
  BY <1>3, CellIsCell
<1> HIDE DEF r, a, b, c
<1>6. q = p - Size * a
  BY <1>1, <1>2
<1> HIDE DEF q
<1> DEFINE n == b - a - c
<1>7. n \in Int /\ Cell(q) - Cell(p) = Size * n
  BY <1>1, <1>2, <1>4, <1>5, <1>6
<1> HIDE DEF n
<1> QED
  BY <1>3, <1>5, <1>7, LapsAreLong

\* A push that finds a number too small for it finds the ring full, or a pop with a cell in its hands.
LEMMA RefusedPushFindsItFull ==
    ASSUME IndInv, NEW t \in Thread, At(t, "cell"), op[t].kind = "push", Dif(t) < 0,
           \A u \in Thread : ~ Owns(u, "pop")
    PROVE  position["push"] = position["pop"] + Size
<1> DEFINE p == op[t].pos
           d == position["pop"]
           e == position["push"]
<1>1. /\ p \in Nat /\ d \in Nat /\ e \in Nat /\ Size \in Nat /\ p <= e /\ e <= d + Size
      /\ sequence[Cell(p)] \in Nat /\ sequence[Cell(p)] < p
  <2>1. p \in Nat /\ d \in Nat /\ e \in Nat /\ Size \in Nat
    BY RingAssumption DEF IndInv, TypeOK, Op, Kind
  <2>2. p <= e /\ e <= d + Size
    BY DEF IndInv, NumbersAreKept, PositionsWereReached, TasksAreKept, WindowIsBounded, At
  <2>3. sequence[Cell(p)] \in Nat
    BY <2>1, CellIsCell DEF IndInv, TypeOK
  <2>4. Dif(t) = sequence[Cell(p)] - p
    BY DEF Dif, Ready
  <2> QED
    BY <2>1, <2>2, <2>3, <2>4
<1>2. ASSUME e < d + Size PROVE FALSE
  <2>1. PICK q \in d .. d + Size - 1 : Cell(q) = Cell(p)
    BY <1>1, CellOfThisLap
  <2>2. q \in Nat /\ d <= q /\ q < d + Size
    BY <1>1, <2>1
  <2>3. p <= q
    <3>1. CASE p < d
      BY <1>1, <2>2, <3>1
    <3>2. CASE d <= p
      <4>1. p < q + Size /\ q < p + Size
        BY <1>1, <1>2, <2>2, <3>2
      <4> QED
        BY <1>1, <2>1, <2>2, <4>1, SameCell
    <3> QED
      BY <1>1, <3>1, <3>2
  <2>4. sequence[Cell(q)] = q \/ sequence[Cell(q)] = q + 1
    <3>1. CASE q < e
      <4>1. CASE \E u \in Thread : Owns(u, "push") /\ op[u].pos = q
        BY <4>1 DEF IndInv, NumbersAreKept, OwnersHaveTheNumber, Owns, Owner, Ready
      <4>2. CASE ~ \E u \in Thread : Owns(u, "push") /\ op[u].pos = q
        BY <2>2, <3>1, <4>2 DEF IndInv, TasksAreKept, WaitingAreFull
      <4> QED
        BY <4>1, <4>2
    <3>2. CASE e <= q
      BY <2>2, <3>2 DEF IndInv, TasksAreKept, OthersAreFree
    <3> QED
      BY <1>1, <2>2, <3>1, <3>2
  <2> QED
    BY <1>1, <2>1, <2>2, <2>3, <2>4
<1> QED
  BY <1>1, <1>2

\* A pop that finds a number too small for it finds the ring empty, or a push with a cell in its hands.
LEMMA RefusedPopFindsItEmpty ==
    ASSUME IndInv, NEW t \in Thread, At(t, "cell"), op[t].kind = "pop", Dif(t) < 0,
           \A u \in Thread : ~ Owns(u, "push")
    PROVE  position["push"] = position["pop"]
<1> DEFINE p == op[t].pos
           d == position["pop"]
           e == position["push"]
<1>1. /\ p \in Nat /\ d \in Nat /\ e \in Nat /\ Size \in Nat /\ Size > 1 /\ p <= d /\ d <= e
      /\ sequence[Cell(p)] \in Nat /\ sequence[Cell(p)] < p + 1
  <2>1. p \in Nat /\ d \in Nat /\ e \in Nat /\ Size \in Nat /\ Size > 1
    BY RingAssumption DEF IndInv, TypeOK, Op, Kind
  <2>2. p <= d /\ d <= e
    BY DEF IndInv, NumbersAreKept, PositionsWereReached, TasksAreKept, WindowIsBounded, At
  <2>3. sequence[Cell(p)] \in Nat
    BY <2>1, CellIsCell DEF IndInv, TypeOK
  <2>4. Dif(t) = sequence[Cell(p)] - (p + 1)
    BY DEF Dif, Ready
  <2> QED
    BY <2>1, <2>2, <2>3, <2>4
<1>2. ASSUME d < e PROVE FALSE
  <2>1. PICK q \in d .. d + Size - 1 : Cell(q) = Cell(p)
    BY <1>1, CellOfThisLap
  <2>2. q \in Nat /\ d <= q /\ q < d + Size /\ p <= q
    BY <1>1, <2>1
  <2>3. q = p \/ p + Size <= q
    BY <1>1, <2>1, <2>2, WithinALap
  <2>4. CASE q < e
    <3>1. sequence[Cell(q)] = q + 1
      BY <2>2, <2>4 DEF IndInv, TasksAreKept, WaitingAreFull
    <3> QED
      BY <1>1, <2>1, <2>2, <3>1
  <2>5. CASE e <= q
    <3>1. p + Size <= q
      BY <1>1, <1>2, <2>3, <2>5
    <3>2. CASE sequence[Cell(q)] = q
      BY <1>1, <2>1, <2>2, <3>1, <3>2
    <3>3. ASSUME NEW u \in Thread, Owns(u, "pop"), op[u].pos + Size = q PROVE FALSE
      <4>1. sequence[Cell(op[u].pos)] = op[u].pos + 1 /\ op[u].pos \in Nat
        BY <3>3 DEF IndInv, NumbersAreKept, OwnersHaveTheNumber, Owns, Owner, Ready, TypeOK, Op
      <4>2. Cell(op[u].pos) = Cell(q)
        BY <3>3, <4>1, NextLap
      <4>3. op[u].pos + 1 < p + 1
        BY <1>1, <2>1, <4>1, <4>2
      <4> QED
        BY <1>1, <3>1, <3>3, <4>1, <4>3
    <3> QED
      BY <2>2, <2>5, <3>2, <3>3 DEF IndInv, TasksAreKept, OthersAreFree
  <2> QED
    BY <1>1, <2>2, <2>4, <2>5
<1> QED
  BY <1>1, <1>2

\* Only an operation that looked at its cell gives up.
LEMMA OnlyReadersGiveUp ==
    ASSUME IndInv, Next, NEW t \in Thread, At(t, "cell"), op'[t].pc = "idle"
    PROVE  Dif(t) < 0
<1>1. \A u \in Thread : \A c : op' = [op EXCEPT ![u] = c] /\ op'[t] # op[t] => u = t
  BY DEF IndInv, TypeOK
<1>2. op'[t] # op[t]
  BY DEF At
<1>3. ASSUME NEW u \in Producer, NEW task \in Task, BeginPush(u, task) PROVE FALSE
  BY <1>2, <1>3, RingAssumption DEF BeginPush, At, IndInv, TypeOK
<1>4. ASSUME NEW u \in Consumer, BeginPop(u) PROVE FALSE
  BY <1>2, <1>4, RingAssumption DEF BeginPop, At, IndInv, TypeOK
<1>5. ASSUME NEW u \in Thread, Step(u) PROVE u = t /\ ReadSequence(t)
  <2>1. op[t] \in Op
    BY DEF IndInv, TypeOK
  <2>2. u = t
    BY <1>2, <1>5 DEF Step, LoadPosition, ReadSequence, Claim, MissClaim, MoveData, StoreSequence, Goto,
                      Finish, IndInv, TypeOK
  <2> QED
    BY <1>5, <2>1, <2>2 DEF Step, LoadPosition, Claim, MissClaim, MoveData, StoreSequence, At
<1>6. ReadSequence(t)
  BY <1>3, <1>4, <1>5 DEF Next
<1> QED
  BY <1>6 DEF ReadSequence, Goto, IndInv, TypeOK, Op

\* A step in which an operation gives up finds the ring full, or empty, or somebody in the way.
LEMMA StepsRefuseTruly == IndInv /\ [Next]_vars => [RefusalIsTrue]_vars
<1> SUFFICES ASSUME IndInv, Next, NEW t \in Thread, At(t, "cell"), op'[t].pc = "idle"
             PROVE  IF op[t].kind = "push"
                    THEN Len(Queue) = Size \/ \E u \in Thread : Owns(u, "pop")
                    ELSE Queue = <<>> \/ \E u \in Thread : Owns(u, "push")
  BY DEF RefusalIsTrue
<1>1. Dif(t) < 0
  BY OnlyReadersGiveUp
<1>2. Queue \in Seq(Task) /\ Len(Queue) = position["push"] - position["pop"]
  BY QueueKnown DEF QueueIsKnown
<1>3. /\ position["push"] \in Nat /\ position["pop"] \in Nat /\ Size \in Nat
      /\ op[t].kind \in {"push", "pop"}
  BY RingAssumption DEF IndInv, TypeOK, Op, Kind
<1>4. CASE op[t].kind = "push" /\ ~ \E u \in Thread : Owns(u, "pop")
  <2>1. position["push"] = position["pop"] + Size
    BY <1>1, <1>4, RefusedPushFindsItFull
  <2> QED
    BY <1>2, <1>3, <1>4, <2>1
<1>5. CASE op[t].kind = "pop" /\ ~ \E u \in Thread : Owns(u, "push")
  <2>1. position["push"] = position["pop"]
    BY <1>1, <1>5, RefusedPopFindsItEmpty
  <2>2. Queue = <<>>
    BY <1>2, <1>3, <2>1, EmptySeq
  <2> QED
    BY <1>5, <2>2
<1> QED
  BY <1>3, <1>4, <1>5

\* push() returns false only to a thread that found the queue full, and pop() only to one that found it empty, or
\* while a thread of the other kind has claimed a cell and not yet given it on.
THEOREM RefusalsHaveAReason == Spec => RefusalsAreTrue
<1>1. IndInv /\ [Next]_vars => [RefusalIsTrue]_vars
  BY StepsRefuseTruly
<1> QED
  BY <1>1, Invariance, PTL DEF Spec, RefusalsAreTrue
=============================================================================
