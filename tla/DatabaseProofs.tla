--------------------------- MODULE DatabaseProofs ---------------------------
(***************************************************************************)
(* The types of the adapter and of the tables, and what the adapter        *)
(* promises its users as long as no two of them meet in it: the statement  *)
(* that is executed is the one its thread wrote, with the id the object    *)
(* has.  Both hold for any number of threads and objects, and for every    *)
(* mix of their types.                                                     *)
(*                                                                         *)
(* The id does not change under a statement because the signals of a type  *)
(* come one after the other; the text does not because a thread that       *)
(* begins another one meanwhile is an overlap.                             *)
(*                                                                         *)
(* The second half is the mirror: an object that was added is in its table *)
(* under its id, a row is of an object that is there, and two objects of a *)
(* type have different ids, unless statements met or the requests for some *)
(* contents repeated each other.                                           *)
(***************************************************************************)
EXTENDS Database, WellFoundedInduction, TLAPS

----------------------------------------------------------------------------
(* The inductive invariant.                                                *)

\* No table holds an id above the last it gave.
IdsAreGiven == \A r \in rows : r.id <= given[r.kind]

\* An answer is about an object that was asked for.
AnswersAreAboutRequests == \A t \in Thread : Busy(t) => call[t].object \in made

OneAnswerPerType ==
    \A t, u \in Thread :
        Answering(t) /\ Answering(u) /\ kind[call[t].object] = kind[call[u].object] => t = u

\* The statement a thread is about.
Own(t) == [op |-> call[t].step, row |-> RowOf(call[t].object)]

OneStatementAtATime == \A t, u \in Thread : Open(t) /\ Open(u) => t = u

CurrentIsOwn == \A t \in Thread : call[t].pc \in {"bind", "prepare"} => current = Own(t)

\* Once it was prepared, a statement is what its thread wrote.
PreparedIsOwn ==
    \A t \in Thread :
        At(t, "run") \/ (At(t, "clear") /\ call[t].step # "select") => call[t].text = Own(t)

StatementsAreOwn ==
    overlapped \/ (OneStatementAtATime /\ CurrentIsOwn /\ PreparedIsOwn)

IndInv ==
    /\ TypeOK
    /\ IdsAreGiven
    /\ AnswersAreAboutRequests
    /\ OneAnswerPerType
    /\ StatementsAreOwn

----------------------------------------------------------------------------
(* Ids.                                                                    *)

\* A set of numbers with a bound has a greatest one.
LEMMA GreatestExists ==
    ASSUME NEW S \in SUBSET Nat, S # {}, NEW n \in Nat, \A i \in S : i <= n
    PROVE  \E g \in S : \A i \in S : i <= g
<1> DEFINE B == {b \in Nat : \A i \in S : i <= b}
<1>1. IsWellFoundedOn(OpToRel(<, Nat), Nat)
  BY NatLessThanWellFounded
<1>2. B \subseteq Nat /\ B # {}
  OBVIOUS
<1>3. PICK b \in B : \A c \in B : <<c, b>> \notin OpToRel(<, Nat)
  <2> HIDE DEF B
  <2> QED
    BY <1>1, <1>2, WFMin
<1>4. \A c \in B : ~ (c < b)
  BY <1>2, <1>3 DEF OpToRel
<1>5. b \in S
  <2>1. SUFFICES ASSUME b \notin S PROVE FALSE
    OBVIOUS
  <2>2. \A i \in S : i <= b - 1
    BY <2>1
  <2>3. PICK i \in S : i <= b - 1
    BY <2>2
  <2>4. b - 1 \in Nat
    BY <2>3
  <2> QED
    BY <1>4, <2>2, <2>4
<1> QED
  BY <1>5

\* What was asked for has a type of the tables, and so its row is a row.
LEMMA RowsAreTyped ==
    ASSUME TypeOK, NEW o \in made
    PROVE  o \in Object /\ kind[o] \in Kind /\ RowOf(o) \in Row /\ Content(o) \in Kind \X Body
<1>1. PICK S \in SUBSET Object : kind \in [S -> Kind]
  BY DatabaseAssumption DEF TypeOK
<1>2. o \in S
  BY <1>1 DEF TypeOK
<1> QED
  BY <1>1, <1>2 DEF TypeOK, RowOf, Row, Content

\* The greatest id of a table bounds the others.
LEMMA GreatestIsNatural ==
    ASSUME TypeOK, IdsAreGiven, NEW k \in Kind
    PROVE  Greatest(k) \in Nat /\ \A r \in rows : r.kind = k => r.id <= Greatest(k)
<1> DEFINE ids == {r.id : r \in {q \in rows : q.kind = k}}
<1>1. given[k] \in Nat /\ \A r \in rows : r.id \in Nat
  BY DEF TypeOK, Row
<1>2. CASE ids = {}
  BY <1>2 DEF Greatest
<1>3. CASE ids # {}
  <2>1. ids \in SUBSET Nat /\ \A i \in ids : i <= given[k]
    BY <1>1 DEF IdsAreGiven
  <2>2. \E g \in ids : \A i \in ids : i <= g
    <3> HIDE DEF ids
    <3> QED
      BY <1>1, <1>3, <2>1, GreatestExists
  <2>3. Greatest(k) = CHOOSE g \in ids : \A i \in ids : i <= g
    BY <1>3 DEF Greatest
  <2>4. Greatest(k) \in ids /\ \A i \in ids : i <= Greatest(k)
    <3> HIDE DEF ids
    <3> QED
      BY <2>2, <2>3
  <2>5. \A r \in rows : r.kind = k => r.id \in ids
    OBVIOUS
  <2> HIDE DEF ids
  <2> QED
    BY <2>1, <2>4, <2>5
<1> QED
  BY <1>2, <1>3

\* A new id is above those of the table, whether ids are reused or not.
LEMMA NextIdIsNew ==
    ASSUME TypeOK, IdsAreGiven, NEW k \in Kind
    PROVE  /\ NextId(k) \in Nat /\ NextId(k) > 0
           /\ \A r \in rows : r.kind = k => r.id < NextId(k)
<1>1. given[k] \in Nat /\ \A r \in rows : r.id \in Nat
  BY DEF TypeOK, Row
<1>2. CASE Uses(k).auto
  BY <1>1, <1>2 DEF NextId, IdsAreGiven
<1>3. CASE ~ Uses(k).auto
  <2>1. NextId(k) = 1 + Greatest(k)
    BY <1>3 DEF NextId
  <2>2. Greatest(k) \in Nat /\ \A r \in rows : r.kind = k => r.id <= Greatest(k)
    BY GreatestIsNatural
  <2> HIDE DEF Greatest
  <2> QED
    BY <1>1, <2>1, <2>2
<1> QED
  BY <1>2, <1>3

\* The engine keeps the tables as they should be, whatever the statement.
LEMMA AffectKeeps ==
    ASSUME TypeOK, IdsAreGiven, NEW text \in Text, text # Nothing, Affect(text)
    PROVE  rows' \subseteq Row /\ given' \in [Kind -> Nat] /\ IdsAreGiven'
<1> DEFINE k == text.row.kind
<1>1. text.row \in Row /\ k \in Kind
  BY DEF Text, Row
<1>2. CASE Insert(text)
  <2> DEFINE n == NextId(k)
  <2>1. n \in Nat /\ \A r \in rows : r.kind = k => r.id < n
    BY <1>1, NextIdIsNew
  <2>2. rows' = rows \cup {[text.row EXCEPT !.id = n]} /\ given' = [given EXCEPT ![k] = n]
    BY <1>2 DEF Insert
  <2> HIDE DEF n
  <2>3. [text.row EXCEPT !.id = n] \in Row
    BY <1>1, <2>1 DEF Row
  <2>4. [text.row EXCEPT !.id = n].id = n /\ [text.row EXCEPT !.id = n].kind = k
    BY <1>1 DEF Row
  <2>5. rows' \subseteq Row /\ given' \in [Kind -> Nat]
    BY <1>1, <2>1, <2>2, <2>3 DEF TypeOK
  <2>6. given'[k] = n /\ \A j \in Kind \ {k} : given'[j] = given[j]
    BY <1>1, <2>2 DEF TypeOK
  <2>7. ASSUME NEW r \in rows PROVE r.id <= given'[r.kind]
    <3>1. r.id \in Nat /\ r.kind \in Kind /\ given[r.kind] \in Nat
      BY DEF TypeOK, Row
    <3> QED
      BY <2>1, <2>6, <3>1 DEF IdsAreGiven
  <2>8. ASSUME NEW r \in rows', r \notin rows PROVE r.id = n /\ r.kind = k
    BY <2>2, <2>4, <2>8
  <2>9. IdsAreGiven'
    BY <2>1, <2>6, <2>7, <2>8 DEF IdsAreGiven
  <2> QED
    BY <2>5, <2>9
<1>3. CASE Delete(text)
  BY <1>3 DEF Delete, TypeOK, IdsAreGiven
<1> QED
  BY <1>2, <1>3 DEF Affect

----------------------------------------------------------------------------
(* What a thread is doing.                                                 *)

Answers(c) == c # Idle /\ ~ (c.pc = "write" /\ c.step # "select")

Opens(c) == c.pc \in {"bind", "prepare", "clear"} \/ (c.pc = "run" /\ c.step = "select")

IsPrepared(c) == c.pc = "run" \/ (c.pc = "clear" /\ c.step # "select")

Working ==
    [pc : {"write", "bind", "prepare", "clear", "run"}, step : {"insert", "select", "delete"},
     object : Object, text : Text]

\* A thread is idle, or it is somewhere in an answer about an object.
LEMMA IdleOrWorking ==
    ASSUME NEW c \in Call
    PROVE  \/ c = Idle /\ c.pc = "idle"
           \/ c # Idle /\ c.pc # "idle" /\ c \in Working
<1>1. CASE c = Idle
  BY <1>1 DEF Idle
<1>2. CASE c \in Working
  <2>1. c.pc # "idle"
    BY <1>2 DEF Working
  <2> QED
    BY <1>2, <2>1 DEF Idle
<1> QED
  BY <1>1, <1>2 DEF Call, Working, Idle

\* A thread that answers may go on.
LEMMA AnsweringMayAnswer ==
    ASSUME IndInv, NEW t \in Thread, Answering(t)
    PROVE  MayAnswer(t)
BY DEF IndInv, OneAnswerPerType, MayAnswer

\* What one thread must see to when it goes on, so that nobody else is disturbed.
LEMMA ThreadKeeps ==
    ASSUME IndInv, NEW t \in Thread, NEW c \in Call,
           call' = [call EXCEPT ![t] = c], UNCHANGED <<kind, body>>, made \subseteq made',
           c # Idle => c.object \in made',
           Answers(c) => MayAnswer(t) /\ c.object = call[t].object,
           \A u \in Thread \ {t} : Answering(u) => id'[call[u].object] = id[call[u].object],
           \/ overlapped'
           \/ /\ ~ overlapped
              /\ Opens(c) => \A u \in Thread \ {t} : ~ Open(u)
              /\ current' # current => \A u \in Thread \ {t} : ~ Open(u)
              /\ c.pc \in {"bind", "prepare"} =>
                    current' = [op |-> c.step, row |-> [kind |-> kind[c.object], id |-> id'[c.object], body |-> body[c.object]]]
              /\ IsPrepared(c) =>
                    c.text = [op |-> c.step, row |-> [kind |-> kind[c.object], id |-> id'[c.object], body |-> body[c.object]]]
    PROVE  AnswersAreAboutRequests' /\ OneAnswerPerType' /\ StatementsAreOwn'
<1>1. call'[t] = c /\ \A u \in Thread \ {t} : call'[u] = call[u]
  BY DEF IndInv, TypeOK
<1>2. AnswersAreAboutRequests'
  BY <1>1 DEF IndInv, AnswersAreAboutRequests, Busy
<1>3. /\ Answering(t)' <=> Answers(c)
      /\ \A u \in Thread \ {t} : Answering(u)' <=> Answering(u)
  BY <1>1 DEF Answering, Answers, Busy, At
<1>4. OneAnswerPerType'
  <2> SUFFICES ASSUME NEW u \in Thread, NEW v \in Thread, Answering(u)', Answering(v)', u # v,
                      kind'[call'[u].object] = kind'[call'[v].object]
               PROVE  FALSE
    BY DEF OneAnswerPerType
  <2>1. CASE u = t
    BY <1>1, <1>3, <2>1 DEF MayAnswer
  <2>2. CASE v = t
    BY <1>1, <1>3, <2>2 DEF MayAnswer
  <2>3. CASE u # t /\ v # t
    BY <1>1, <1>3, <2>3 DEF IndInv, OneAnswerPerType
  <2> QED
    BY <2>1, <2>2, <2>3
<1>5. CASE overlapped'
  BY <1>2, <1>4, <1>5 DEF StatementsAreOwn
<1>6. CASE ~ overlapped'
  <2>1. OneStatementAtATime /\ CurrentIsOwn /\ PreparedIsOwn
    BY <1>6 DEF IndInv, StatementsAreOwn
  <2>2. /\ Open(t)' <=> Opens(c)
        /\ \A u \in Thread \ {t} : Open(u)' <=> Open(u)
    BY <1>1 DEF Open, Opens, At
  <2>3. OneStatementAtATime'
    BY <1>6, <2>1, <2>2 DEF OneStatementAtATime
  <2>4. ASSUME NEW u \in Thread \ {t}, Open(u) \/ IsPrepared(call[u]) PROVE Own(u)' = Own(u)
    <3>1. call[u] \in Call
      BY DEF IndInv, TypeOK
    <3>2. Answering(u)
      BY <2>4, <3>1, IdleOrWorking DEF Open, IsPrepared, Answering, At, Busy
    <3> QED
      BY <1>1, <3>2 DEF Own, RowOf
  <2>5. CurrentIsOwn'
    <3> SUFFICES ASSUME NEW u \in Thread, call'[u].pc \in {"bind", "prepare"} PROVE current' = Own(u)'
      BY DEF CurrentIsOwn
    <3>1. CASE u = t
      BY <1>1, <1>6, <3>1 DEF Own, RowOf
    <3>2. CASE u # t
      <4>1. Open(u) /\ call[u].pc \in {"bind", "prepare"}
        BY <1>1, <3>2 DEF Open
      <4> QED
        BY <1>6, <2>1, <2>4, <3>2, <4>1 DEF CurrentIsOwn
    <3> QED
      BY <3>1, <3>2
  <2>6. PreparedIsOwn'
    <3> SUFFICES ASSUME NEW u \in Thread, IsPrepared(call'[u]) PROVE call'[u].text = Own(u)'
      BY DEF PreparedIsOwn, IsPrepared, At
    <3>1. CASE u = t
      BY <1>1, <1>6, <3>1 DEF Own, RowOf
    <3>2. CASE u # t
      BY <1>1, <2>1, <2>4, <3>2 DEF PreparedIsOwn, IsPrepared, At
    <3> QED
      BY <3>1, <3>2
  <2> QED
    BY <1>2, <1>4, <2>3, <2>5, <2>6 DEF StatementsAreOwn
<1> QED
  BY <1>5, <1>6

----------------------------------------------------------------------------
(* Each action keeps the invariant.                                        *)

\* A request is the first a thread does about an object.
LEMMA BeginKeeps ==
    ASSUME IndInv, NEW t \in Thread, NEW o \in made', NEW step \in {"insert", "delete"},
           ~ Busy(t), Begin(t, step, o), made \subseteq made', made' \subseteq DOMAIN kind,
           objects' \subseteq made', muddled' \in {muddled, muddled \cup {Content(o)}},
           UNCHANGED <<kind, body, id, rows, given, current, blobs, overlapped>>
    PROVE  IndInv'
<1> DEFINE c == [pc |-> "write", step |-> step, object |-> o, text |-> Nothing]
<1>1. o \in Object /\ Content(o) \in Kind \X Body
  <2>1. PICK S \in SUBSET Object : kind \in [S -> Kind]
    BY DatabaseAssumption DEF IndInv, TypeOK
  <2> QED
    BY <2>1 DEF IndInv, TypeOK, Content
<1>2. c \in Call /\ call' = [call EXCEPT ![t] = c]
  BY <1>1 DEF Begin, Call, Text
<1>3. c # Idle /\ c.object = o /\ c.pc = "write" /\ ~ Answers(c) /\ ~ Opens(c) /\ ~ IsPrepared(c)
  BY DEF Idle, Answers, Opens, IsPrepared
<1>4. TypeOK'
  BY <1>1, <1>2 DEF IndInv, TypeOK
<1>5. IdsAreGiven'
  BY DEF IndInv, IdsAreGiven
<1>6. AnswersAreAboutRequests' /\ OneAnswerPerType' /\ StatementsAreOwn'
  <2> HIDE DEF c
  <2> QED
    BY <1>2, <1>3, ThreadKeeps
<1> QED
  BY <1>4, <1>5, <1>6 DEF IndInv

\* operator <<: the statement of the thread is the current one, or two have met.
LEMMA WriteKeeps ==
    ASSUME IndInv, NEW t \in Thread, Write(t)
    PROVE  IndInv'
<1> DEFINE o == call[t].object
           text == [op |-> call[t].step, row |-> RowOf(o)]
<1>1. call[t] \in Working /\ Busy(t) /\ call[t].pc = "write"
  BY IdleOrWorking DEF IndInv, TypeOK, Write, At, Busy
<1>2. o \in made /\ RowOf(o) \in Row
  BY <1>1, RowsAreTyped DEF IndInv, AnswersAreAboutRequests
<1>3. text \in Text
  BY <1>1, <1>2 DEF Text, Working
<1>4. PICK pc \in {"bind", "prepare"} : call' = [call EXCEPT ![t] = [call[t] EXCEPT !.pc = pc]]
  BY DEF Write, Goto
<1> DEFINE c == [call[t] EXCEPT !.pc = pc]
<1>5. /\ call' = [call EXCEPT ![t] = c]
      /\ c \in Call /\ c.pc = pc /\ c.object = o /\ c.step = call[t].step
      /\ ~ IsPrepared(c)
  BY <1>1, <1>4 DEF Working, Call, IsPrepared
<1>6. /\ current' = text /\ UNCHANGED <<kind, objects, made, body, id, rows, given, blobs, muddled>>
      /\ overlapped' = (overlapped \/ \E u \in Thread \ {t} : Open(u))
      /\ MayAnswer(t)
  BY DEF Write
<1>7. overlapped' \in BOOLEAN /\ (overlapped' \/ (~ overlapped /\ \A u \in Thread \ {t} : ~ Open(u)))
  BY <1>6 DEF IndInv, TypeOK
<1>8. TypeOK'
  BY <1>3, <1>4, <1>5, <1>6, <1>7 DEF IndInv, TypeOK
<1>9. IdsAreGiven'
  BY <1>6 DEF IndInv, IdsAreGiven
<1>10. AnswersAreAboutRequests' /\ OneAnswerPerType' /\ StatementsAreOwn'
  <2>1. current' = [op |-> c.step, row |-> [kind |-> kind[c.object], id |-> id'[c.object], body |-> body[c.object]]]
    BY <1>5, <1>6 DEF RowOf
  <2> HIDE DEF c
  <2> QED
    BY <1>2, <1>5, <1>6, <1>7, <2>1, ThreadKeeps
<1> QED
  BY <1>8, <1>9, <1>10 DEF IndInv

\* What is known of a thread that is past writing its statement.
LEMMA InAnswer ==
    ASSUME IndInv, NEW t \in Thread, call[t].pc \in {"bind", "prepare", "clear", "run"}
    PROVE  /\ call[t] \in Working /\ Busy(t) /\ Answering(t) /\ MayAnswer(t)
           /\ call[t].object \in made
           /\ Own(t) = [op |-> call[t].step,
                        row |-> [kind |-> kind[call[t].object], id |-> id[call[t].object], body |-> body[call[t].object]]]
           /\ Open(t) => overlapped \/ \A u \in Thread \ {t} : ~ Open(u)
<1>1. call[t] \in Working /\ Busy(t)
  BY IdleOrWorking DEF IndInv, TypeOK, Busy
<1>2. Answering(t)
  BY <1>1 DEF Answering, At
<1>3. MayAnswer(t)
  BY <1>2, AnsweringMayAnswer
<1> QED
  BY <1>1, <1>2, <1>3 DEF IndInv, AnswersAreAboutRequests, StatementsAreOwn, OneStatementAtATime, Own, RowOf

\* The end of an answer disturbs nobody.
LEMMA ReturnKeeps ==
    ASSUME IndInv, NEW t \in Thread, Return(t), UNCHANGED <<kind, body, made, overlapped>>,
           \A u \in Thread \ {t} : Answering(u) => id'[call[u].object] = id[call[u].object],
           current' # current => overlapped \/ \A u \in Thread \ {t} : ~ Open(u)
    PROVE  AnswersAreAboutRequests' /\ OneAnswerPerType' /\ StatementsAreOwn' /\ call' \in [Thread -> Call]
<1>1. Idle \in Call /\ call' = [call EXCEPT ![t] = Idle]
  BY DEF Return, Idle, Call
<1>2. ~ Answers(Idle) /\ ~ Opens(Idle) /\ ~ IsPrepared(Idle) /\ Idle.pc \notin {"bind", "prepare"}
  BY DEF Idle, Answers, Opens, IsPrepared
<1>3. call' \in [Thread -> Call]
  BY <1>1 DEF IndInv, TypeOK
<1>4. overlapped' \/ ~ overlapped
  BY DEF IndInv, TypeOK
<1> QED
  BY <1>1, <1>2, <1>3, <1>4, ThreadKeeps

\* operator << of a blob.
LEMMA BindKeeps ==
    ASSUME IndInv, NEW t \in Thread, Bind(t)
    PROVE  IndInv'
<1> DEFINE c == [call[t] EXCEPT !.pc = "prepare"]
<1>1. call[t].pc = "bind" /\ Open(t)
  BY DEF Bind, At, Open
<1>2. /\ call' = [call EXCEPT ![t] = c] /\ blobs' = blobs + 1
      /\ UNCHANGED <<kind, objects, made, body, id, rows, given, current, overlapped, muddled>>
  BY DEF Bind, Goto
<1>3. /\ c \in Call /\ c.pc = "prepare" /\ c.object = call[t].object /\ c.step = call[t].step
      /\ ~ IsPrepared(c)
  BY <1>1, InAnswer DEF Working, Call, IsPrepared
<1>4. TypeOK' /\ IdsAreGiven'
  BY <1>2, <1>3 DEF IndInv, TypeOK, IdsAreGiven
<1>5. overlapped \/ current = Own(t)
  BY <1>1 DEF IndInv, StatementsAreOwn, CurrentIsOwn
<1>6. AnswersAreAboutRequests' /\ OneAnswerPerType' /\ StatementsAreOwn'
  <2> HIDE DEF c
  <2> QED
    BY <1>1, <1>2, <1>3, <1>5, InAnswer, ThreadKeeps
<1> QED
  BY <1>4, <1>6 DEF IndInv

\* An exception, and nothing else, ends an answer with a complaint.
LEMMA ComplainTyped ==
    ASSUME IndInv, NEW t \in Thread, Complain(t), call[t].pc \in {"prepare", "run"}
    PROVE  muddled' \subseteq Kind \X Body /\ Return(t)
<1>1. Content(call[t].object) \in Kind \X Body
  BY InAnswer, RowsAreTyped DEF IndInv
<1> QED
  BY <1>1 DEF Complain, IndInv, TypeOK

\* operator >>: what is prepared is the current statement.
LEMMA PrepareKeeps ==
    ASSUME IndInv, NEW t \in Thread, Prepare(t)
    PROVE  IndInv'
<1>1. call[t].pc = "prepare" /\ Open(t)
  BY DEF Prepare, At, Open
<1>2. UNCHANGED <<kind, objects, made, body, id, rows, given, current, blobs, overlapped>>
  BY DEF Prepare
<1>3. IdsAreGiven'
  BY <1>2 DEF IndInv, IdsAreGiven
<1>4. CASE Complain(t)
  <2>1. AnswersAreAboutRequests' /\ OneAnswerPerType' /\ StatementsAreOwn' /\ call' \in [Thread -> Call]
    BY <1>1, <1>2, <1>4, ComplainTyped, ReturnKeeps
  <2>2. TypeOK'
    BY <1>1, <1>2, <1>4, <2>1, ComplainTyped DEF IndInv, TypeOK
  <2> QED
    BY <1>3, <2>1, <2>2 DEF IndInv
<1>5. CASE ~ Complain(t)
  <2> DEFINE pc == IF call[t].step = "select" THEN "run" ELSE "clear"
             c == [call[t] EXCEPT !.text = current, !.pc = pc]
  <2>1. call' = [call EXCEPT ![t] = [call[t] EXCEPT !.text = current, !.pc = pc]] /\ UNCHANGED muddled
    BY <1>5 DEF Prepare
  <2>2. /\ call' = [call EXCEPT ![t] = c]
        /\ c \in Call /\ c.pc = pc /\ c.object = call[t].object /\ c.step = call[t].step /\ c.text = current
    BY <1>1, <2>1, InAnswer DEF Working, Call, IndInv, TypeOK
  <2>3. TypeOK'
    BY <1>2, <2>1, <2>2 DEF IndInv, TypeOK
  <2>4. overlapped \/ current = Own(t)
    BY <1>1 DEF IndInv, StatementsAreOwn, CurrentIsOwn
  <2>5. c.pc \notin {"bind", "prepare"}
    BY <2>2
  <2>6. AnswersAreAboutRequests' /\ OneAnswerPerType' /\ StatementsAreOwn'
    <3> HIDE DEF c
    <3> QED
      BY <1>1, <1>2, <2>2, <2>4, <2>5, InAnswer, ThreadKeeps
  <2> QED
    BY <1>3, <2>3, <2>6 DEF IndInv
<1> QED
  BY <1>4, <1>5

\* The statement that is taken out is the thread's, or two have met.
LEMMA ClearKeeps ==
    ASSUME IndInv, NEW t \in Thread, Clear(t)
    PROVE  IndInv'
<1>1. call[t].pc = "clear" /\ Open(t)
  BY DEF Clear, At, Open
<1>2. /\ UNCHANGED <<kind, objects, made, body, id, rows, given, overlapped, muddled>>
      /\ current' = Nothing /\ blobs' = 0
  BY DEF Clear
<1>3. IdsAreGiven'
  BY <1>2 DEF IndInv, IdsAreGiven
<1>4. overlapped \/ \A u \in Thread \ {t} : ~ Open(u)
  BY <1>1, InAnswer
<1>5. CASE call[t].step = "select"
  <2>1. Return(t)
    BY <1>5 DEF Clear
  <2>2. AnswersAreAboutRequests' /\ OneAnswerPerType' /\ StatementsAreOwn' /\ call' \in [Thread -> Call]
    BY <1>2, <1>4, <2>1, ReturnKeeps
  <2>3. TypeOK'
    BY <1>2, <2>2 DEF IndInv, TypeOK, Text
  <2> QED
    BY <1>3, <2>2, <2>3 DEF IndInv
<1>6. CASE call[t].step # "select"
  <2> DEFINE c == [call[t] EXCEPT !.pc = "run"]
  <2>1. call' = [call EXCEPT ![t] = c]
    BY <1>6 DEF Clear, Goto
  <2>2. /\ c \in Call /\ c.pc = "run" /\ c.object = call[t].object /\ c.step = call[t].step
        /\ c.text = call[t].text /\ ~ Opens(c)
    BY <1>1, <1>6, InAnswer DEF Working, Call, Opens
  <2>3. TypeOK'
    BY <1>2, <2>1, <2>2 DEF IndInv, TypeOK, Text
  <2>4. overlapped \/ call[t].text = Own(t)
    BY <1>1, <1>6 DEF IndInv, StatementsAreOwn, PreparedIsOwn, At
  <2>5. c.pc \notin {"bind", "prepare"}
    BY <2>2
  <2>6. AnswersAreAboutRequests' /\ OneAnswerPerType' /\ StatementsAreOwn'
    <3> HIDE DEF c
    <3> QED
      BY <1>1, <1>2, <1>4, <2>1, <2>2, <2>4, <2>5, InAnswer, ThreadKeeps
  <2> QED
    BY <1>3, <2>3, <2>6 DEF IndInv
<1> QED
  BY <1>5, <1>6

\* What a thread that runs a statement may have in hand.
LEMMA RunningText ==
    ASSUME IndInv, NEW t \in Thread, call[t].pc = "run"
    PROVE  call[t].text \in Text /\ call[t].object \in Object
BY InAnswer DEF Working

\* The tables keep their types when a statement is run, or when it is not.
LEMMA TablesKeep ==
    ASSUME IndInv, NEW text \in Text, Affect(text) \/ UNCHANGED <<rows, given>>
    PROVE  rows' \subseteq Row /\ given' \in [Kind -> Nat] /\ IdsAreGiven'
<1>1. CASE Affect(text)
  <2>1. text # Nothing
    BY <1>1 DEF Affect, Nothing
  <2> QED
    BY <1>1, <2>1, AffectKeeps DEF IndInv
<1>2. CASE UNCHANGED <<rows, given>>
  BY <1>2 DEF IndInv, TypeOK, IdsAreGiven
<1> QED
  BY <1>1, <1>2

\* A statement without a result: the SELECT after an INSERT goes on with the lock.
LEMMA ExecuteKeeps ==
    ASSUME IndInv, NEW t \in Thread, Execute(t)
    PROVE  IndInv'
<1> DEFINE o == call[t].object
           c == [pc |-> "write", step |-> "select", object |-> o, text |-> Nothing]
<1>1. call[t].pc = "run" /\ call[t].step # "select"
  BY DEF Execute, At
<1>2. UNCHANGED <<kind, objects, made, body, id, current, blobs, overlapped>>
  BY DEF Execute
<1>3. Affect(call[t].text) \/ UNCHANGED <<rows, given>>
  BY DEF Execute
<1>4. rows' \subseteq Row /\ given' \in [Kind -> Nat] /\ IdsAreGiven'
  BY <1>1, <1>3, RunningText, TablesKeep
<1>5. \/ UNCHANGED muddled /\ Return(t)
      \/ UNCHANGED muddled /\ Begin(t, "select", o)
      \/ Complain(t)
  BY DEF Execute
<1>6. muddled' \subseteq Kind \X Body
  <2>1. CASE Complain(t)
    BY <1>1, <2>1, ComplainTyped
  <2>2. CASE UNCHANGED muddled
    BY <2>2 DEF IndInv, TypeOK
  <2> QED
    BY <1>5, <2>1, <2>2
<1>7. CASE Return(t) \/ Complain(t)
  <2>1. Return(t)
    BY <1>7 DEF Complain
  <2>2. AnswersAreAboutRequests' /\ OneAnswerPerType' /\ StatementsAreOwn' /\ call' \in [Thread -> Call]
    BY <1>2, <2>1, ReturnKeeps
  <2>3. TypeOK'
    BY <1>2, <1>4, <1>6, <2>2 DEF IndInv, TypeOK
  <2> QED
    BY <1>4, <2>2, <2>3 DEF IndInv
<1>8. CASE Begin(t, "select", o)
  <2>1. c \in Call /\ call' = [call EXCEPT ![t] = c]
    BY <1>1, <1>8, RunningText DEF Begin, Call, Text
  <2>2. TypeOK'
    BY <1>2, <1>4, <1>6, <2>1 DEF IndInv, TypeOK
  <2>3. /\ c.object = call[t].object /\ ~ Opens(c) /\ ~ IsPrepared(c)
        /\ c.pc \notin {"bind", "prepare"}
    BY DEF Opens, IsPrepared
  <2>4. overlapped' \/ ~ overlapped
    BY <1>2 DEF IndInv, TypeOK
  <2>5. AnswersAreAboutRequests' /\ OneAnswerPerType' /\ StatementsAreOwn'
    <3> HIDE DEF c
    <3> QED
      BY <1>1, <1>2, <2>1, <2>3, <2>4, InAnswer, ThreadKeeps
  <2> QED
    BY <1>4, <2>2, <2>5 DEF IndInv
<1> QED
  BY <1>5, <1>7, <1>8

\* A statement with a result: only the id of the thread's own object changes.
LEMMA ExtractKeeps ==
    ASSUME IndInv, NEW t \in Thread, Extract(t)
    PROVE  IndInv'
<1> DEFINE o == call[t].object
           c == [call[t] EXCEPT !.pc = "clear"]
<1>1. call[t].pc = "run" /\ call[t].step = "select" /\ Open(t)
  BY DEF Extract, At, Open
<1>2. UNCHANGED <<kind, objects, made, body, current, blobs, overlapped>>
  BY DEF Extract
<1>3. Affect(call[t].text) \/ UNCHANGED <<rows, given>>
  BY DEF Extract
<1>4. rows' \subseteq Row /\ given' \in [Kind -> Nat] /\ IdsAreGiven'
  BY <1>1, <1>3, RunningText, TablesKeep
<1>5. \/ Complain(t)
      \/ UNCHANGED muddled /\ call' = [call EXCEPT ![t] = c]
  BY DEF Extract, Goto
<1>6. UNCHANGED id \/ \E r \in rows : id' = [id EXCEPT ![o] = r.id]
  BY DEF Extract, Found
<1>7. id' \in [Object -> Nat]
  BY <1>6 DEF IndInv, TypeOK, Row
<1>8. ASSUME NEW u \in Thread \ {t}, Answering(u) PROVE id'[call[u].object] = id[call[u].object]
  <2>1. call[u].object # o
    BY <1>1, <1>8, InAnswer DEF MayAnswer
  <2>2. call[u].object \in Object
    <3>1. call[u].object \in made
      BY <1>8 DEF IndInv, AnswersAreAboutRequests, Answering
    <3> QED
      BY <3>1, RowsAreTyped DEF IndInv
  <2> QED
    BY <1>6, <2>1, <2>2 DEF IndInv, TypeOK
<1>9. CASE Complain(t)
  <2>1. Return(t) /\ muddled' \subseteq Kind \X Body
    BY <1>1, <1>9, ComplainTyped
  <2>2. AnswersAreAboutRequests' /\ OneAnswerPerType' /\ StatementsAreOwn' /\ call' \in [Thread -> Call]
    BY <1>2, <1>8, <2>1, ReturnKeeps
  <2>3. TypeOK'
    BY <1>2, <1>4, <1>7, <2>1, <2>2 DEF IndInv, TypeOK
  <2> QED
    BY <1>4, <2>2, <2>3 DEF IndInv
<1>10. CASE UNCHANGED muddled /\ call' = [call EXCEPT ![t] = c]
  <2>1. /\ c \in Call /\ c.pc = "clear" /\ c.object = o /\ c.step = "select"
        /\ ~ IsPrepared(c) /\ c.pc \notin {"bind", "prepare"}
    BY <1>1, InAnswer DEF Working, Call, IsPrepared
  <2>2. TypeOK'
    BY <1>2, <1>4, <1>7, <1>10, <2>1 DEF IndInv, TypeOK
  <2>3. AnswersAreAboutRequests' /\ OneAnswerPerType' /\ StatementsAreOwn'
    <3> HIDE DEF c
    <3>1. c # Idle => c.object \in made'
      BY <1>1, <1>2, <2>1, InAnswer
    <3> QED
      BY <1>1, <1>2, <1>8, <1>10, <2>1, <3>1, InAnswer, ThreadKeeps
  <2> QED
    BY <1>4, <2>2, <2>3 DEF IndInv
<1> QED
  BY <1>5, <1>9, <1>10

----------------------------------------------------------------------------
(* The theorems.                                                           *)

\* The tables are empty and nobody asks for anything.
LEMMA InitHolds == Init => IndInv
<1> SUFFICES ASSUME Init PROVE IndInv
  OBVIOUS
<1>1. TypeOK
  BY DEF Init, TypeOK, Text, Call, Idle
<1>2. \A t \in Thread : ~ Busy(t) /\ ~ Answering(t) /\ call[t].pc = "idle"
  BY DEF Init, Busy, Answering, Idle
<1>3. IdsAreGiven /\ AnswersAreAboutRequests /\ OneAnswerPerType
  BY <1>2 DEF Init, IdsAreGiven, AnswersAreAboutRequests, OneAnswerPerType
<1>4. StatementsAreOwn
  BY <1>2 DEF StatementsAreOwn, OneStatementAtATime, CurrentIsOwn, PreparedIsOwn, Open, At
<1> QED
  BY <1>1, <1>3, <1>4 DEF IndInv

\* A request is for an object that has a type and was not there, or that is there.
LEMMA RequestKeeps ==
    ASSUME IndInv, NEW t \in Thread, NEW o \in DOMAIN kind, Request(t, o)
    PROVE  IndInv'
<1>1. Add(t, o) \/ Remove(t, o)
  BY DEF Request, AddCamera, AddUser, AddSettings, AddPermission, AddCameraAction, AddEventArchiveSettings,
         RemoveCamera, RemoveUser, RemoveSettings, RemovePermission, RemoveCameraAction, RemoveEventArchiveSettings
<1>2. objects \subseteq made /\ made \subseteq DOMAIN kind
  BY DEF IndInv, TypeOK
<1>3. CASE Add(t, o)
  <2>1. o \in made' /\ made \subseteq made' /\ made' \subseteq DOMAIN kind /\ objects' \subseteq made'
    BY <1>2, <1>3 DEF Add
  <2> QED
    BY <1>3, <2>1, BeginKeeps DEF Add
<1>4. CASE Remove(t, o)
  <2>1. o \in made' /\ made \subseteq made' /\ made' \subseteq DOMAIN kind /\ objects' \subseteq made'
    BY <1>2, <1>4 DEF Remove
  <2> QED
    BY <1>4, <2>1, BeginKeeps DEF Remove
<1> QED
  BY <1>1, <1>3, <1>4

\* Every step keeps the invariant.
LEMMA NextKeeps == IndInv /\ [Next]_vars => IndInv'
<1> SUFFICES ASSUME IndInv, [Next]_vars PROVE IndInv'
  OBVIOUS
<1>1. ASSUME NEW t \in Thread, Step(t) PROVE IndInv'
  BY <1>1, WriteKeeps, BindKeeps, PrepareKeeps, ClearKeeps, ExecuteKeeps, ExtractKeeps DEF Step
<1>2. ASSUME NEW t \in Thread, NEW o \in DOMAIN kind, Request(t, o) PROVE IndInv'
  BY <1>2, RequestKeeps
<1>3. CASE UNCHANGED vars
  <2> USE <1>3 DEF IndInv, vars
  <2>1. TypeOK' /\ IdsAreGiven'
    BY DEF TypeOK, IdsAreGiven
  <2>2. AnswersAreAboutRequests'
    BY DEF AnswersAreAboutRequests, Busy
  <2>3. OneAnswerPerType'
    BY DEF OneAnswerPerType, Answering, Busy, At
  <2>4. StatementsAreOwn'
    BY DEF StatementsAreOwn, OneStatementAtATime, CurrentIsOwn, PreparedIsOwn, Open, At, Own, RowOf
  <2> QED
    BY <2>1, <2>2, <2>3, <2>4
<1> QED
  BY <1>1, <1>2, <1>3 DEF Next

\* The invariant holds in every behaviour.
THEOREM Invariance == Spec => []IndInv
BY InitHolds, NextKeeps, PTL DEF Spec

\* Every variable keeps its type; a new id is a number even where ids are reused.
THEOREM TypeCorrect == Spec => []TypeOK
<1>1. IndInv => TypeOK
  BY DEF IndInv
<1> QED
  BY <1>1, Invariance, PTL

\* operator << and operator >>: unless statements of two threads met in the adapter, each thread executes the
\* statement it wrote, with the id its object has.
ExecutesItsOwn == \A t \in Thread : At(t, "run") => call[t].text = Own(t) \/ overlapped

\* The statement a thread executes is its own, for every number of threads and every mix of types.
THEOREM StatementsStayTheirOwn == Spec => []ExecutesItsOwn
<1>1. IndInv => ExecutesItsOwn
  BY DEF IndInv, StatementsAreOwn, PreparedIsOwn, ExecutesItsOwn
<1> QED
  BY <1>1, Invariance, PTL

----------------------------------------------------------------------------
(* The mirror.  What was said of statements is enough to follow a row and  *)
(* its object: which threads may be about one object, which row its id     *)
(* came from, and, as long as its contents were not muddled, that the row  *)
(* is the only one that looks like it.                                     *)

Steps == {"insert", "select", "delete"}

Doing(o, step) == \E t \in Thread : Busy(t) /\ call[t].object = o /\ call[t].step = step

Settled(o) == ~ Doing(o, "insert") /\ ~ Doing(o, "select")

RowsAreNumbered ==
    \A r, q \in rows : r.id > 0 /\ (r.kind = q.kind /\ r.id = q.id => r = q)

UnmadeAreNew == \A o \in Object \ made : id[o] = 0

\* One thread adds an object, and one removes it.
AddsOnce ==
    \A t, u \in Thread :
        /\ Busy(t) /\ call[t].step \in {"insert", "select"}
        /\ Busy(u) /\ call[u].step \in {"insert", "select"}
        /\ call[t].object = call[u].object
        => t = u

RemovesOnce ==
    \A t \in Thread : Busy(t) /\ call[t].step = "delete" =>
        /\ call[t].object \notin objects
        /\ \A u \in Thread :
              Busy(u) /\ call[u].step = "delete" /\ call[u].object = call[t].object => t = u

InsertsHaveNoId == \A o \in made : Doing(o, "insert") => id[o] = 0

ExtractedHasId ==
    \A t \in Thread : At(t, "clear") /\ call[t].step = "select" => id[call[t].object] # 0

OneWithoutId == \A o, p \in objects : kind[o] = kind[p] /\ id[o] = 0 /\ id[p] = 0 => o = p

\* What holds whatever was muddled.
Basics ==
    /\ RowsAreNumbered /\ UnmadeAreNew
    /\ AddsOnce /\ RemovesOnce
    /\ InsertsHaveNoId /\ ExtractedHasId /\ OneWithoutId

\* Who may yet ask for a row to be deleted, or is about to learn its id.
Claimant ==
    {o \in made : Doing(o, "select") \/ (id[o] # 0 /\ (o \in objects \/ Doing(o, "delete")))}

\* Every claimant has a row of its own that is not before the one it names: so no id that somebody
\* has is given again, though the rows at the end of a table may be deleted and their ids be free.
Backs(f) ==
    /\ \A o, p \in Claimant : f[o] = f[p] => o = p
    /\ \A o \in Claimant : f[o].kind = kind[o] /\ id[o] <= f[o].id
    /\ \A o \in Claimant : Doing(o, "select") =>
          \A r \in rows : r.kind = kind[o] => r.id <= f[o].id

\* Some assignment of rows does it.
IdsAreBacked == \E f \in [Claimant -> rows] : Backs(f)

\* The row an object names is its own, or looks like it.
NoForeignIds ==
    \A o \in Claimant, r \in rows : r.kind = kind[o] /\ r.id = id[o] => Like(r, o)

\* The model has the object, or a thread answers for it.
Present(o) == o \in objects \/ \E step \in Steps : Doing(o, step)

\* No request about the same contents came in between, and no answer about them failed.
Clean(o) == Content(o) \notin muddled

\* No two objects look the same.
Alone == \A o, p \in made : Alike(o, p) /\ Clean(o) /\ Present(o) /\ Present(p) => o = p

\* An object whose adding is not answered yet was not removed.
AddingIsListed == \A o \in made : Clean(o) /\ ~ Settled(o) => o \in objects

\* No row looks like an object that is not inserted yet ...
InsertHasNoRow == \A o \in made : Clean(o) /\ Doing(o, "insert") => \A r \in rows : ~ Like(r, o)

\* ... and at most one like an object whose id is looked for.
SelectHasOneRow ==
    \A o \in made : Clean(o) /\ Doing(o, "select") =>
        \A r, q \in rows : Like(r, o) /\ Like(q, o) => r = q

\* An object that has an id, or was answered for, is in its table.
StoredHaveRows ==
    \A o \in objects : Clean(o) /\ (id[o] # 0 \/ Settled(o)) => RowOf(o) \in rows

\* A row looks like an object that is present ...
RowsArePresent ==
    \A r \in rows : <<r.kind, r.body>> \notin muddled => \E o \in made : Like(r, o) /\ Present(o)

\* ... and has its id, once that was read back.
SettledRows ==
    \A o \in made, r \in rows : Clean(o) /\ Present(o) /\ Settled(o) /\ Like(r, o) => RowOf(o) = r

Mirror ==
    /\ Alone /\ AddingIsListed /\ InsertHasNoRow /\ SelectHasOneRow
    /\ StoredHaveRows /\ RowsArePresent /\ SettledRows

\* The invariant of the mirror.
MirrorInv ==
    /\ IndInv
    /\ Basics
    /\ overlapped \/ (IdsAreBacked /\ NoForeignIds /\ Mirror)

----------------------------------------------------------------------------
(* What happens to the answers.                                            *)

\* The object of an answer was made, and has a type.
LEMMA BusyIsTyped ==
    ASSUME IndInv, NEW t \in Thread, Busy(t)
    PROVE  /\ call[t] \in Working /\ call[t].step \in Steps
           /\ call[t].object \in made /\ call[t].object \in Object /\ kind[call[t].object] \in Kind
<1>1. call[t] \in Working
  BY IdleOrWorking DEF IndInv, TypeOK, Busy
<1>2. call[t].object \in made
  BY DEF IndInv, AnswersAreAboutRequests
<1> QED
  BY <1>1, <1>2, RowsAreTyped DEF Working, Steps, IndInv

\* An answer goes on.
LEMMA GoingOn ==
    ASSUME IndInv, NEW t \in Thread, Busy(t), NEW c, call' = [call EXCEPT ![t] = c],
           c # Idle, c.object = call[t].object, c.step = call[t].step
    PROVE  /\ \A o, step : Doing(o, step)' <=> Doing(o, step)
           /\ \A u \in Thread : (Busy(u)' <=> Busy(u)) /\ (Busy(u) => call'[u].object = call[u].object /\ call'[u].step = call[u].step)
<1>1. call'[t] = c /\ \A u \in Thread \ {t} : call'[u] = call[u]
  BY DEF IndInv, TypeOK
<1>2. \A u \in Thread : (Busy(u)' <=> Busy(u)) /\ (Busy(u) => call'[u].object = call[u].object /\ call'[u].step = call[u].step)
  BY <1>1 DEF Busy
<1> QED
  BY <1>2 DEF Doing

\* An answer ends: nobody else was at the same step of the same object.
LEMMA Ending ==
    ASSUME IndInv, Basics, NEW t \in Thread, Busy(t), Return(t)
    PROVE  /\ \A o, step : Doing(o, step)' => Doing(o, step)
           /\ \A o, step : Doing(o, step) => Doing(o, step)' \/ (o = call[t].object /\ step = call[t].step)
           /\ \A o, step : o = call[t].object /\ step = call[t].step => ~ Doing(o, step)'
           /\ ~ Busy(t)' /\ \A u \in Thread \ {t} : call'[u] = call[u]
<1>1. call'[t] = Idle /\ \A u \in Thread \ {t} : call'[u] = call[u]
  BY DEF IndInv, TypeOK, Return
<1>2. ~ Busy(t)' /\ \A u \in Thread \ {t} : Busy(u)' <=> Busy(u)
  BY <1>1 DEF Busy
<1>3. \A o, step : Doing(o, step)' => Doing(o, step)
  BY <1>1, <1>2 DEF Doing
<1>4. \A o, step : Doing(o, step) => Doing(o, step)' \/ (o = call[t].object /\ step = call[t].step)
  BY <1>1, <1>2 DEF Doing
<1>5. call[t].step \in Steps
  BY BusyIsTyped
<1>6. ASSUME NEW u \in Thread \ {t}, Busy(u), call[u].object = call[t].object, call[u].step = call[t].step
      PROVE  FALSE
  BY <1>5, <1>6 DEF Basics, AddsOnce, RemovesOnce, Steps
<1>7. \A o, step : o = call[t].object /\ step = call[t].step => ~ Doing(o, step)'
  BY <1>1, <1>2, <1>6 DEF Doing
<1> QED
  BY <1>1, <1>2, <1>3, <1>4, <1>7

\* An answer begins.
LEMMA Beginning ==
    ASSUME IndInv, NEW t \in Thread, ~ Busy(t), NEW o, NEW step \in Steps, Begin(t, step, o)
    PROVE  /\ \A p, s : Doing(p, s)' <=> Doing(p, s) \/ (p = o /\ s = step)
           /\ Busy(t)' /\ call'[t].object = o /\ call'[t].step = step /\ call'[t].pc = "write"
           /\ \A u \in Thread \ {t} : call'[u] = call[u]
<1>1. /\ call'[t] = [pc |-> "write", step |-> step, object |-> o, text |-> Nothing]
      /\ \A u \in Thread \ {t} : call'[u] = call[u]
  BY DEF IndInv, TypeOK, Begin
<1>2. Busy(t)' /\ \A u \in Thread \ {t} : Busy(u)' <=> Busy(u)
  <2>1. call'[t].pc = "write"
    BY <1>1
  <2>2. call'[t] # Idle
    BY <2>1 DEF Idle
  <2> QED
    BY <1>1, <2>2 DEF Busy
<1> QED
  BY <1>1, <1>2 DEF Doing

\* After the INSERT comes the SELECT.
LEMMA Selecting ==
    ASSUME IndInv, Basics, NEW t \in Thread, Busy(t), call[t].step = "insert",
           Begin(t, "select", call[t].object)
    PROVE  /\ \A p : Doing(p, "insert")' <=> Doing(p, "insert") /\ p # call[t].object
           /\ \A p : Doing(p, "select")' <=> Doing(p, "select") \/ p = call[t].object
           /\ \A p : Doing(p, "delete")' <=> Doing(p, "delete")
           /\ Busy(t)' /\ call'[t].object = call[t].object /\ call'[t].step = "select" /\ call'[t].pc = "write"
           /\ \A u \in Thread \ {t} : call'[u] = call[u]
<1>1. /\ call'[t] = [pc |-> "write", step |-> "select", object |-> call[t].object, text |-> Nothing]
      /\ \A u \in Thread \ {t} : call'[u] = call[u]
  BY DEF IndInv, TypeOK, Begin
<1>2. Busy(t)' /\ \A u \in Thread \ {t} : Busy(u)' <=> Busy(u)
  <2>1. call'[t].pc = "write"
    BY <1>1
  <2>2. call'[t] # Idle
    BY <2>1 DEF Idle
  <2> QED
    BY <1>1, <2>2 DEF Busy
<1>3. ASSUME NEW u \in Thread \ {t}, Busy(u), call[u].object = call[t].object, call[u].step = "insert"
      PROVE  FALSE
  BY <1>3 DEF Basics, AddsOnce
<1> QED
  BY <1>1, <1>2, <1>3 DEF Doing

\* While a thread answers, nobody reads back an id of its type.
LEMMA SelectsOfOthers ==
    ASSUME IndInv, NEW t \in Thread, Answering(t), NEW o \in made, Doing(o, "select"),
           kind[o] = kind[call[t].object]
    PROVE  o = call[t].object /\ call[t].step = "select"
<1>1. PICK u \in Thread : Busy(u) /\ call[u].object = o /\ call[u].step = "select"
  BY DEF Doing
<1>2. Answering(u)
  BY <1>1 DEF Answering
<1> QED
  BY <1>1, <1>2 DEF IndInv, OneAnswerPerType

----------------------------------------------------------------------------
(* Rows behind ids.                                                        *)

\* Each claimant keeps its row as long as no row comes or goes, whether its id is found or not.
LEMMA RowsStay ==
    ASSUME IndInv, RowsAreNumbered, IdsAreBacked, NoForeignIds, UNCHANGED <<kind, body, rows>>,
           Claimant' \subseteq Claimant,
           \A o \in Claimant' : Doing(o, "select")' => Doing(o, "select"),
           \A o \in Claimant' :
               \/ id'[o] = id[o]
               \/ Doing(o, "select") /\ \E r \in rows : Like(r, o) /\ r.id = id'[o]
    PROVE  IdsAreBacked' /\ NoForeignIds'
<1>1. PICK f \in [Claimant -> rows] : Backs(f)
  BY DEF IdsAreBacked
<1>2. PICK g \in [Claimant' -> rows'] : \A o \in Claimant' : g[o] = f[o]
  <2>1. [o \in Claimant' |-> f[o]] \in [Claimant' -> rows']
    OBVIOUS
  <2> QED
    BY <2>1
<1>3. \A o \in Claimant' : g[o] = f[o] /\ o \in Claimant
  BY <1>2
<1>4. ASSUME NEW o \in Claimant' PROVE id'[o] <= f[o].id
  BY <1>1, <1>3 DEF Backs, Like
<1>5. Backs(g)'
  <2>1. (\A o, p \in Claimant : g[o] = g[p] => o = p)'
    BY <1>1, <1>3 DEF Backs
  <2>2. (\A o \in Claimant : g[o].kind = kind[o] /\ id[o] <= g[o].id)'
    BY <1>1, <1>3, <1>4 DEF Backs
  <2>3. (\A o \in Claimant : Doing(o, "select") => \A r \in rows : r.kind = kind[o] => r.id <= g[o].id)'
    BY <1>1, <1>3 DEF Backs
  <2> QED
    BY <2>1, <2>2, <2>3 DEF Backs
<1>6. IdsAreBacked'
  BY <1>5 DEF IdsAreBacked
<1>7. ASSUME NEW o \in Claimant', NEW r \in rows, r.kind = kind[o], r.id = id'[o]
      PROVE  Like(r, o)
  <2>1. CASE id'[o] = id[o]
    BY <1>3, <1>7, <2>1 DEF NoForeignIds
  <2>2. CASE \E q \in rows : Like(q, o) /\ q.id = id'[o]
    BY <1>7, <2>2 DEF RowsAreNumbered, Like
  <2> QED
    BY <2>1, <2>2
<1>8. NoForeignIds'
  BY <1>7 DEF NoForeignIds, Like
<1> QED
  BY <1>6, <1>8

\* A new row is behind the id that is read back next, and its number is nobody's.
LEMMA RowComes ==
    ASSUME IndInv, RowsAreNumbered, RowsAreNumbered', IdsAreBacked, NoForeignIds, UNCHANGED <<kind, body, id>>,
           NEW o \in made, o \notin Claimant, id[o] = 0, NEW r \in Row,
           r.kind = kind[o], r.id = NextId(kind[o]), rows' = rows \cup {r},
           Claimant' \subseteq Claimant \cup {o},
           \A p \in Claimant : Doing(p, "select")' => Doing(p, "select") /\ kind[p] # kind[o]
    PROVE  IdsAreBacked' /\ NoForeignIds'
<1>1. PICK f \in [Claimant -> rows] : Backs(f)
  BY DEF IdsAreBacked
<1>2. kind[o] \in Kind
  BY RowsAreTyped DEF IndInv
<1>3. \A q \in rows : q.kind = kind[o] => q.id < r.id
  BY <1>2, NextIdIsNew DEF IndInv
<1>4. r \notin rows /\ r.id \in Nat /\ \A q \in rows : q.id \in Nat
  BY <1>3 DEF Row, IndInv, TypeOK
<1>5. \A p \in Claimant' : p = o \/ (p # o /\ p \in Claimant)
  OBVIOUS
<1>6. PICK g \in [Claimant' -> rows'] :
             \A p \in Claimant' : (p = o => g[p] = r) /\ (p # o => g[p] = f[p])
  <2>1. [p \in Claimant' |-> IF p = o THEN r ELSE f[p]] \in [Claimant' -> rows']
    BY <1>5
  <2> QED
    BY <2>1
<1>7. \A p \in Claimant' : (p = o => g[p] = r) /\ (p # o => p \in Claimant /\ g[p] = f[p])
  BY <1>6
<1>8. (\A p, q \in Claimant : g[p] = g[q] => p = q)'
  BY <1>1, <1>4, <1>7 DEF Backs
<1>9. (\A p \in Claimant : g[p].kind = kind[p] /\ id[p] <= g[p].id)'
  BY <1>1, <1>4, <1>7 DEF Backs
<1>10. (\A p \in Claimant : Doing(p, "select") => \A q \in rows : q.kind = kind[p] => q.id <= g[p].id)'
  <2> SUFFICES ASSUME NEW p \in Claimant', Doing(p, "select")', NEW q \in rows', q.kind = kind[p]
               PROVE  q.id <= g[p].id
    OBVIOUS
  <2>1. CASE p = o
    BY <1>3, <1>4, <1>7, <2>1
  <2>2. CASE p # o
    BY <1>1, <1>7, <2>2 DEF Backs
  <2> QED
    BY <2>1, <2>2
<1>11. IdsAreBacked'
  BY <1>8, <1>9, <1>10 DEF IdsAreBacked, Backs
<1>12. ASSUME NEW p \in Claimant', NEW q \in rows', q.kind = kind[p], q.id = id[p]
       PROVE  Like(q, p)
  <2>1. CASE p = o
    BY <1>3, <1>4, <1>12, <2>1 DEF RowsAreNumbered
  <2>2. CASE p # o /\ q = r
    <3>1. f[p] \in rows /\ f[p].kind = kind[o] /\ id[p] <= f[p].id
      BY <1>1, <1>5, <1>12, <2>2 DEF Backs
    <3>2. id[p] \in Nat
      BY <1>4, <1>12, <2>2
    <3> QED
      BY <1>3, <1>4, <1>12, <2>2, <3>1, <3>2
  <2>3. CASE p # o /\ q \in rows
    BY <1>5, <1>12, <2>3 DEF NoForeignIds
  <2> QED
    BY <2>1, <2>2, <2>3
<1>13. NoForeignIds'
  BY <1>12 DEF NoForeignIds, Like
<1> QED
  BY <1>11, <1>13

\* The row of an object goes, and with it the claim: whoever was behind that row takes the one that was
\* behind the object, which is not before it.
LEMMA RowGoes ==
    ASSUME IndInv, RowsAreNumbered, IdsAreBacked, NoForeignIds, UNCHANGED <<kind, body, id>>,
           NEW o \in made, id[o] # 0 => o \in Claimant,
           rows' = {r \in rows : ~ (r.kind = kind[o] /\ r.id = id[o])},
           Claimant' \subseteq Claimant \ {o},
           \A p \in Claimant : Doing(p, "select")' => Doing(p, "select") /\ kind[p] # kind[o]
    PROVE  IdsAreBacked' /\ NoForeignIds'
<1>1. PICK f \in [Claimant -> rows] : Backs(f)
  BY DEF IdsAreBacked
<1> DEFINE Gone(r) == r.kind = kind[o] /\ r.id = id[o]
<1>2. \A r \in rows : r.id \in Nat /\ r.id > 0 /\ (r \in rows' <=> ~ Gone(r))
  BY DEF IndInv, TypeOK, Row, RowsAreNumbered
<1>3. ASSUME NEW p \in Claimant', Gone(f[p])
      PROVE  o \in Claimant /\ f[o] \in rows /\ ~ Gone(f[o]) /\ f[o].kind = kind[p] /\ id[p] <= f[o].id
  <2>1. p \in Claimant /\ p # o /\ f[p] \in rows /\ f[p].kind = kind[p] /\ id[p] <= f[p].id
    BY <1>1 DEF Backs
  <2>2. o \in Claimant
    BY <1>2, <1>3, <2>1
  <2>3. f[o] \in rows /\ f[o].kind = kind[o] /\ f[o].id >= id[o]
    BY <1>1, <2>2 DEF Backs
  <2>4. ~ Gone(f[o])
    <3>1. SUFFICES ASSUME Gone(f[o]) PROVE FALSE
      OBVIOUS
    <3>2. f[o] = f[p]
      BY <1>3, <2>1, <2>3, <3>1 DEF RowsAreNumbered
    <3> QED
      BY <1>1, <2>1, <2>2, <3>2 DEF Backs
  <2>5. id[p] \in Nat
    BY <2>1, RowsAreTyped DEF IndInv, TypeOK, Claimant
  <2>6. id[p] <= f[o].id
    BY <1>2, <1>3, <2>1, <2>3, <2>5
  <2> QED
    BY <1>3, <2>1, <2>2, <2>3, <2>4, <2>6
<1>4. \A p \in Claimant' : p \in Claimant /\ p # o /\ f[p] \in rows
  OBVIOUS
<1>6. PICK g \in [Claimant' -> rows'] :
             \A p \in Claimant' : (Gone(f[p]) => g[p] = f[o]) /\ (~ Gone(f[p]) => g[p] = f[p])
  <2>1. [p \in Claimant' |-> IF Gone(f[p]) THEN f[o] ELSE f[p]] \in [Claimant' -> rows']
    BY <1>2, <1>3, <1>4
  <2> QED
    BY <2>1
<1>7. (\A p, q \in Claimant : g[p] = g[q] => p = q)'
  <2> SUFFICES ASSUME NEW p \in Claimant', NEW q \in Claimant', g[p] = g[q] PROVE p = q
    OBVIOUS
  <2>1. CASE Gone(f[p]) /\ Gone(f[q])
    <3>1. f[p] = f[q]
      BY <1>4, <2>1 DEF RowsAreNumbered
    <3> QED
      BY <1>1, <1>4, <3>1 DEF Backs
  <2>2. CASE Gone(f[p]) /\ ~ Gone(f[q])
    BY <1>1, <1>3, <1>4, <1>6, <2>2 DEF Backs
  <2>3. CASE ~ Gone(f[p]) /\ Gone(f[q])
    BY <1>1, <1>3, <1>4, <1>6, <2>3 DEF Backs
  <2>4. CASE ~ Gone(f[p]) /\ ~ Gone(f[q])
    BY <1>1, <1>4, <1>6, <2>4 DEF Backs
  <2> QED
    BY <2>1, <2>2, <2>3, <2>4
<1>8. (\A p \in Claimant : g[p].kind = kind[p] /\ id[p] <= g[p].id)'
  BY <1>1, <1>3, <1>4, <1>6 DEF Backs
<1>9. (\A p \in Claimant : Doing(p, "select") => \A r \in rows : r.kind = kind[p] => r.id <= g[p].id)'
  <2> SUFFICES ASSUME NEW p \in Claimant', Doing(p, "select")', NEW r \in rows', r.kind = kind[p]
               PROVE  r.id <= g[p].id
    OBVIOUS
  <2>1. Doing(p, "select") /\ kind[p] # kind[o] /\ f[p].kind = kind[p] /\ r \in rows
    BY <1>1, <1>4 DEF Backs
  <2>2. g[p] = f[p]
    BY <1>6, <2>1
  <2> QED
    BY <1>1, <1>4, <2>1, <2>2 DEF Backs
<1>10. IdsAreBacked'
  BY <1>7, <1>8, <1>9 DEF IdsAreBacked, Backs
<1>11. NoForeignIds'
  BY <1>4 DEF NoForeignIds, Like
<1> QED
  BY <1>10, <1>11

----------------------------------------------------------------------------
(* What holds whatever was muddled.                                        *)

\* Which thread may be about which object, when one of them moves on.
LEMMA AnswersOnce ==
    ASSUME IndInv, Basics, NEW t \in Thread, NEW c, call' = [call EXCEPT ![t] = c],
           c # Idle => \A u \in Thread \ {t} :
               Busy(u) /\ call[u].object = c.object =>
                   /\ c.step \in {"insert", "select"} => call[u].step = "delete"
                   /\ c.step = "delete" => call[u].step # "delete",
           c # Idle /\ c.step = "delete" => c.object \notin objects',
           \A u \in Thread \ {t} :
               Busy(u) /\ call[u].step = "delete" => call[u].object \notin objects'
    PROVE  AddsOnce' /\ RemovesOnce'
<1>1. call'[t] = c /\ \A u \in Thread \ {t} : call'[u] = call[u]
  BY DEF IndInv, TypeOK
<1>2. (Busy(t)' <=> c # Idle) /\ \A u \in Thread \ {t} : Busy(u)' <=> Busy(u)
  BY <1>1 DEF Busy
<1>3. AddsOnce'
  BY <1>1, <1>2 DEF Basics, AddsOnce
<1>4. RemovesOnce'
  BY <1>1, <1>2 DEF Basics, RemovesOnce
<1> QED
  BY <1>3, <1>4

\* The engine gives every row an id of its own.
LEMMA AffectNumbers ==
    ASSUME IndInv, RowsAreNumbered, NEW text \in Text, Affect(text) \/ UNCHANGED rows
    PROVE  RowsAreNumbered'
<1>1. CASE text.op = "insert" /\ Insert(text)
  <2> DEFINE k == text.row.kind
             n == NextId(k)
             new == [text.row EXCEPT !.id = n]
  <2>1. text \in [op : {"insert", "select", "delete"}, row : Row]
    BY <1>1 DEF Text, Nothing
  <2>2. text.row \in Row /\ k \in Kind
    BY <2>1 DEF Row
  <2>3. n \in Nat /\ n > 0 /\ \A r \in rows : r.kind = k => r.id < n
    BY <2>2, NextIdIsNew DEF IndInv
  <2>4. rows' = rows \cup {new}
    BY <1>1 DEF Insert
  <2> HIDE DEF n
  <2>5. new.id = n /\ new.kind = k
    BY <2>2 DEF Row
  <2> HIDE DEF new
  <2>6. \A r \in rows : r.id \in Nat
    BY DEF IndInv, TypeOK, Row
  <2> QED
    BY <2>3, <2>4, <2>5, <2>6 DEF RowsAreNumbered
<1>2. CASE text.op = "delete" /\ Delete(text)
  BY <1>2 DEF Delete, RowsAreNumbered
<1>3. CASE UNCHANGED rows
  BY <1>3 DEF RowsAreNumbered
<1> QED
  BY <1>1, <1>2, <1>3 DEF Affect

\* A thread goes on, or ends, and may find the id of its object.
LEMMA StepBasics ==
    ASSUME IndInv, Basics, NEW t \in Thread, Busy(t), NEW c, call' = [call EXCEPT ![t] = c],
           UNCHANGED <<kind, objects, made>>, RowsAreNumbered',
           \A o \in Object :
               id'[o] = id[o] \/ (id'[o] # 0 /\ o = call[t].object /\ call[t].step = "select"),
           c # Idle =>
               /\ c.object = call[t].object
               /\ c.step = call[t].step \/ (call[t].step = "insert" /\ c.step = "select"),
           c # Idle /\ c.pc = "clear" /\ c.step = "select" => id'[c.object] # 0
    PROVE  Basics'
<1>1. call'[t] = c /\ \A u \in Thread \ {t} : call'[u] = call[u]
  BY DEF IndInv, TypeOK
<1>2. (Busy(t)' <=> c # Idle) /\ \A u \in Thread \ {t} : Busy(u)' <=> Busy(u)
  BY <1>1 DEF Busy
<1>3. \A u \in Thread : Busy(u) => call[u].object \in made /\ call[u].object \in Object /\ call[u].step \in Steps
  BY BusyIsTyped
<1>4. AddsOnce' /\ RemovesOnce'
  <2>1. ASSUME c # Idle, NEW u \in Thread \ {t}, Busy(u), call[u].object = c.object
        PROVE  /\ c.step \in {"insert", "select"} => call[u].step = "delete"
               /\ c.step = "delete" => call[u].step # "delete"
    <3>1. call[t].step \in {"insert", "select"} => call[u].step = "delete"
      BY <1>3, <2>1 DEF Basics, AddsOnce, Steps
    <3>2. call[t].step = "delete" => call[u].step # "delete"
      BY <1>3, <2>1 DEF Basics, RemovesOnce
    <3> QED
      BY <1>3, <2>1, <3>1, <3>2 DEF Steps
  <2>2. c # Idle /\ c.step = "delete" => c.object \notin objects'
    BY <1>3 DEF Basics, RemovesOnce
  <2>3. \A u \in Thread \ {t} : Busy(u) /\ call[u].step = "delete" => call[u].object \notin objects'
    BY DEF Basics, RemovesOnce
  <2> QED
    BY <2>1, <2>2, <2>3, AnswersOnce
<1>5. UnmadeAreNew'
  BY <1>3 DEF Basics, UnmadeAreNew
<1>6. InsertsHaveNoId'
  <2> SUFFICES ASSUME NEW u \in Thread, Busy(u)', call'[u].step = "insert" PROVE id'[call'[u].object] = 0
    BY DEF InsertsHaveNoId, Doing
  <2>1. Busy(u) /\ call[u].step = "insert" /\ call[u].object = call'[u].object
    BY <1>1, <1>2
  <2>2. id[call[u].object] = 0
    BY <1>3, <2>1 DEF Basics, InsertsHaveNoId, Doing
  <2>3. ~ (call[u].object = call[t].object /\ call[t].step = "select")
    BY <2>1 DEF Basics, AddsOnce
  <2> QED
    BY <1>3, <2>1, <2>2, <2>3
<1>7. ExtractedHasId'
  <2> SUFFICES ASSUME NEW u \in Thread, call'[u].pc = "clear", call'[u].step = "select"
               PROVE  id'[call'[u].object] # 0
    BY DEF ExtractedHasId, At
  <2>1. CASE u = t
    <3>1. c # Idle
      BY <1>1, <2>1 DEF Idle
    <3> QED
      BY <1>1, <2>1, <3>1
  <2>2. CASE u # t
    <3>1. Busy(u) /\ id[call[u].object] # 0
      BY <1>1, <2>2 DEF Busy, Idle, Basics, ExtractedHasId, At
    <3> QED
      BY <1>1, <1>3, <2>2, <3>1
  <2> QED
    BY <2>1, <2>2
<1>8. OneWithoutId'
  <2>1. \A o \in objects : o \in Object
    BY RowsAreTyped DEF IndInv, TypeOK
  <2> QED
    BY <2>1 DEF Basics, OneWithoutId
<1> QED
  BY <1>4, <1>5, <1>6, <1>7, <1>8 DEF Basics

\* A request is about an object that nobody adds yet, or that nobody removes yet.
LEMMA RequestBasics ==
    ASSUME IndInv, Basics, NEW t \in Thread, NEW o \in DOMAIN kind, Add(t, o) \/ Remove(t, o)
    PROVE  Basics'
<1>1. ~ Busy(t) /\ UNCHANGED <<kind, body, id, rows>>
  BY DEF Add, Remove
<1>2. \A u \in Thread : Busy(u) => call[u].object \in made /\ call[u].object \in Object /\ call[u].step \in Steps
  BY BusyIsTyped
<1>3. objects \subseteq made /\ objects \subseteq Object /\ o \in Object
  <2>1. PICK S \in SUBSET Object : kind \in [S -> Kind]
    BY DatabaseAssumption DEF IndInv, TypeOK
  <2> QED
    BY <2>1 DEF IndInv, TypeOK
<1>4. RowsAreNumbered'
  BY <1>1 DEF Basics, RowsAreNumbered
<1>5. CASE Add(t, o)
  <2> DEFINE c == [pc |-> "write", step |-> "insert", object |-> o, text |-> Nothing]
  <2>1. call' = [call EXCEPT ![t] = c] /\ c # Idle /\ c.object = o /\ c.step = "insert" /\ c.pc = "write"
    <3>1. c.pc # Idle.pc
      BY DEF Idle
    <3> QED
      BY <1>5, <3>1 DEF Add, Begin
  <2>2. o \notin made /\ objects' = objects \cup {o} /\ made' = made \cup {o} /\ id[o] = 0
    BY <1>3, <1>5 DEF Add, Basics, UnmadeAreNew
  <2> HIDE DEF c
  <2>3. call'[t] = c /\ \A u \in Thread \ {t} : call'[u] = call[u]
    BY <2>1 DEF IndInv, TypeOK
  <2>4. AddsOnce' /\ RemovesOnce'
    <3>1. \A u \in Thread \ {t} : Busy(u) => call[u].object # o
      BY <1>2, <2>2
    <3>2. \A u \in Thread \ {t} : Busy(u) /\ call[u].step = "delete" => call[u].object \notin objects'
      BY <2>2, <3>1 DEF Basics, RemovesOnce
    <3> QED
      BY <2>1, <3>1, <3>2, AnswersOnce
  <2>5. UnmadeAreNew'
    BY <1>1, <2>2 DEF Basics, UnmadeAreNew
  <2>6. InsertsHaveNoId'
    <3> SUFFICES ASSUME NEW u \in Thread, Busy(u)', call'[u].step = "insert" PROVE id'[call'[u].object] = 0
      BY DEF InsertsHaveNoId, Doing
    <3>1. u # t => Busy(u) /\ call[u].step = "insert"
      BY <2>3 DEF Busy
    <3> QED
      BY <1>1, <1>2, <2>1, <2>2, <2>3, <3>1 DEF Basics, InsertsHaveNoId, Doing
  <2>7. ExtractedHasId'
    BY <1>1, <2>1, <2>3 DEF Basics, ExtractedHasId, At
  <2>8. OneWithoutId'
    BY <1>1, <1>5, <2>2 DEF Basics, OneWithoutId, Add, Same
  <2> QED
    BY <1>4, <2>4, <2>5, <2>6, <2>7, <2>8 DEF Basics
<1>6. CASE Remove(t, o)
  <2> DEFINE c == [pc |-> "write", step |-> "delete", object |-> o, text |-> Nothing]
  <2>1. call' = [call EXCEPT ![t] = c] /\ c # Idle /\ c.object = o /\ c.step = "delete" /\ c.pc = "write"
    <3>1. c.pc # Idle.pc
      BY DEF Idle
    <3> QED
      BY <1>6, <3>1 DEF Remove, Begin
  <2>2. o \in objects /\ o \notin objects' /\ objects' \subseteq objects /\ made' = made
    BY <1>6 DEF Remove, Alike
  <2> HIDE DEF c
  <2>3. call'[t] = c /\ \A u \in Thread \ {t} : call'[u] = call[u]
    BY <2>1 DEF IndInv, TypeOK
  <2>4. AddsOnce' /\ RemovesOnce'
    <3>1. \A u \in Thread \ {t} : Busy(u) /\ call[u].step = "delete" => call[u].object \notin objects
      BY DEF Basics, RemovesOnce
    <3> QED
      BY <2>1, <2>2, <3>1, AnswersOnce
  <2>5. UnmadeAreNew'
    BY <1>1, <2>2 DEF Basics, UnmadeAreNew
  <2>6. InsertsHaveNoId'
    <3> SUFFICES ASSUME NEW u \in Thread, Busy(u)', call'[u].step = "insert" PROVE id'[call'[u].object] = 0
      BY DEF InsertsHaveNoId, Doing
    <3>1. u # t /\ Busy(u) /\ call[u].step = "insert"
      BY <2>1, <2>3 DEF Busy
    <3> QED
      BY <1>1, <1>2, <2>3, <3>1 DEF Basics, InsertsHaveNoId, Doing
  <2>7. ExtractedHasId'
    BY <1>1, <2>1, <2>3 DEF Basics, ExtractedHasId, At
  <2>8. OneWithoutId'
    BY <1>1, <2>2 DEF Basics, OneWithoutId
  <2> QED
    BY <1>4, <2>4, <2>5, <2>6, <2>7, <2>8 DEF Basics
<1> QED
  BY <1>5, <1>6

\* What a step of a thread makes of its answer.
LEMMA StepsOf ==
    ASSUME IndInv, NEW t \in Thread, Write(t) \/ Bind(t) \/ Prepare(t) \/ Clear(t)
    PROVE  /\ Busy(t)
           /\ UNCHANGED <<kind, objects, made, body, id, rows, given>>
           /\ overlapped => overlapped'
           /\ \/ /\ UNCHANGED muddled
                 /\ \E c : /\ call' = [call EXCEPT ![t] = c] /\ c # Idle
                           /\ c.object = call[t].object /\ c.step = call[t].step
                           /\ ~ (c.pc = "clear" /\ c.step = "select")
              \/ Return(t) /\ UNCHANGED muddled /\ At(t, "clear") /\ call[t].step = "select"
              \/ Return(t) /\ muddled' = muddled \cup {Content(call[t].object)}
<1>1. call[t] \in Working /\ Busy(t)
  <2>1. call[t].pc \in {"write", "bind", "prepare", "clear"}
    BY DEF Write, Bind, Prepare, Clear, At
  <2> QED
    BY <2>1, IdleOrWorking DEF IndInv, TypeOK, Busy
<1>2. \A pc \in {"bind", "prepare", "run", "clear"} :
         [call[t] EXCEPT !.pc = pc].pc = pc
  BY <1>1 DEF Working
<1>3. ASSUME NEW pc \in {"bind", "prepare", "run"}, Goto(t, pc)
      PROVE  \E c : /\ call' = [call EXCEPT ![t] = c] /\ c # Idle
                    /\ c.object = call[t].object /\ c.step = call[t].step
                    /\ ~ (c.pc = "clear" /\ c.step = "select")
  <2> DEFINE c == [call[t] EXCEPT !.pc = pc]
  <2>1. c.pc = pc /\ c.object = call[t].object /\ c.step = call[t].step /\ c.pc # Idle.pc
    BY <1>1 DEF Working, Idle
  <2>2. call' = [call EXCEPT ![t] = c]
    BY <1>3 DEF Goto
  <2> QED
    BY <2>1, <2>2
<1>4. CASE Write(t)
  BY <1>1, <1>3, <1>4 DEF Write
<1>5. CASE Bind(t)
  BY <1>1, <1>3, <1>5 DEF Bind
<1>6. CASE Prepare(t)
  <2>1. CASE Complain(t)
    BY <1>1, <1>6, <2>1 DEF Prepare, Complain
  <2>2. CASE ~ Complain(t)
    <3> DEFINE pc == IF call[t].step = "select" THEN "run" ELSE "clear"
               c == [call[t] EXCEPT !.text = current, !.pc = pc]
    <3>1. call' = [call EXCEPT ![t] = c]
      BY <1>6, <2>2 DEF Prepare
    <3>2. c.pc = pc /\ c.object = call[t].object /\ c.step = call[t].step /\ c.pc # Idle.pc
      BY <1>1 DEF Working, Idle
    <3>3. ~ (c.pc = "clear" /\ c.step = "select")
      BY <3>2
    <3> HIDE DEF c
    <3> QED
      BY <1>1, <1>6, <2>2, <3>1, <3>2, <3>3 DEF Prepare
  <2> QED
    BY <2>1, <2>2
<1>7. CASE Clear(t)
  <2>1. CASE call[t].step = "select"
    BY <1>1, <1>7, <2>1 DEF Clear
  <2>2. CASE call[t].step # "select"
    BY <1>1, <1>3, <1>7, <2>2 DEF Clear
  <2> QED
    BY <2>1, <2>2
<1> QED
  BY <1>4, <1>5, <1>6, <1>7

\* The engine, and then the answer ends, or the SELECT comes next.
LEMMA ExecuteBasics ==
    ASSUME IndInv, Basics, NEW t \in Thread, Execute(t)
    PROVE  Basics'
<1> DEFINE o == call[t].object
           c == [pc |-> "write", step |-> "select", object |-> o, text |-> Nothing]
<1>1. call[t].pc = "run" /\ Busy(t) /\ call[t].text \in Text
  BY InAnswer, RunningText DEF Execute, At
<1>2. UNCHANGED <<kind, objects, made, id>> /\ (Affect(call[t].text) \/ UNCHANGED rows)
  BY DEF Execute
<1>3. RowsAreNumbered'
  BY <1>1, <1>2, AffectNumbers DEF Basics
<1>4. Return(t) \/ (call[t].step = "insert" /\ Begin(t, "select", o))
  BY DEF Execute, Complain
<1>5. CASE Return(t)
  <2>1. call' = [call EXCEPT ![t] = Idle]
    BY <1>5 DEF Return
  <2> QED
    BY <1>1, <1>2, <1>3, <2>1, StepBasics
<1>6. CASE call[t].step = "insert" /\ Begin(t, "select", o)
  <2>1. call' = [call EXCEPT ![t] = c]
    BY <1>6 DEF Begin
  <2>2. c.pc = "write" /\ c.step = "select" /\ c.object = o
    OBVIOUS
  <2> HIDE DEF c
  <2> QED
    BY <1>1, <1>2, <1>3, <1>6, <2>1, <2>2, StepBasics
<1> QED
  BY <1>4, <1>5, <1>6

\* The id that is read back is a row's, and so not 0.
LEMMA ExtractBasics ==
    ASSUME IndInv, Basics, NEW t \in Thread, Extract(t)
    PROVE  Basics'
<1> DEFINE o == call[t].object
           c == [call[t] EXCEPT !.pc = "clear"]
<1>1. call[t].pc = "run" /\ Busy(t) /\ call[t].text \in Text /\ call[t].step = "select" /\ o \in Object
  BY InAnswer, RunningText DEF Extract, At
<1>2. UNCHANGED <<kind, objects, made>> /\ (Affect(call[t].text) \/ UNCHANGED rows)
  BY DEF Extract
<1>3. RowsAreNumbered'
  BY <1>1, <1>2, AffectNumbers DEF Basics
<1>4. UNCHANGED id \/ \E r \in rows : id' = [id EXCEPT ![o] = r.id]
  BY DEF Extract, Found
<1>5. \A p \in Object : id'[p] = id[p] \/ (id'[p] # 0 /\ p = o)
  BY <1>1, <1>4 DEF IndInv, TypeOK, Basics, RowsAreNumbered, Row
<1>6. Return(t) \/ (Goto(t, "clear") /\ \E r \in rows : id' = [id EXCEPT ![o] = r.id])
  BY DEF Extract, Complain, Found
<1>7. CASE Return(t)
  <2>1. call' = [call EXCEPT ![t] = Idle]
    BY <1>7 DEF Return
  <2> QED
    BY <1>1, <1>2, <1>3, <1>5, <2>1, StepBasics
<1>8. CASE Goto(t, "clear") /\ \E r \in rows : id' = [id EXCEPT ![o] = r.id]
  <2>1. call' = [call EXCEPT ![t] = c]
    BY <1>8 DEF Goto
  <2>2. c.pc = "clear" /\ c.step = "select" /\ c.object = o
    BY <1>1, InAnswer DEF Working
  <2>3. id'[o] # 0
    BY <1>1, <1>8 DEF IndInv, TypeOK, Basics, RowsAreNumbered, Row
  <2> HIDE DEF c
  <2> QED
    BY <1>1, <1>2, <1>3, <1>5, <2>1, <2>2, <2>3, StepBasics
<1> QED
  BY <1>6, <1>7, <1>8

\* Every step keeps what holds whatever was muddled.
LEMMA BasicsKeep ==
    ASSUME IndInv, Basics, [Next]_vars
    PROVE  Basics'
<1>1. ASSUME NEW t \in Thread, Write(t) \/ Bind(t) \/ Prepare(t) \/ Clear(t) PROVE Basics'
  <2>1. /\ Busy(t) /\ UNCHANGED <<kind, objects, made, id, rows>>
        /\ \/ Return(t)
           \/ \E c : /\ call' = [call EXCEPT ![t] = c] /\ c # Idle
                     /\ c.object = call[t].object /\ c.step = call[t].step
                     /\ ~ (c.pc = "clear" /\ c.step = "select")
    BY <1>1, StepsOf
  <2>2. RowsAreNumbered'
    BY <2>1 DEF Basics, RowsAreNumbered
  <2>3. CASE Return(t)
    <3>1. call' = [call EXCEPT ![t] = Idle]
      BY <2>3 DEF Return
    <3> QED
      BY <2>1, <2>2, <3>1, StepBasics
  <2> QED
    BY <2>1, <2>2, <2>3, StepBasics
<1>2. ASSUME NEW t \in Thread, NEW o \in DOMAIN kind, Request(t, o) PROVE Basics'
  <2>1. Add(t, o) \/ Remove(t, o)
    BY <1>2 DEF Request, AddCamera, AddUser, AddSettings, AddPermission, AddCameraAction, AddEventArchiveSettings,
           RemoveCamera, RemoveUser, RemoveSettings, RemovePermission, RemoveCameraAction, RemoveEventArchiveSettings
  <2> QED
    BY <2>1, RequestBasics
<1>3. CASE UNCHANGED vars
  <2> USE <1>3 DEF Basics, vars
  <2>1. RowsAreNumbered' /\ UnmadeAreNew' /\ OneWithoutId'
    BY DEF RowsAreNumbered, UnmadeAreNew, OneWithoutId
  <2>2. AddsOnce' /\ RemovesOnce' /\ ExtractedHasId'
    BY DEF AddsOnce, RemovesOnce, ExtractedHasId, Busy, At
  <2>3. InsertsHaveNoId'
    BY DEF InsertsHaveNoId, Doing, Busy
  <2> QED
    BY <2>1, <2>2, <2>3
<1> QED
  BY <1>1, <1>2, <1>3, ExecuteBasics, ExtractBasics DEF Next, Step

----------------------------------------------------------------------------
(* The mirror, step by step; what is said below of a step that leaves the  *)
(* answers as they are is said with Doing alone.                           *)

\* An id is read back, or nothing of the mirror changes.
LEMMA GoingOnMirrors ==
    ASSUME IndInv, Basics, IdsAreBacked, NoForeignIds, Mirror,
           UNCHANGED <<kind, objects, made, body, rows, muddled>>,
           \A o, step : Doing(o, step)' <=> Doing(o, step),
           \A o \in made :
               \/ id'[o] = id[o]
               \/ Doing(o, "select") /\ \E r \in rows : Like(r, o) /\ r.id = id'[o]
    PROVE  IdsAreBacked' /\ NoForeignIds' /\ Mirror'
<1>1. IdsAreBacked' /\ NoForeignIds'
  <2>1. Claimant' \subseteq Claimant
    BY DEF Claimant
  <2> QED
    BY <2>1, RowsStay DEF Basics, Claimant
<1>2. \A o : /\ Present(o)' <=> Present(o)
             /\ Settled(o)' <=> Settled(o)
             /\ Clean(o)' <=> Clean(o)
  BY DEF Present, Settled, Clean, Content
<1>3. Alone' /\ AddingIsListed' /\ InsertHasNoRow' /\ SelectHasOneRow' /\ RowsArePresent'
  BY <1>2 DEF Mirror, Alone, AddingIsListed, InsertHasNoRow, SelectHasOneRow, RowsArePresent, Alike, Like
<1>4. \A o \in made, r \in rows : Like(r, o) /\ r.id = id'[o] => RowOf(o)' = r
  BY DEF Like, RowOf, IndInv, TypeOK, Row
<1>5. StoredHaveRows'
  <2> SUFFICES ASSUME NEW o \in objects, Clean(o), id'[o] # 0 \/ Settled(o) PROVE RowOf(o)' \in rows
    BY <1>2 DEF StoredHaveRows
  <2>1. o \in made
    BY DEF IndInv, TypeOK
  <2>2. CASE id'[o] = id[o]
    BY <2>2 DEF Mirror, StoredHaveRows, RowOf
  <2>3. CASE \E r \in rows : Like(r, o) /\ r.id = id'[o]
    BY <1>4, <2>1, <2>3
  <2> QED
    BY <2>1, <2>2, <2>3
<1>6. SettledRows'
  <2> SUFFICES ASSUME NEW o \in made, NEW r \in rows, Clean(o), Present(o), Settled(o), Like(r, o)
               PROVE  RowOf(o)' = r
    BY <1>2 DEF SettledRows, Like
  <2>1. id'[o] = id[o]
    BY DEF Settled
  <2> QED
    BY <2>1 DEF Mirror, SettledRows, RowOf
<1> QED
  BY <1>1, <1>3, <1>5, <1>6 DEF Mirror

\* An answer ends with a complaint: what it was about is given up.
LEMMA ComplaintMirrors ==
    ASSUME IndInv, Basics, IdsAreBacked, NoForeignIds, Mirror, NEW t \in Thread, Busy(t), Return(t),
           UNCHANGED <<kind, objects, made, body, rows>>,
           muddled' = muddled \cup {Content(call[t].object)},
           \A o \in made :
               \/ id'[o] = id[o]
               \/ /\ o = call[t].object
                  /\ Doing(o, "select") /\ \E r \in rows : Like(r, o) /\ r.id = id'[o]
    PROVE  IdsAreBacked' /\ NoForeignIds' /\ Mirror'
<1> DEFINE o == call[t].object
<1>1. /\ \A p, step : Doing(p, step)' => Doing(p, step)
      /\ \A p, step : p # o => (Doing(p, step) <=> Doing(p, step)')
  BY Ending
<1>2. IdsAreBacked' /\ NoForeignIds'
  <2>1. Claimant' \subseteq Claimant
    BY <1>1 DEF Claimant
  <2> QED
    BY <1>1, <2>1, RowsStay DEF Basics, Claimant
<1>3. \A p : Clean(p)' => Clean(p) /\ p # o
  BY DEF Clean, Content
<1>4. \A p : p # o => /\ Present(p)' <=> Present(p)
                      /\ Settled(p)' <=> Settled(p)
  BY <1>1 DEF Present, Settled
<1>5. \A p \in made : p # o => id'[p] = id[p]
  OBVIOUS
<1>6. \A p, q : Alike(p, q) /\ Clean(p)' => q # o
  BY DEF Clean, Content, Alike
<1> HIDE DEF o
<1>7. Alone'
  BY <1>3, <1>4, <1>6 DEF Mirror, Alone, Alike
<1>8. AddingIsListed' /\ InsertHasNoRow' /\ SelectHasOneRow'
  BY <1>1, <1>3, <1>4 DEF Mirror, AddingIsListed, InsertHasNoRow, SelectHasOneRow, Like
<1>9. StoredHaveRows' /\ SettledRows'
  BY <1>3, <1>4, <1>5 DEF Mirror, StoredHaveRows, SettledRows, RowOf, Like, IndInv, TypeOK
<1>10. RowsArePresent'
  <2> SUFFICES ASSUME NEW r \in rows, <<r.kind, r.body>> \notin muddled' PROVE \E p \in made : Like(r, p) /\ Present(p)'
    BY DEF RowsArePresent, Like
  <2>1. PICK p \in made : Like(r, p) /\ Present(p)
    BY DEF Mirror, RowsArePresent
  <2>2. p # o
    BY <2>1 DEF Like, Content, o
  <2> QED
    BY <1>4, <2>1, <2>2
<1> QED
  BY <1>2, <1>7, <1>8, <1>9, <1>10 DEF Mirror

\* The id is known: the only row that looks like the object is its row.
LEMMA IdFoundMirrors ==
    ASSUME IndInv, Basics, IdsAreBacked, NoForeignIds, Mirror, NEW t \in Thread, Busy(t), Return(t),
           At(t, "clear"), call[t].step = "select",
           UNCHANGED <<kind, objects, made, body, id, rows, muddled>>
    PROVE  IdsAreBacked' /\ NoForeignIds' /\ Mirror'
<1> DEFINE o == call[t].object
<1>1. /\ \A p, step : Doing(p, step)' => Doing(p, step)
      /\ \A p, step : ~ (p = o /\ step = "select") => (Doing(p, step) <=> Doing(p, step)')
  BY Ending
<1>2. o \in made /\ id[o] # 0 /\ Doing(o, "select") /\ \A p : Clean(p)' <=> Clean(p)
  BY BusyIsTyped DEF Basics, ExtractedHasId, Doing, Clean, Content
<1> HIDE DEF o
<1>3. IdsAreBacked' /\ NoForeignIds'
  <2>1. Claimant' \subseteq Claimant
    BY <1>1, <1>2 DEF Claimant
  <2> QED
    BY <1>1, <2>1, RowsStay DEF Basics
<1>4. Clean(o) => o \in objects /\ RowOf(o) \in rows
  BY <1>2 DEF Mirror, AddingIsListed, StoredHaveRows, Settled
<1>5. \A p : (Present(p)' => Present(p)) /\ (Present(p) /\ (p # o \/ Clean(o)) => Present(p)')
  BY <1>1, <1>4 DEF Present
<1>6. \A p : p # o => (Settled(p)' <=> Settled(p))
  BY <1>1 DEF Settled
<1>7. Alone' /\ AddingIsListed' /\ InsertHasNoRow' /\ SelectHasOneRow'
  BY <1>1, <1>2, <1>4, <1>5, <1>6
     DEF Mirror, Alone, AddingIsListed, InsertHasNoRow, SelectHasOneRow, Alike, Like
<1>8. StoredHaveRows'
  BY <1>2, <1>4, <1>6 DEF Mirror, StoredHaveRows, RowOf
<1>9. SettledRows'
  <2> SUFFICES ASSUME NEW p \in made, NEW r \in rows, Clean(p), Present(p), Settled(p)', Like(r, p)
               PROVE  RowOf(p) = r
    BY <1>2, <1>5 DEF SettledRows, RowOf, Like
  <2>1. CASE p = o
    <3>1. Like(RowOf(o), o)
      BY DEF Like, RowOf
    <3> QED
      BY <1>2, <1>4, <2>1, <3>1 DEF Mirror, SelectHasOneRow
  <2>2. CASE p # o
    BY <1>6, <2>2 DEF Mirror, SettledRows
  <2> QED
    BY <2>1, <2>2
<1>10. RowsArePresent'
  <2> SUFFICES ASSUME NEW r \in rows, <<r.kind, r.body>> \notin muddled PROVE \E p \in made : Like(r, p) /\ Present(p)'
    BY DEF RowsArePresent, Like
  <2>1. PICK p \in made : Like(r, p) /\ Present(p)
    BY DEF Mirror, RowsArePresent
  <2>2. Clean(p)
    BY <2>1 DEF Like, Clean, Content
  <2> QED
    BY <1>5, <2>1, <2>2
<1> QED
  BY <1>3, <1>7, <1>8, <1>9, <1>10 DEF Mirror

\* The row of an object comes, and nothing looks like it yet.
LEMMA InsertMirrors ==
    ASSUME IndInv, Basics, RowsAreNumbered', IdsAreBacked, NoForeignIds, Mirror,
           NEW t \in Thread, Answering(t), Busy(t), call[t].step = "insert", Begin(t, "select", call[t].object),
           UNCHANGED <<kind, objects, made, body, id, muddled>>,
           NEW r \in Row, Like(r, call[t].object), r.id = NextId(kind[call[t].object]), rows' = rows \cup {r}
    PROVE  IdsAreBacked' /\ NoForeignIds' /\ Mirror'
<1> DEFINE o == call[t].object
<1>1. /\ \A p : Doing(p, "insert")' <=> Doing(p, "insert") /\ p # o
      /\ \A p : Doing(p, "select")' <=> Doing(p, "select") \/ p = o
      /\ \A p : Doing(p, "delete")' <=> Doing(p, "delete")
  BY Selecting
<1>2. o \in made /\ Doing(o, "insert") /\ id[o] = 0 /\ ~ Doing(o, "select")
  <2>1. o \in made /\ Doing(o, "insert")
    BY BusyIsTyped DEF Doing
  <2> QED
    BY <2>1 DEF Basics, InsertsHaveNoId, AddsOnce, Doing
<1>3. \A p \in made : Doing(p, "select") => kind[p] # kind[o]
  BY SelectsOfOthers
<1>4. r.kind = kind[o]
  BY DEF Like
<1> HIDE DEF o
<1>5. IdsAreBacked' /\ NoForeignIds'
  <2>1. o \notin Claimant /\ Claimant' \subseteq Claimant \cup {o}
    BY <1>1, <1>2 DEF Claimant
  <2>2. \A p \in Claimant : p \in made /\ p # o
    BY <2>1 DEF Claimant
  <2>3. r.id = NextId(kind[o]) /\ rows' = rows \cup {r}
    BY DEF o
  <2> QED
    BY <1>1, <1>2, <1>3, <1>4, <2>1, <2>2, <2>3, RowComes DEF Basics
<1>6. \A p : /\ Present(p)' <=> Present(p)
             /\ Settled(p)' <=> Settled(p)
             /\ Clean(p)' <=> Clean(p)
  BY <1>1, <1>2 DEF Present, Settled, Clean, Content, Steps
<1>7. \A p \in made : Clean(p) /\ Present(p) /\ Like(r, p) => p = o
  <2>1. Present(o)
    BY <1>2 DEF Present, Steps
  <2>2. \A p : Like(r, p) => Alike(p, o)
    BY DEF Like, Alike, o
  <2> QED
    BY <1>2, <2>1, <2>2 DEF Mirror, Alone
<1>8. \A p, step : Doing(p, step) /\ step \in Steps => Present(p)
  BY DEF Present
<1>9. Alone' /\ AddingIsListed'
  BY <1>6 DEF Mirror, Alone, AddingIsListed, Alike
<1>10. InsertHasNoRow'
  BY <1>1, <1>6, <1>7, <1>8 DEF Mirror, InsertHasNoRow, Like, Steps
<1>11. SelectHasOneRow'
  <2> SUFFICES ASSUME NEW p \in made, Clean(p), Doing(p, "select")', NEW q \in rows', NEW s \in rows',
                      Like(q, p), Like(s, p)
               PROVE  q = s
    BY <1>6 DEF SelectHasOneRow, Like
  <2>1. CASE p = o
    BY <1>2, <2>1 DEF Mirror, InsertHasNoRow
  <2>2. CASE p # o
    BY <1>1, <1>7, <1>8, <2>2 DEF Mirror, SelectHasOneRow, Steps
  <2> QED
    BY <2>1, <2>2
<1>12. StoredHaveRows'
  BY <1>6 DEF Mirror, StoredHaveRows, RowOf
<1>13. RowsArePresent'
  <2>1. Present(o) /\ Like(r, o)
    BY <1>2 DEF Present, Steps, o
  <2> QED
    BY <1>2, <1>6, <2>1 DEF Mirror, RowsArePresent, Like
<1>14. SettledRows'
  <2>1. ~ Settled(o)
    BY <1>2 DEF Settled
  <2> QED
    BY <1>6, <1>7, <2>1 DEF Mirror, SettledRows, RowOf, Like
<1> QED
  BY <1>5, <1>9, <1>10, <1>11, <1>12, <1>13, <1>14 DEF Mirror

\* The row of an object that was removed goes, and no other.
LEMMA DeleteMirrors ==
    ASSUME IndInv, Basics, IdsAreBacked, NoForeignIds, Mirror,
           NEW t \in Thread, Answering(t), Busy(t), call[t].step = "delete", Return(t),
           UNCHANGED <<kind, objects, made, body, id, muddled>>,
           rows' = {r \in rows : ~ (r.kind = kind[call[t].object] /\ r.id = id[call[t].object])}
    PROVE  IdsAreBacked' /\ NoForeignIds' /\ Mirror'
<1> DEFINE o == call[t].object
           Gone(r) == r.kind = kind[o] /\ r.id = id[o]
<1>1. /\ \A p, step : Doing(p, step)' => Doing(p, step)
      /\ \A p, step : ~ (p = o /\ step = "delete") => (Doing(p, step) <=> Doing(p, step)')
      /\ \A p, step : p = o /\ step = "delete" => ~ Doing(p, step)'
  BY Ending
<1>2. o \in made /\ o \notin objects /\ Doing(o, "delete")
  BY BusyIsTyped DEF Basics, RemovesOnce, Doing
<1>3. \A p \in made : Doing(p, "select") => kind[p] # kind[o]
  BY SelectsOfOthers
<1>4. \A r \in rows : r \in rows' <=> ~ Gone(r)
  OBVIOUS
<1>5. id[o] # 0 => o \in Claimant
  BY <1>2 DEF Claimant
<1>6. rows' = {r \in rows : ~ Gone(r)} /\ rows' \subseteq rows
  OBVIOUS
<1> HIDE DEF o
<1>7. IdsAreBacked' /\ NoForeignIds'
  <2>1. Claimant' \subseteq Claimant \ {o}
    BY <1>1, <1>2, <1>3 DEF Claimant
  <2>2. \A p \in Claimant : p \in made
    BY DEF Claimant
  <2> QED
    BY <1>1, <1>2, <1>3, <1>5, <1>6, <2>1, <2>2, RowGoes DEF Basics
<1>8. \A p : /\ Settled(p)' <=> Settled(p)
             /\ Clean(p)' <=> Clean(p)
             /\ Present(p)' => Present(p)
             /\ Present(p) => Present(p)' \/ (p = o /\ Settled(o))
  BY <1>1, <1>2 DEF Settled, Clean, Content, Present, Steps
<1>9. Alone' /\ AddingIsListed' /\ InsertHasNoRow' /\ SelectHasOneRow' /\ SettledRows'
  BY <1>1, <1>6, <1>8
     DEF Mirror, Alone, AddingIsListed, InsertHasNoRow, SelectHasOneRow, SettledRows, Alike, Like, RowOf
<1>10. \A r \in rows : Gone(r) => Like(r, o)
  <2>1. \A r \in rows : r.id # 0
    BY DEF Basics, RowsAreNumbered
  <2> QED
    BY <1>5, <2>1 DEF NoForeignIds
<1>11. StoredHaveRows'
  <2> SUFFICES ASSUME NEW p \in objects, Clean(p), id[p] # 0 \/ Settled(p) PROVE RowOf(p) \in rows'
    BY <1>8 DEF StoredHaveRows, RowOf
  <2>1. RowOf(p) \in rows /\ p \in made /\ Present(p) /\ Present(o)
    BY <1>2 DEF Mirror, StoredHaveRows, IndInv, TypeOK, Present, Steps
  <2>2. ~ Gone(RowOf(p))
    <3>1. SUFFICES ASSUME Gone(RowOf(p)) PROVE FALSE
      OBVIOUS
    <3>2. Alike(p, o)
      BY <1>10, <2>1, <3>1 DEF Like, Alike, RowOf
    <3> QED
      BY <1>2, <2>1, <3>2 DEF Mirror, Alone
  <2> QED
    BY <1>4, <2>1, <2>2
<1>12. RowsArePresent'
  <2> SUFFICES ASSUME NEW r \in rows, ~ Gone(r), <<r.kind, r.body>> \notin muddled
               PROVE  \E p \in made : Like(r, p) /\ Present(p)'
    BY <1>6 DEF RowsArePresent, Like
  <2>1. PICK p \in made : Like(r, p) /\ Present(p)
    BY DEF Mirror, RowsArePresent
  <2>2. ~ (p = o /\ Settled(o))
    <3>1. SUFFICES ASSUME p = o, Settled(o) PROVE FALSE
      OBVIOUS
    <3>2. Clean(o)
      BY <2>1, <3>1 DEF Clean, Content, Like
    <3>3. RowOf(o) = r
      BY <1>2, <2>1, <3>1, <3>2 DEF Mirror, SettledRows
    <3> QED
      BY <3>3 DEF RowOf
  <2> QED
    BY <1>8, <2>1, <2>2
<1> QED
  BY <1>7, <1>9, <1>11, <1>12 DEF Mirror

\* What is added looks like nothing that is there, or its contents are muddled.
LEMMA AddMirrors ==
    ASSUME IndInv, Basics, IdsAreBacked, NoForeignIds, Mirror, NEW t \in Thread, NEW o \in DOMAIN kind, Add(t, o)
    PROVE  IdsAreBacked' /\ NoForeignIds' /\ Mirror'
<1>1. /\ UNCHANGED <<kind, body, id, rows>> /\ ~ Busy(t) /\ Begin(t, "insert", o)
      /\ o \notin made /\ o \notin objects /\ objects' = objects \cup {o} /\ made' = made \cup {o}
      /\ muddled' = IF Repeated(o) THEN muddled \cup {Content(o)} ELSE muddled
  BY DEF Add, IndInv, TypeOK
<1>2. \A p, step : Doing(p, step)' <=> Doing(p, step) \/ (p = o /\ step = "insert")
  BY <1>1, Beginning DEF Steps
<1>3. \A step : ~ Doing(o, step)
  BY <1>1, BusyIsTyped DEF Doing
<1>4. id[o] = 0
  <2>1. PICK S \in SUBSET Object : kind \in [S -> Kind]
    BY DatabaseAssumption DEF IndInv, TypeOK
  <2> QED
    BY <1>1, <2>1 DEF Basics, UnmadeAreNew
<1>5. IdsAreBacked' /\ NoForeignIds'
  <2>1. Claimant' \subseteq Claimant
    BY <1>1, <1>2, <1>3, <1>4 DEF Claimant
  <2> QED
    BY <1>1, <1>2, <2>1, RowsStay DEF Basics
<1>6. /\ \A p : Clean(p)' => Clean(p)
      /\ \A r \in rows : <<r.kind, r.body>> \notin muddled' => <<r.kind, r.body>> \notin muddled
  BY <1>1 DEF Clean, Content
<1>7. \A p : p # o => (Present(p)' <=> Present(p)) /\ (Settled(p)' <=> Settled(p))
  BY <1>1, <1>2 DEF Present, Settled
<1>8. ~ Settled(o)'
  BY <1>2 DEF Settled
<1>9. ASSUME Clean(o)'
      PROVE  /\ \A r \in rows : ~ Like(r, o)
             /\ \A p \in made : Present(p) => ~ Alike(o, p)
  <2>1. ~ Repeated(o)
    BY <1>1, <1>9 DEF Clean, Content
  <2>2. \A r \in rows : ~ Like(r, o)
    BY <2>1 DEF Repeated
  <2>3. ASSUME NEW p \in made, Present(p), Alike(o, p) PROVE FALSE
    <3>1. Clean(p)
      BY <1>1, <1>9, <2>3 DEF Clean, Content, Alike
    <3>2. ~ Doing(p, "delete")
      BY <2>1, <2>3 DEF Repeated, UnderWay, Doing
    <3>3. p \in objects
      BY <2>3, <3>1, <3>2 DEF Present, Steps, Mirror, AddingIsListed, Settled
    <3> QED
      BY <2>1, <2>3, <3>3 DEF Repeated
  <2> QED
    BY <2>2, <2>3
<1>10. \A p : Alike(o, p) => (Clean(p)' <=> Clean(o)')
  BY <1>1 DEF Alike, Clean, Content
<1>11. Alone'
  <2> SUFFICES ASSUME NEW p \in made', NEW q \in made', Alike(p, q), Clean(p)', Present(p)', Present(q)', p # q
               PROVE  FALSE
    BY <1>1 DEF Alone, Alike
  <2>1. CASE p # o /\ q # o
    BY <1>1, <1>6, <1>7, <2>1 DEF Mirror, Alone
  <2>2. CASE p = o
    BY <1>1, <1>7, <1>9, <2>2
  <2>3. CASE q = o
    <3>1. Alike(o, p)
      BY <2>3 DEF Alike
    <3> QED
      BY <1>1, <1>7, <1>9, <1>10, <2>3, <3>1
  <2> QED
    BY <2>1, <2>2, <2>3
<1>12. AddingIsListed'
  BY <1>1, <1>6, <1>7 DEF Mirror, AddingIsListed
<1>13. InsertHasNoRow'
  BY <1>1, <1>2, <1>6, <1>9 DEF Mirror, InsertHasNoRow, Like
<1>14. SelectHasOneRow'
  BY <1>1, <1>2, <1>3, <1>6 DEF Mirror, SelectHasOneRow, Like
<1>15. StoredHaveRows' /\ SettledRows'
  BY <1>1, <1>4, <1>6, <1>7, <1>8 DEF Mirror, StoredHaveRows, SettledRows, RowOf, Like
<1>16. RowsArePresent'
  BY <1>1, <1>6, <1>7 DEF Mirror, RowsArePresent, Like
<1> QED
  BY <1>5, <1>11, <1>12, <1>13, <1>14, <1>15, <1>16 DEF Mirror

\* What is removed looks like nothing else, and its row is known, or its contents are muddled.
LEMMA RemoveMirrors ==
    ASSUME IndInv, Basics, IdsAreBacked, NoForeignIds, Mirror, NEW t \in Thread, NEW o \in DOMAIN kind, Remove(t, o)
    PROVE  IdsAreBacked' /\ NoForeignIds' /\ Mirror'
<1>1. /\ UNCHANGED <<kind, made, body, id, rows>> /\ ~ Busy(t) /\ Begin(t, "delete", o)
      /\ o \in objects /\ o \in made /\ objects' = {p \in objects : ~ (Alike(o, p) /\ id[o] = id[p])}
      /\ muddled' = IF UnderWay(o, {"insert", "select"}) THEN muddled \cup {Content(o)} ELSE muddled
  BY DEF Remove, IndInv, TypeOK
<1>2. \A p, step : Doing(p, step)' <=> Doing(p, step) \/ (p = o /\ step = "delete")
  BY <1>1, Beginning DEF Steps
<1>3. IdsAreBacked' /\ NoForeignIds'
  <2>1. Claimant' \subseteq Claimant
    BY <1>1, <1>2 DEF Claimant
  <2> QED
    BY <1>1, <1>2, <2>1, RowsStay DEF Basics
<1>4. /\ \A p : Clean(p)' => Clean(p)
      /\ \A r \in rows : <<r.kind, r.body>> \notin muddled' => <<r.kind, r.body>> \notin muddled
      /\ Clean(o)' => Settled(o)
  <2>1. UnderWay(o, {"insert", "select"}) <=> ~ Settled(o)
    BY DEF UnderWay, Settled, Doing
  <2> QED
    BY <1>1, <2>1 DEF Clean, Content
<1>5. \A p : /\ Settled(p)' <=> Settled(p)
             /\ Present(p)' => Present(p)
  BY <1>1, <1>2 DEF Settled, Present
<1>6. Present(o)' /\ Present(o)
  BY <1>1, <1>2 DEF Present, Steps
<1>7. \A p \in made : Clean(p) /\ Present(p) /\ p # o => ~ Alike(o, p)
  <2>1. \A p : Alike(o, p) => Alike(p, o)
    BY DEF Alike
  <2> QED
    BY <1>1, <1>6, <2>1 DEF Mirror, Alone
<1>8. \A p \in made : Clean(p) /\ Present(p) => Present(p)' /\ (p # o /\ p \in objects => p \in objects')
  BY <1>1, <1>2, <1>6, <1>7 DEF Present
<1>9. Alone' /\ InsertHasNoRow' /\ SelectHasOneRow' /\ StoredHaveRows' /\ SettledRows'
  BY <1>1, <1>2, <1>4, <1>5
     DEF Mirror, Alone, InsertHasNoRow, SelectHasOneRow, StoredHaveRows, SettledRows, Alike, Like, RowOf
<1>10. AddingIsListed'
  <2>1. \A p \in made : ~ Settled(p) => Present(p)
    BY DEF Settled, Present, Steps
  <2> QED
    BY <1>1, <1>4, <1>5, <1>8, <2>1 DEF Mirror, AddingIsListed
<1>11. RowsArePresent'
  <2>1. \A r \in rows : \A p : Like(r, p) /\ <<r.kind, r.body>> \notin muddled => Clean(p)
    BY DEF Like, Clean, Content
  <2> QED
    BY <1>1, <1>4, <1>8, <2>1 DEF Mirror, RowsArePresent, Like
<1> QED
  BY <1>3, <1>9, <1>10, <1>11 DEF Mirror

\* As long as no statements met, a thread executes its own.
LEMMA OwnIsRun ==
    ASSUME IndInv, ~ overlapped, NEW t \in Thread, call[t].pc = "run"
    PROVE  /\ call[t].text.op = call[t].step /\ call[t].text.row = RowOf(call[t].object)
           /\ RowOf(call[t].object) \in Row /\ call[t].object \in made
           /\ call[t].step \in Steps /\ Busy(t) /\ Answering(t)
<1>1. call[t].text = Own(t)
  BY DEF IndInv, StatementsAreOwn, PreparedIsOwn, At
<1>2. Busy(t) /\ Answering(t) /\ call[t].step \in Steps /\ call[t].object \in made
  BY InAnswer, BusyIsTyped
<1> QED
  BY <1>1, <1>2, RowsAreTyped DEF Own, IndInv

\* An INSERT or a DELETE that is the thread's own.
LEMMA ExecuteMirrors ==
    ASSUME IndInv, Basics, ~ overlapped, IdsAreBacked, NoForeignIds, Mirror, NEW t \in Thread, Execute(t), Basics'
    PROVE  IdsAreBacked' /\ NoForeignIds' /\ Mirror'
<1> DEFINE o == call[t].object
<1>1. /\ call[t].pc = "run" /\ call[t].step # "select"
      /\ UNCHANGED <<kind, objects, made, body, id, current, blobs, overlapped>>
  BY DEF Execute, At
<1>2. /\ call[t].text.op = call[t].step /\ call[t].text.row = RowOf(o) /\ RowOf(o) \in Row
      /\ o \in made /\ Busy(t) /\ Answering(t)
  BY <1>1, OwnIsRun
<1>3. CASE call[t].step = "insert"
  <2> DEFINE r == [RowOf(o) EXCEPT !.id = NextId(kind[o])]
  <2>1. Insert(call[t].text) /\ UNCHANGED muddled /\ Begin(t, "select", o)
    BY <1>2, <1>3 DEF Execute, Affect
  <2>2. RowOf(o).kind = kind[o] /\ RowOf(o).body = body[o] /\ kind[o] \in Kind
    BY <1>2 DEF RowOf, Row
  <2>3. rows' = rows \cup {r}
    BY <1>2, <2>1, <2>2 DEF Insert
  <2>4. NextId(kind[o]) \in Nat
    BY <2>2, NextIdIsNew DEF IndInv
  <2>5. r \in Row /\ Like(r, o) /\ r.id = NextId(kind[o])
    <3> HIDE DEF NextId
    <3> QED
      BY <1>2, <2>2, <2>4 DEF Row, Like
  <2> HIDE DEF r
  <2> QED
    BY <1>1, <1>2, <1>3, <2>1, <2>3, <2>5, InsertMirrors DEF Basics
<1>4. CASE call[t].step = "delete"
  <2>1. Delete(call[t].text) /\ UNCHANGED muddled /\ Return(t)
    BY <1>2, <1>4 DEF Execute, Affect
  <2>2. rows' = {r \in rows : ~ (r.kind = kind[o] /\ r.id = id[o])}
    BY <1>2, <2>1 DEF Delete, RowOf
  <2> QED
    BY <1>1, <1>2, <1>4, <2>1, <2>2, DeleteMirrors
<1> QED
  BY <1>1, <1>3, <1>4, OwnIsRun DEF Steps

\* A SELECT that is the thread's own finds rows that look like the object.
LEMMA ExtractMirrors ==
    ASSUME IndInv, Basics, ~ overlapped, IdsAreBacked, NoForeignIds, Mirror, NEW t \in Thread, Extract(t)
    PROVE  IdsAreBacked' /\ NoForeignIds' /\ Mirror'
<1> DEFINE o == call[t].object
           c == [call[t] EXCEPT !.pc = "clear"]
<1>1. /\ call[t].pc = "run" /\ call[t].step = "select"
      /\ UNCHANGED <<kind, objects, made, body, current, blobs, overlapped>>
  BY DEF Extract, At
<1>2. /\ call[t].text.op = "select" /\ call[t].text.row = RowOf(o)
      /\ o \in made /\ Busy(t) /\ call[t] \in Working
  BY <1>1, OwnIsRun, BusyIsTyped
<1>3. UNCHANGED rows
  BY <1>2 DEF Extract, Affect
<1>4. \A r \in Found(call[t].text) : r \in rows /\ Like(r, o)
  BY <1>2 DEF Found, Like, RowOf
<1>5. \/ Complain(t) /\ UNCHANGED id
      \/ /\ Complain(t) \/ (Goto(t, "clear") /\ UNCHANGED muddled)
         /\ \E r \in rows : Like(r, o) /\ id' = [id EXCEPT ![o] = r.id]
  BY <1>2, <1>4 DEF Extract, Affect
<1>6. \A p \in made : p \in Object
  BY RowsAreTyped DEF IndInv
<1>7. Doing(o, "select")
  BY <1>1, <1>2 DEF Doing
<1>8. \A p \in made :
         \/ id'[p] = id[p]
         \/ p = o /\ Doing(p, "select") /\ \E r \in rows : Like(r, p) /\ r.id = id'[p]
  BY <1>5, <1>6, <1>7 DEF IndInv, TypeOK
<1>9. CASE Complain(t)
  <2>1. Return(t) /\ muddled' = muddled \cup {Content(o)}
    BY <1>9 DEF Complain
  <2> QED
    BY <1>1, <1>2, <1>3, <1>8, <2>1, ComplaintMirrors
<1>10. CASE Goto(t, "clear") /\ UNCHANGED muddled
  <2>1. call' = [call EXCEPT ![t] = c]
    BY <1>10 DEF Goto
  <2>2. c.pc = "clear" /\ c.object = call[t].object /\ c.step = call[t].step /\ c # Idle
    <3>1. c.pc = "clear" /\ c.object = call[t].object /\ c.step = call[t].step
      BY <1>2 DEF Working
    <3>2. Idle.pc # "clear"
      BY DEF Idle
    <3> QED
      BY <3>1, <3>2
  <2> HIDE DEF c
  <2>3. \A p, step : Doing(p, step)' <=> Doing(p, step)
    BY <1>2, <2>1, <2>2, GoingOn
  <2> QED
    BY <1>1, <1>3, <1>8, <1>10, <2>3, GoingOnMirrors
<1> QED
  BY <1>5, <1>9, <1>10

\* Every step keeps the mirror, until statements meet.
LEMMA MirrorKeeps == MirrorInv /\ [Next]_vars => MirrorInv'
<1> SUFFICES ASSUME MirrorInv, [Next]_vars PROVE MirrorInv'
  OBVIOUS
<1>1. IndInv /\ Basics /\ IndInv' /\ Basics'
  BY NextKeeps, BasicsKeep DEF MirrorInv
<1>2. SUFFICES ASSUME ~ overlapped' PROVE IdsAreBacked' /\ NoForeignIds' /\ Mirror'
  BY <1>1 DEF MirrorInv
<1>3. overlapped => overlapped'
  <2>1. ASSUME NEW t \in Thread, Step(t) PROVE overlapped => overlapped'
    BY <1>1, <2>1, StepsOf DEF Step, Execute, Extract
  <2>2. ASSUME NEW t \in Thread, NEW o \in DOMAIN kind, Request(t, o) PROVE overlapped => overlapped'
    BY <2>2 DEF Request, Add, Remove, AddCamera, AddUser, AddSettings, AddPermission, AddCameraAction,
           AddEventArchiveSettings, RemoveCamera, RemoveUser, RemoveSettings, RemovePermission,
           RemoveCameraAction, RemoveEventArchiveSettings
  <2> QED
    BY <2>1, <2>2 DEF Next, vars
<1>4. ~ overlapped /\ IdsAreBacked /\ NoForeignIds /\ Mirror
  BY <1>2, <1>3 DEF MirrorInv
<1>5. ASSUME NEW t \in Thread, Write(t) \/ Bind(t) \/ Prepare(t) \/ Clear(t)
      PROVE  IdsAreBacked' /\ NoForeignIds' /\ Mirror'
  <2>1. Busy(t) /\ UNCHANGED <<kind, objects, made, body, id, rows, given>>
    BY <1>1, <1>5, StepsOf
  <2>2. CASE Return(t) /\ UNCHANGED muddled /\ At(t, "clear") /\ call[t].step = "select"
    BY <1>1, <1>4, <2>1, <2>2, IdFoundMirrors
  <2>3. CASE Return(t) /\ muddled' = muddled \cup {Content(call[t].object)}
    BY <1>1, <1>4, <2>1, <2>3, ComplaintMirrors
  <2>4. ASSUME UNCHANGED muddled, NEW c, call' = [call EXCEPT ![t] = c], c # Idle,
               c.object = call[t].object, c.step = call[t].step
        PROVE  IdsAreBacked' /\ NoForeignIds' /\ Mirror'
    <3>1. \A p, step : Doing(p, step)' <=> Doing(p, step)
      BY <1>1, <2>1, <2>4, GoingOn
    <3> QED
      BY <1>1, <1>4, <2>1, <2>4, <3>1, GoingOnMirrors
  <2> QED
    BY <1>1, <1>5, <2>2, <2>3, <2>4, StepsOf
<1>6. ASSUME NEW t \in Thread, NEW o \in DOMAIN kind, Request(t, o)
      PROVE  IdsAreBacked' /\ NoForeignIds' /\ Mirror'
  <2>1. Add(t, o) \/ Remove(t, o)
    BY <1>6 DEF Request, AddCamera, AddUser, AddSettings, AddPermission, AddCameraAction, AddEventArchiveSettings,
           RemoveCamera, RemoveUser, RemoveSettings, RemovePermission, RemoveCameraAction, RemoveEventArchiveSettings
  <2> QED
    BY <1>1, <1>4, <2>1, AddMirrors, RemoveMirrors
<1>7. CASE UNCHANGED vars
  <2>1. UNCHANGED <<kind, objects, made, body, id, rows, muddled, call>>
    BY <1>7 DEF vars
  <2>2. \A p, step : Doing(p, step)' <=> Doing(p, step)
    BY <2>1 DEF Doing, Busy
  <2> QED
    BY <1>1, <1>4, <2>1, <2>2, GoingOnMirrors
<1> QED
  BY <1>1, <1>4, <1>5, <1>6, <1>7, ExecuteMirrors, ExtractMirrors DEF Next, Step

\* Nothing is there to be mirrored.
LEMMA MirrorInit == Init => MirrorInv
<1> SUFFICES ASSUME Init PROVE MirrorInv
  OBVIOUS
<1>1. \A t \in Thread : ~ Busy(t) /\ call[t].pc = "idle"
  BY DEF Init, Busy, Idle
<1>2. \A o, step : ~ Doing(o, step)
  BY <1>1 DEF Doing
<1>3. Basics
  BY <1>1, <1>2 DEF Init, Basics, RowsAreNumbered, UnmadeAreNew, AddsOnce, RemovesOnce, InsertsHaveNoId,
        ExtractedHasId, OneWithoutId, At
<1>4. IdsAreBacked
  <2>1. Claimant = {}
    BY <1>2 DEF Init, Claimant
  <2>2. [o \in Claimant |-> o] \in [Claimant -> rows] /\ Backs([o \in Claimant |-> o])
    BY <2>1 DEF Backs
  <2> QED
    BY <2>2 DEF IdsAreBacked
<1>5. NoForeignIds /\ Mirror
  BY <1>2 DEF Init, NoForeignIds, Mirror, Alone, AddingIsListed, InsertHasNoRow, SelectHasOneRow, StoredHaveRows,
        RowsArePresent, SettledRows
<1> QED
  BY <1>3, <1>4, <1>5, InitHolds DEF MirrorInv

\* The mirror holds in every behaviour.
THEOREM MirrorInvariance == Spec => []MirrorInv
BY MirrorInit, MirrorKeeps, PTL DEF Spec

----------------------------------------------------------------------------
(* What the mirror promises.                                               *)

\* Whether a thread answers a signal about an object.
LEMMA UnderWayIsDoing ==
    ASSUME NEW o, NEW S
    PROVE  UnderWay(o, S) <=> \E step \in S : Doing(o, step)
BY DEF UnderWay, Doing

\* DBSubscriber and the adapter: an object of the model is in its table, under its id, as soon as its
\* adding was answered, unless its contents were muddled or statements of two threads met.
THEOREM ListedObjectsHaveRows == Spec => []ObjectsHaveRows
<1>1. MirrorInv => ObjectsHaveRows
  <2> SUFFICES ASSUME MirrorInv, NEW o \in objects, ~ Lost(kind[o], body[o]), ~ UnderWay(o, {"insert", "select"})
               PROVE  RowOf(o) \in rows
    BY DEF ObjectsHaveRows
  <2>1. Clean(o) /\ ~ overlapped
    BY DEF Lost, Clean, Content
  <2>2. Settled(o)
    BY UnderWayIsDoing DEF Settled
  <2> QED
    BY <2>1, <2>2 DEF MirrorInv, Mirror, StoredHaveRows
<1> QED
  BY <1>1, MirrorInvariance, PTL

\* The DELETE of DBSubscriber: a row is of an object of the model, or of one that a thread is answering for; what
\* was removed does not come back at the next start.
THEOREM RowsAreOfObjects == Spec => []RowsHaveObjects
<1>1. MirrorInv => RowsHaveObjects
  <2> SUFFICES ASSUME MirrorInv, NEW r \in rows, ~ Lost(r.kind, r.body),
                      \A o \in made : Like(r, o) => ~ UnderWay(o, {"insert", "select", "delete"})
               PROVE  \E o \in objects : RowOf(o) = r
    BY DEF RowsHaveObjects
  <2>1. ~ overlapped /\ <<r.kind, r.body>> \notin muddled
    BY DEF Lost
  <2>2. PICK o \in made : Like(r, o) /\ Present(o)
    BY <2>1 DEF MirrorInv, Mirror, RowsArePresent
  <2>3. \A step \in Steps : ~ Doing(o, step)
    BY <2>2, UnderWayIsDoing DEF Steps
  <2>4. o \in objects /\ Settled(o) /\ Clean(o)
    BY <2>1, <2>2, <2>3 DEF Present, Settled, Steps, Clean, Content, Like
  <2>5. RowOf(o) = r
    BY <2>1, <2>2, <2>4 DEF MirrorInv, Mirror, SettledRows
  <2> QED
    BY <2>4, <2>5
<1> QED
  BY <1>1, MirrorInvariance, PTL

\* The ids read back by the SELECTs: two objects of a type have different ones, so that the id a client names
\* says which is meant, though a table may give an id again that was free.
THEOREM IdsAreDistinct == Spec => []IdsTellApart
<1>1. MirrorInv => IdsTellApart
  <2> SUFFICES ASSUME MirrorInv, NEW o \in objects, NEW p \in objects, kind[o] = kind[p], id[o] = id[p],
                      ~ Lost(kind[o], body[o])
               PROVE  o = p
    BY DEF IdsTellApart
  <2>1. ~ overlapped /\ Clean(o) /\ o \in made /\ p \in made /\ Present(o) /\ Present(p)
    BY DEF Lost, Clean, Content, MirrorInv, IndInv, TypeOK, Present
  <2>2. CASE id[o] = 0
    BY <2>2 DEF MirrorInv, Basics, OneWithoutId
  <2>3. CASE id[o] # 0
    <3>1. RowOf(o) \in rows
      BY <2>1, <2>3 DEF MirrorInv, Mirror, StoredHaveRows
    <3>2. Like(RowOf(o), p)
      BY <2>1, <2>3, <3>1 DEF MirrorInv, NoForeignIds, Claimant, RowOf
    <3>3. Alike(o, p)
      BY <3>2 DEF Like, Alike, RowOf
    <3> QED
      BY <2>1, <3>3 DEF MirrorInv, Mirror, Alone
  <2> QED
    BY <2>2, <2>3
<1> QED
  BY <1>1, MirrorInvariance, PTL

----------------------------------------------------------------------------
(* When statements cannot meet.                                            *)

\* Only objects of one type may be asked for.
OneType == \A o, p \in DOMAIN kind : kind[o] = kind[p]

\* An object whose adding was answered is in its table, unless its own contents were muddled.
KeptWithOneType ==
    OneType => \A o \in objects :
        RowOf(o) \in rows \/ UnderWay(o, {"insert", "select"}) \/ Content(o) \in muddled

\* A thread whose statement is in the adapter answers a signal, whose lock keeps others of the type away.
LEMMA OneTypeKeeps ==
    ASSUME IndInv, [Next]_vars, OneType => ~ overlapped
    PROVE  (OneType => ~ overlapped)'
<1>1. CASE overlapped' = overlapped /\ kind' = kind
  BY <1>1 DEF OneType
<1>2. ASSUME NEW t \in Thread, Write(t) PROVE (OneType => ~ overlapped)'
  <2>1. kind' = kind /\ Busy(t) /\ MayAnswer(t)
    BY <1>2 DEF Write, At, Busy, Idle
  <2>2. ASSUME OneType, NEW u \in Thread \ {t}, Open(u) PROVE FALSE
    <3>1. Answering(u)
      BY <2>2 DEF Open, Answering, At, Busy, Idle
    <3>2. call[t].object \in DOMAIN kind /\ call[u].object \in DOMAIN kind
      BY <2>1, <3>1 DEF IndInv, TypeOK, AnswersAreAboutRequests, Answering
    <3> QED
      BY <2>1, <2>2, <3>1, <3>2 DEF MayAnswer, OneType
  <2> QED
    BY <1>2, <2>1, <2>2 DEF Write, OneType
<1>3. ASSUME NEW t \in Thread, NEW o \in DOMAIN kind, Request(t, o)
      PROVE  overlapped' = overlapped /\ kind' = kind
  <2>1. Add(t, o) \/ Remove(t, o)
    BY <1>3 DEF Request, AddCamera, AddUser, AddSettings, AddPermission, AddCameraAction,
                AddEventArchiveSettings, RemoveCamera, RemoveUser, RemoveSettings, RemovePermission,
                RemoveCameraAction, RemoveEventArchiveSettings
  <2> QED
    BY <2>1 DEF Add, Remove
<1>4. ASSUME NEW t \in Thread, Step(t), ~ Write(t)
      PROVE  overlapped' = overlapped /\ kind' = kind
  BY <1>4 DEF Step, Bind, Prepare, Clear, Execute, Extract
<1>5. CASE UNCHANGED vars
  BY <1>1, <1>5 DEF vars
<1> QED
  BY <1>1, <1>2, <1>3, <1>4, <1>5 DEF Next

\* With objects of one type only statements never meet in the adapter, because of the lock of the signal, and
\* the table keeps whatever was added and not muddled: other losses come from the adapter that the types share.
THEOREM OneTypeIsKept == Spec => []KeptWithOneType
<1>1. Init => (OneType => ~ overlapped)
  BY DEF Init
<1>2. IndInv /\ [Next]_vars /\ (OneType => ~ overlapped) => (OneType => ~ overlapped)'
  BY OneTypeKeeps
<1>3. ObjectsHaveRows /\ (OneType => ~ overlapped) => KeptWithOneType
  BY DEF ObjectsHaveRows, KeptWithOneType, Lost, Content
<1> QED
  BY <1>1, <1>2, <1>3, Invariance, ListedObjectsHaveRows, PTL DEF Spec
=============================================================================
