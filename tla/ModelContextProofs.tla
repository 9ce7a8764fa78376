------------------------- MODULE ModelContextProofs -------------------------
(***************************************************************************)
(* Proofs about module ModelContext: whatever the number of threads, users *)
(* and targets, and whatever the interleaving of calls and statements.     *)
(***************************************************************************)
EXTENDS ModelContext, TLAPS

(* The inductive invariant, part by part.                                  *)

\* Nothing is in the context or in the tables that was not made.
OnlyCreated == objects \cup rows \cup numbered \subseteq created

\* A call is about what its operation applies to, and that was made.
CallsAreTyped ==
    \A t \in Thread : call[t].pc # "idle" =>
        \/ /\ call[t].op \in {"add", "remove"}
           /\ call[t].pc # "filling"
           /\ call[t].what \in created
        \/ /\ call[t].op \in {"link", "unlink"}
           /\ call[t].what \in Link
           /\ {call[t].what[1], call[t].what[2]} \subseteq created

\* The link that is being added is not there, its ends are, and no other operation is in the
\* context; if it is stored by the ids of two rows, it is the link of these.
FillingIsFresh ==
    \A t \in Thread : call[t].pc = "filling" =>
        /\ call[t].op = "link"
        /\ call[t].ids \notin links
        /\ BothExist(call[t].what)
        /\ call[t].ids \in Link => call[t].ids = call[t].what
        /\ \A u \in Thread : call[u].pc = "filling" => u = t

\* An object whose insertion is under way waits for its id, nobody else inserts it, and if it was
\* removed meanwhile the removal is under way or came too early.
AddIsFirst ==
    \A o \in Object, t \in Thread : UnderWay(t, "add", o) =>
        /\ o \notin numbered \cup rows
        /\ o \in objects \cup lost \cup early \/ \E u \in Thread : UnderWay(u, "remove", o)
        /\ \A u \in Thread : UnderWay(u, "add", o) => u = t

\* An object whose deletion is under way is gone, and does not come back.
RemoveIsFinal ==
    \A o \in Object, t \in Thread : UnderWay(t, "remove", o) => o \notin objects

\* A link that is about to be stored by other ids than those of its rows is known to be.
LinkIsNamed ==
    \A l \in Link, t \in Thread : UnderWay(t, "link", l) => call[t].ids = l \/ l \in early

\* A link whose deletion is under way grants nothing, and cannot be given anew by its ids.
UnlinkIsFinal ==
    \A l \in Link, t \in Thread :
        (call[t].pc \in {"signal", "statement"} /\ call[t].op = "unlink" /\ call[t].ids = l) =>
            /\ InEffect(l) => l \in early
            /\ {l[1], l[2]} \subseteq created
            /\ l \in links \/ ~ BothExist(l)

IndInv ==
    /\ TypeOK
    /\ OnlyCreated
    /\ CallsAreTyped
    /\ FillingIsFresh
    /\ AddIsFirst
    /\ RemoveIsFinal
    /\ LinkIsNamed
    /\ UnlinkIsFinal
    /\ RepresentationIsSound
    /\ ObjectsMatchRows
    /\ RightsAreStored

----------------------------------------------------------------------------
(* What the steps of a call do to the calls.                               *)

\* A call that goes on keeps its operation and what it is about.
LEMMA GotoCalls ==
    ASSUME call \in [Thread -> Call], NEW t \in Thread, NEW pc \in {"signal", "statement"},
           Goto(t, pc)
    PROVE  /\ call' \in [Thread -> Call]
           /\ call'[t].pc = pc /\ call'[t].op = call[t].op
           /\ call'[t].what = call[t].what /\ call'[t].ids = call[t].ids
           /\ \A u \in Thread \ {t} : call'[u] = call[u]
<1>1. [call[t] EXCEPT !.pc = pc] \in Call
  BY DEF Call
<1> QED
  BY <1>1 DEF Goto, Call

\* A call that looked the ends of a link up by their ids is about the link it found.
LEMMA NamedCalls ==
    ASSUME call \in [Thread -> Call], NEW t \in Thread, NEW pc \in {"filling", "signal"},
           NEW l \in Link, NEW i \in Ids,
           call' = [call EXCEPT ![t].pc = pc, ![t].what = l, ![t].ids = i]
    PROVE  /\ call' \in [Thread -> Call]
           /\ call'[t].pc = pc /\ call'[t].op = call[t].op
           /\ call'[t].what = l /\ call'[t].ids = i
           /\ \A u \in Thread \ {t} : call'[u] = call[u]
<1>1. [call[t] EXCEPT !.pc = pc, !.what = l, !.ids = i] \in Call
  BY DEF Call
<1>2. call' = [call EXCEPT ![t] = [call[t] EXCEPT !.pc = pc, !.what = l, !.ids = i]]
  OBVIOUS
<1> QED
  BY <1>1, <1>2 DEF Call

\* A call that returns is idle.
LEMMA ReturnCalls ==
    ASSUME call \in [Thread -> Call], NEW t \in Thread, Return(t)
    PROVE  /\ call' \in [Thread -> Call]
           /\ call'[t].pc = "idle"
           /\ \A u \in Thread \ {t} : call'[u] = call[u]
<1>1. Idle \in Call
  BY DEF Idle, Call, Operation, Ids
<1> QED
  BY <1>1 DEF Return, Idle

\* A call that begins was idle before, and no operation was in the context.
LEMMA BeginCalls ==
    ASSUME call \in [Thread -> Call], NEW t \in Thread, NEW pc \in {"found", "signal"},
           NEW op \in Operation, NEW what \in Object \cup Link, Begin(t, pc, op, what)
    PROVE  /\ call' \in [Thread -> Call]
           /\ call[t].pc = "idle" /\ Free
           /\ call'[t].pc = pc /\ call'[t].op = op /\ call'[t].what = what
           /\ \A u \in Thread \ {t} : call'[u] = call[u]
<1>1. [pc |-> pc, op |-> op, what |-> what, ids |-> <<Zero, Zero>>] \in Call
  BY DEF Call, Ids
<1> QED
  BY <1>1 DEF Begin

\* After a restart every call is idle.
LEMMA RestartCalls ==
    ASSUME Restart
    PROVE  call' \in [Thread -> Call] /\ \A u \in Thread : call'[u].pc = "idle"
BY DEF Restart, Idle, Call, Operation, Ids

\* The ids of an object tell whether it has its own.
LEMMA IdsAreOwn ==
    ASSUME NEW l \in Link
    PROVE  IdsOf(l) \in Ids /\ (IdsOf(l) \in Link => IdsOf(l) = l)
<1>1. PICK u \in User, g \in Target : l = <<u, g>>
  BY DEF Link
<1>2. IdsOf(l) = <<IdOf(u), IdOf(g)>>
  BY <1>1 DEF IdsOf
<1>3. IdOf(u) \in {u, Zero} /\ IdOf(g) \in {g, Zero}
  BY DEF IdOf
<1>4. IdsOf(l) \in Ids
  BY <1>2, <1>3 DEF Ids
<1>5. ASSUME IdsOf(l) \in Link PROVE IdsOf(l) = l
  <2>1. IdOf(u) \in User /\ IdOf(g) \in Target
    BY <1>2, <1>5 DEF Link
  <2>2. IdOf(u) = u /\ IdOf(g) = g
    BY <2>1, <1>3, ModelAssumption
  <2> QED
    BY <1>1, <1>2, <2>2
<1> QED
  BY <1>4, <1>5

\* The links that go with an object are its own, or name something by the id 0.
LEMMA StoredAreOwn ==
    ASSUME NEW o, NEW l \in Link, l \in StoredLinksOf(o)
    PROVE  l \in LinksOf(o)
<1>1. l[1] \in User /\ l[2] \in Target
  BY DEF Link
<1>2. IdOf(o) \in {l[1], l[2]}
  BY DEF StoredLinksOf
<1>3. IdOf(o) = o
  BY <1>1, <1>2, ModelAssumption DEF IdOf
<1> QED
  BY <1>2, <1>3 DEF LinksOf

----------------------------------------------------------------------------
(* One lemma per operation: it keeps the whole invariant.                  *)

\* An operation whose object or link was refused changes its own call only.
LEMMA ReturnKeeps ==
    ASSUME IndInv, NEW t \in Thread, Return(t), call[t].pc \in {"found", "filling"},
           UNCHANGED <<objects, numbered, links, keyed, repr, rows, linkRows, created, early,
                       lost, mixed, boots>>
    PROVE  IndInv'
<1>1. call' \in [Thread -> Call] /\ call'[t].pc = "idle" /\ \A u \in Thread \ {t} : call'[u] = call[u]
  BY ReturnCalls DEF IndInv, TypeOK
<1>2. TypeOK' /\ OnlyCreated'
  BY <1>1 DEF IndInv, TypeOK, OnlyCreated
<1>3. CallsAreTyped' /\ FillingIsFresh'
  BY <1>1 DEF IndInv, CallsAreTyped, FillingIsFresh, BothExist
<1>4. AddIsFirst' /\ RemoveIsFinal'
  BY <1>1 DEF IndInv, AddIsFirst, RemoveIsFinal, UnderWay
<1>5. LinkIsNamed' /\ UnlinkIsFinal'
  BY <1>1 DEF IndInv, LinkIsNamed, UnlinkIsFinal, UnderWay, InEffect, BothExist
<1>6. RepresentationIsSound'
  BY DEF IndInv, RepresentationIsSound, InEffect, BothExist
<1>7. ObjectsMatchRows' /\ RightsAreStored'
  BY <1>1 DEF IndInv, ObjectsMatchRows, RightsAreStored, UnderWay, InEffect
<1> QED
  BY <1>2, <1>3, <1>4, <1>5, <1>6, <1>7 DEF IndInv

\* Looking objects up changes nothing but the call, which was idle and has found them.
LEMMA LookUpKeeps ==
    ASSUME IndInv, NEW t \in Thread, NEW op \in Operation, NEW what \in Object \cup Link,
           LookUp(t, op, what),
           \/ op = "remove" /\ what \in objects
           \/ op \in {"link", "unlink"} /\ what \in Link /\ BothExist(what)
    PROVE  IndInv'
<1> USE DEF LookUp
<1>1. /\ call' \in [Thread -> Call] /\ call[t].pc = "idle"
      /\ call'[t].pc = "found" /\ call'[t].op = op /\ call'[t].what = what
      /\ \A u \in Thread \ {t} : call'[u] = call[u]
  BY BeginCalls DEF IndInv, TypeOK
<1>2. TypeOK' /\ OnlyCreated'
  BY <1>1 DEF IndInv, TypeOK, OnlyCreated
<1>3. CallsAreTyped'
  BY <1>1 DEF IndInv, CallsAreTyped, OnlyCreated, BothExist
<1>4. FillingIsFresh'
  BY <1>1 DEF IndInv, FillingIsFresh, BothExist
<1>5. AddIsFirst' /\ RemoveIsFinal'
  BY <1>1 DEF IndInv, AddIsFirst, RemoveIsFinal, UnderWay
<1>6. LinkIsNamed' /\ UnlinkIsFinal'
  BY <1>1 DEF IndInv, LinkIsNamed, UnlinkIsFinal, UnderWay, InEffect, BothExist
<1>7. RepresentationIsSound'
  BY DEF IndInv, RepresentationIsSound, InEffect, BothExist
<1>8. ObjectsMatchRows' /\ RightsAreStored'
  BY <1>1 DEF IndInv, ObjectsMatchRows, RightsAreStored, UnderWay, InEffect
<1> QED
  BY <1>2, <1>3, <1>4, <1>5, <1>6, <1>7, <1>8 DEF IndInv

\* A new object has no id, and nobody else knows of it.
LEMMA AddKeeps ==
    ASSUME IndInv, NEW t \in Thread, NEW o \in Object, Add(t, o)
    PROVE  IndInv'
<1>1. /\ call' \in [Thread -> Call] /\ call[t].pc = "idle" /\ Free
      /\ call'[t].pc = "signal" /\ call'[t].op = "add" /\ call'[t].what = o
      /\ \A u \in Thread \ {t} : call'[u] = call[u]
  BY BeginCalls DEF IndInv, TypeOK, Add, Operation
<1>2. o \notin created /\ created' = created \cup {o} /\ objects' = objects \cup {o}
  BY DEF Add
<1>3. UNCHANGED <<numbered, links, keyed, repr, rows, linkRows, early, lost, mixed, boots>>
  BY DEF Add
<1>4. TypeOK' /\ OnlyCreated'
  BY <1>1, <1>2, <1>3 DEF IndInv, TypeOK, OnlyCreated
<1>5. CallsAreTyped'
  BY <1>1, <1>2 DEF IndInv, CallsAreTyped
<1>6. FillingIsFresh'
  BY <1>1 DEF FillingIsFresh, Free
<1>7. AddIsFirst'
  <2>1. \A u \in Thread : call[u].pc # "idle" => call[u].what # o \/ call[u].op \in {"link", "unlink"}
    BY <1>2 DEF IndInv, CallsAreTyped
  <2> QED
    BY <1>1, <1>2, <1>3, <2>1 DEF IndInv, OnlyCreated, AddIsFirst, UnderWay
<1>8. RemoveIsFinal'
  <2>1. \A u \in Thread : ~ UnderWay(u, "remove", o)
    BY <1>2 DEF IndInv, CallsAreTyped, UnderWay
  <2> QED
    BY <1>1, <1>2, <2>1 DEF IndInv, RemoveIsFinal, UnderWay
<1>9. LinkIsNamed' /\ UnlinkIsFinal'
  BY <1>1, <1>2, <1>3 DEF IndInv, LinkIsNamed, UnlinkIsFinal, UnderWay, InEffect, BothExist
<1>10. RepresentationIsSound'
  BY <1>2, <1>3 DEF IndInv, RepresentationIsSound, InEffect, BothExist
<1>11. ObjectsMatchRows'
  BY <1>1, <1>2, <1>3 DEF IndInv, ObjectsMatchRows, OnlyCreated, UnderWay
<1>12. RightsAreStored'
  BY <1>1, <1>3 DEF IndInv, RightsAreStored, UnderWay, InEffect
<1> QED
  BY <1>4, <1>5, <1>6, <1>7, <1>8, <1>9, <1>10, <1>11, <1>12 DEF IndInv

\* A removal takes an object, the links that have its id, and the rights that name it.
LEMMA RemoveKeeps ==
    ASSUME IndInv, NEW t \in Thread, Remove(t)
    PROVE  IndInv'
<1> DEFINE o == call[t].what
<1>0. CASE o \notin objects
  BY <1>0, ReturnKeeps DEF Remove, At
<1>1. CASE o \in objects
  <2>1. /\ objects' = objects \ {o}
        /\ links' = links \ StoredLinksOf(o)
        /\ repr' = [l \in Link |-> IF l \in LinksOf(o) THEN 0 ELSE repr[l]]
        /\ keyed' = keyed \ {o}
        /\ Goto(t, "signal")
        /\ call[t].pc = "found" /\ call[t].op = "remove" /\ Free
        /\ UNCHANGED <<numbered, rows, linkRows, created, early, lost, mixed, boots>>
    BY <1>1 DEF Remove, At
  <2>2. /\ call' \in [Thread -> Call]
        /\ call'[t].pc = "signal" /\ call'[t].op = "remove" /\ call'[t].what = o
        /\ \A u \in Thread \ {t} : call'[u] = call[u]
    BY <2>1, GotoCalls DEF IndInv, TypeOK
  <2>3. o \in Object /\ o \in created
    BY <1>1 DEF IndInv, TypeOK, OnlyCreated
  <2>4. TypeOK' /\ OnlyCreated'
    BY <2>1, <2>2 DEF IndInv, TypeOK, OnlyCreated
  <2>5. \A l \in Link : InEffect(l)' => InEffect(l) /\ o \notin {l[1], l[2]} /\ repr'[l] = repr[l]
    BY <2>1 DEF InEffect, LinksOf
  <2>6. CallsAreTyped' /\ FillingIsFresh'
    BY <2>1, <2>2, <2>3 DEF IndInv, CallsAreTyped, FillingIsFresh, Free
  <2>7. AddIsFirst'
    BY <2>1, <2>2, <2>3 DEF IndInv, AddIsFirst, UnderWay
  <2>8. RemoveIsFinal'
    BY <2>1, <2>2, <2>3 DEF IndInv, RemoveIsFinal, UnderWay
  <2>9. LinkIsNamed'
    BY <2>1, <2>2 DEF IndInv, LinkIsNamed, UnderWay
  <2>10. UnlinkIsFinal'
    <3> SUFFICES ASSUME NEW l \in Link, NEW u \in Thread, call'[u].pc \in {"signal", "statement"},
                        call'[u].op = "unlink", call'[u].ids = l
                 PROVE  /\ InEffect(l)' => l \in early' /\ {l[1], l[2]} \subseteq created'
                        /\ {l[1], l[2]} \subseteq created'
                        /\ l \in links' \/ ~ BothExist(l)'
      BY DEF UnlinkIsFinal
    <3>1. /\ InEffect(l) => l \in early
          /\ {l[1], l[2]} \subseteq created
          /\ l \in links \/ ~ BothExist(l)
      BY <2>2 DEF IndInv, UnlinkIsFinal
    <3>2. l \in StoredLinksOf(o) => ~ BothExist(l)'
      BY <2>1, StoredAreOwn DEF LinksOf, BothExist
    <3>3. ~ BothExist(l) => ~ BothExist(l)'
      BY <2>1 DEF BothExist
    <3> QED
      BY <2>1, <2>5, <3>1, <3>2, <3>3
  <2>11. RepresentationIsSound'
    <3> SUFFICES ASSUME NEW l \in Link
                 PROVE  /\ InEffect(l)' => BothExist(l)' /\ l[1] \in keyed'
                        /\ l \notin early => repr'[l] <= 1 /\ (InEffect(l)' => l \in links')
      BY <2>1 DEF RepresentationIsSound
    <3>1. InEffect(l)' => BothExist(l)' /\ l[1] \in keyed'
      BY <2>1, <2>5 DEF IndInv, RepresentationIsSound, BothExist
    <3>2. l \notin early => repr'[l] <= 1
      BY <2>1 DEF IndInv, RepresentationIsSound
    <3>3. l \notin early /\ InEffect(l)' => l \in links'
      BY <2>1, <2>5, StoredAreOwn DEF IndInv, RepresentationIsSound, LinksOf
    <3> QED
      BY <3>1, <3>2, <3>3
  <2>12. ObjectsMatchRows'
    BY <2>1, <2>2 DEF IndInv, ObjectsMatchRows, UnderWay
  <2>13. RightsAreStored'
    BY <2>1, <2>2, <2>5 DEF IndInv, RightsAreStored, UnderWay
  <2> QED
    BY <2>4, <2>6, <2>7, <2>8, <2>9, <2>10, <2>11, <2>12, <2>13 DEF IndInv
<1> QED
  BY <1>0, <1>1

\* What AddLink has found to be new is the link that its ids name.
LEMMA AddLinkKeeps ==
    ASSUME IndInv, NEW t \in Thread, AddLink(t)
    PROVE  IndInv'
<1> DEFINE i == IdsOf(call[t].what)
<1>1. call[t].pc = "found" /\ call[t].op = "link" /\ Free
  BY DEF AddLink, At
<1>2. UNCHANGED <<objects, numbered, links, keyed, repr, rows, linkRows, created, early, lost,
                  mixed, boots>>
  BY DEF AddLink
<1>3. CASE Return(t)
  BY <1>1, <1>2, <1>3, ReturnKeeps
<1>4. ASSUME i \notin links, NEW l \in Named(i),
             call' = [call EXCEPT ![t].pc = "filling", ![t].what = l, ![t].ids = i]
      PROVE  IndInv'
  <2>1. l \in Link /\ BothExist(l) /\ i = IdsOf(l)
    BY <1>4 DEF Named
  <2>2. i \in Ids /\ (i \in Link => i = l)
    BY <2>1, IdsAreOwn
  <2>3. /\ call' \in [Thread -> Call]
        /\ call'[t].pc = "filling" /\ call'[t].op = "link"
        /\ call'[t].what = l /\ call'[t].ids = i
        /\ \A u \in Thread \ {t} : call'[u] = call[u]
    <3> HIDE DEF i
    <3> QED
      BY <1>1, <1>4, <2>1, <2>2, NamedCalls DEF IndInv, TypeOK
  <2> HIDE DEF i
  <2>4. TypeOK' /\ OnlyCreated'
    BY <1>2, <2>3 DEF IndInv, TypeOK, OnlyCreated
  <2>5. CallsAreTyped'
    BY <1>2, <2>1, <2>3 DEF IndInv, CallsAreTyped, OnlyCreated, BothExist
  <2>6. FillingIsFresh'
    BY <1>1, <1>2, <1>4, <2>1, <2>2, <2>3 DEF FillingIsFresh, Free, BothExist
  <2>7. AddIsFirst' /\ RemoveIsFinal'
    BY <1>1, <1>2, <2>3 DEF IndInv, AddIsFirst, RemoveIsFinal, UnderWay
  <2>8. LinkIsNamed' /\ UnlinkIsFinal'
    BY <1>2, <2>3 DEF IndInv, LinkIsNamed, UnlinkIsFinal, UnderWay, InEffect, BothExist
  <2>9. RepresentationIsSound'
    BY <1>2 DEF IndInv, RepresentationIsSound, InEffect, BothExist
  <2>10. ObjectsMatchRows' /\ RightsAreStored'
    BY <1>1, <1>2, <2>3 DEF IndInv, ObjectsMatchRows, RightsAreStored, UnderWay, InEffect
  <2> QED
    BY <2>4, <2>5, <2>6, <2>7, <2>8, <2>9, <2>10 DEF IndInv
<1> QED
  BY <1>3, <1>4 DEF AddLink

\* A new link was not in effect, unless its ids say nothing of it: its target enters the entry of
\* its user once.
LEMMA FillKeeps ==
    ASSUME IndInv, NEW t \in Thread, Fill(t)
    PROVE  IndInv'
<1> DEFINE k == call[t].what
           i == call[t].ids
<1>0. CASE Return(t) /\ UNCHANGED <<links, keyed, repr, early>>
  BY <1>0, ReturnKeeps DEF Fill, At
<1>1. CASE /\ repr' = [repr EXCEPT ![k] = @ + 1]
           /\ keyed' = keyed \cup {k[1]}
           /\ links' = links \cup {i}
           /\ early' = IF i = k THEN early ELSE early \cup {k}
           /\ Goto(t, "signal")
  <2>1. /\ call[t].pc = "filling" /\ call[t].op = "link"
        /\ UNCHANGED <<objects, numbered, rows, linkRows, created, lost, mixed, boots>>
    BY DEF Fill, At
  <2>2. /\ call' \in [Thread -> Call]
        /\ call'[t].pc = "signal" /\ call'[t].op = "link"
        /\ call'[t].what = k /\ call'[t].ids = i
        /\ \A u \in Thread \ {t} : call'[u] = call[u]
    BY <1>1, <2>1, GotoCalls DEF IndInv, TypeOK
  <2>3. /\ k \in Link /\ k[1] \in User
        /\ i \in Ids /\ i \notin links /\ BothExist(k)
        /\ i \in Link => i = k
        /\ \A u \in Thread \ {t} : call[u].pc # "filling"
    <3>1. k \in Link
      BY <2>1 DEF IndInv, CallsAreTyped
    <3>2. i \in Ids
      BY DEF IndInv, TypeOK, Call
    <3> QED
      BY <2>1, <3>1, <3>2 DEF IndInv, FillingIsFresh, Link
  <2>4. repr' \in [Link -> Nat] /\ repr'[k] = repr[k] + 1 /\ \A l \in Link \ {k} : repr'[l] = repr[l]
    BY <1>1, <2>3 DEF IndInv, TypeOK
  <2>5. early \subseteq early' /\ early' \subseteq early \cup {k} /\ (k \notin early' => i = k)
    BY <1>1
  <2> HIDE DEF k, i
  <2>6. TypeOK' /\ OnlyCreated'
    BY <1>1, <2>1, <2>2, <2>3, <2>4, <2>5 DEF IndInv, TypeOK, OnlyCreated
  <2>7. CallsAreTyped'
    BY <2>1, <2>2, <2>3 DEF IndInv, CallsAreTyped, k
  <2>8. FillingIsFresh'
    BY <2>2, <2>3 DEF FillingIsFresh
  <2>9. AddIsFirst' /\ RemoveIsFinal'
    BY <2>1, <2>2, <2>5 DEF IndInv, AddIsFirst, RemoveIsFinal, UnderWay
  <2>10. LinkIsNamed'
    BY <2>2, <2>5 DEF IndInv, LinkIsNamed, UnderWay
  <2>11. UnlinkIsFinal'
    <3> SUFFICES ASSUME NEW l \in Link, NEW u \in Thread, call'[u].pc \in {"signal", "statement"},
                        call'[u].op = "unlink", call'[u].ids = l
                 PROVE  /\ InEffect(l)' => l \in early'
                        /\ {l[1], l[2]} \subseteq created'
                        /\ l \in links' \/ ~ BothExist(l)'
      BY DEF UnlinkIsFinal
    <3>1. /\ InEffect(l) => l \in early
          /\ {l[1], l[2]} \subseteq created
          /\ l \in links \/ ~ BothExist(l)
      BY <2>2 DEF IndInv, UnlinkIsFinal
    <3>2. l \in links' \/ ~ BothExist(l)'
      BY <1>1, <2>1, <3>1 DEF BothExist
    <3>3. CASE l = k
      BY <2>1, <2>3, <2>5, <3>1, <3>2, <3>3
    <3>4. CASE l # k
      BY <2>1, <2>4, <2>5, <3>1, <3>2, <3>4 DEF InEffect
    <3> QED
      BY <3>3, <3>4
  <2>12. RepresentationIsSound'
    <3> SUFFICES ASSUME NEW l \in Link
                 PROVE  /\ InEffect(l)' => BothExist(l)' /\ l[1] \in keyed'
                        /\ l \notin early' => repr'[l] <= 1 /\ (InEffect(l)' => l \in links')
      BY DEF RepresentationIsSound
    <3>1. CASE l # k
      BY <1>1, <2>1, <2>4, <2>5, <3>1 DEF IndInv, RepresentationIsSound, InEffect, BothExist
    <3>2. CASE l = k
      <4>1. BothExist(l)' /\ l[1] \in keyed'
        BY <1>1, <2>1, <2>3, <3>2 DEF BothExist
      <4>2. ASSUME l \notin early' PROVE repr'[l] = 1 /\ l \in links'
        <5>1. l \notin links /\ l \notin early /\ l \in links'
          BY <1>1, <2>3, <2>5, <3>2, <4>2
        <5>2. repr[l] = 0
          BY <5>1 DEF IndInv, TypeOK, RepresentationIsSound, InEffect
        <5> QED
          BY <2>4, <3>2, <5>1, <5>2
      <4> QED
        BY <4>1, <4>2
    <3> QED
      BY <3>1, <3>2
  <2>13. ObjectsMatchRows'
    BY <2>1, <2>2, <2>5 DEF IndInv, ObjectsMatchRows, UnderWay
  <2>14. RightsAreStored'
    <3> SUFFICES ASSUME NEW l \in Link, InEffect(l)'
                 PROVE  \/ l \in linkRows' \/ l \in lost' \cup early'
                        \/ \E u \in Thread : UnderWay(u, "link", l)'
      BY DEF RightsAreStored
    <3>1. CASE l = k
      BY <2>2, <3>1 DEF UnderWay
    <3>2. CASE l # k
      BY <2>1, <2>2, <2>4, <2>5, <3>2 DEF IndInv, RightsAreStored, UnderWay, InEffect
    <3> QED
      BY <3>1, <3>2
  <2> QED
    BY <2>6, <2>7, <2>8, <2>9, <2>10, <2>11, <2>12, <2>13, <2>14 DEF IndInv
<1> QED
  BY <1>0, <1>1 DEF Fill

\* A link that is taken back grants nothing any more; it stays in the container.
LEMMA RemoveLinkKeeps ==
    ASSUME IndInv, NEW t \in Thread, RemoveLink(t)
    PROVE  IndInv'
<1> DEFINE i == IdsOf(call[t].what)
<1>1. call[t].pc = "found" /\ call[t].op = "unlink" /\ Free
  BY DEF RemoveLink, At
<1>2. UNCHANGED <<objects, numbered, links, keyed, rows, linkRows, created, early, lost, mixed, boots>>
  BY DEF RemoveLink
<1>3. CASE Return(t) /\ UNCHANGED repr
  BY <1>1, <1>2, <1>3, ReturnKeeps
<1>4. ASSUME NEW k \in Named(i), i \in links, k[1] \in keyed,
             repr' = [repr EXCEPT ![k] = 0],
             call' = [call EXCEPT ![t].pc = "signal", ![t].what = k, ![t].ids = i]
      PROVE  IndInv'
  <2>1. k \in Link /\ BothExist(k) /\ i = IdsOf(k)
    BY <1>4 DEF Named
  <2>2. i \in Ids /\ (i \in Link => i = k)
    BY <2>1, IdsAreOwn
  <2> HIDE DEF i
  <2>3. /\ call' \in [Thread -> Call]
        /\ call'[t].pc = "signal" /\ call'[t].op = "unlink"
        /\ call'[t].what = k /\ call'[t].ids = i
        /\ \A u \in Thread \ {t} : call'[u] = call[u]
    BY <1>1, <1>4, <2>1, <2>2, NamedCalls DEF IndInv, TypeOK
  <2>4. repr' \in [Link -> Nat] /\ repr'[k] = 0 /\ \A l \in Link \ {k} : repr'[l] = repr[l]
    BY <1>4, <2>1 DEF IndInv, TypeOK
  <2>5. \A l \in Link : InEffect(l)' => InEffect(l) /\ l # k /\ repr'[l] = repr[l]
    BY <2>4 DEF InEffect
  <2>6. TypeOK' /\ OnlyCreated'
    BY <1>2, <2>3, <2>4 DEF IndInv, TypeOK, OnlyCreated
  <2>7. CallsAreTyped'
    BY <1>2, <2>1, <2>3 DEF IndInv, CallsAreTyped, OnlyCreated, BothExist
  <2>8. FillingIsFresh'
    BY <1>1, <2>3 DEF FillingIsFresh, Free
  <2>9. AddIsFirst' /\ RemoveIsFinal'
    BY <1>1, <1>2, <2>3 DEF IndInv, AddIsFirst, RemoveIsFinal, UnderWay
  <2>10. LinkIsNamed'
    BY <1>2, <2>3 DEF IndInv, LinkIsNamed, UnderWay
  <2>11. UnlinkIsFinal'
    <3> SUFFICES ASSUME NEW l \in Link, NEW u \in Thread, call'[u].pc \in {"signal", "statement"},
                        call'[u].op = "unlink", call'[u].ids = l
                 PROVE  /\ InEffect(l)' => l \in early'
                        /\ {l[1], l[2]} \subseteq created'
                        /\ l \in links' \/ ~ BothExist(l)'
      BY DEF UnlinkIsFinal
    <3>1. CASE u = t
      <4>1. l = k /\ l \in links
        BY <1>4, <2>2, <2>3, <3>1
      <4> QED
        BY <1>2, <2>1, <2>5, <4>1 DEF IndInv, OnlyCreated, BothExist
    <3>2. CASE u # t
      BY <1>2, <2>3, <2>5, <3>2 DEF IndInv, UnlinkIsFinal, BothExist
    <3> QED
      BY <3>1, <3>2
  <2>12. RepresentationIsSound'
    BY <1>2, <2>4, <2>5 DEF IndInv, RepresentationIsSound, BothExist
  <2>13. ObjectsMatchRows'
    BY <1>1, <1>2, <2>3 DEF IndInv, ObjectsMatchRows, UnderWay
  <2>14. RightsAreStored'
    BY <1>1, <1>2, <2>3, <2>5 DEF IndInv, RightsAreStored, UnderWay
  <2> QED
    BY <2>6, <2>7, <2>8, <2>9, <2>10, <2>11, <2>12, <2>13, <2>14 DEF IndInv
<1> QED
  BY <1>3, <1>4 DEF RemoveLink

\* A signal that comes to the adapter is the one that was under way.
LEMMA EnterKeeps ==
    ASSUME IndInv, NEW t \in Thread, Enter(t)
    PROVE  IndInv'
<1>1. /\ call[t].pc = "signal"
      /\ call' \in [Thread -> Call]
      /\ call'[t].pc = "statement" /\ call'[t].op = call[t].op
      /\ call'[t].what = call[t].what /\ call'[t].ids = call[t].ids
      /\ \A u \in Thread \ {t} : call'[u] = call[u]
  BY GotoCalls DEF Enter, IndInv, TypeOK
<1>2. /\ mixed' \in BOOLEAN
      /\ UNCHANGED <<objects, numbered, links, keyed, repr, rows, linkRows, created, early, lost, boots>>
  BY DEF Enter
<1>3. \A u \in Thread, op \in Operation, what \in Object \cup Link :
          UnderWay(u, op, what)' <=> UnderWay(u, op, what)
  BY <1>1 DEF UnderWay
<1>4. TypeOK' /\ OnlyCreated'
  BY <1>1, <1>2 DEF IndInv, TypeOK, OnlyCreated
<1>5. CallsAreTyped' /\ FillingIsFresh'
  BY <1>1, <1>2 DEF IndInv, CallsAreTyped, FillingIsFresh, BothExist
<1>6. AddIsFirst' /\ RemoveIsFinal'
  BY <1>2, <1>3 DEF IndInv, AddIsFirst, RemoveIsFinal, Operation
<1>7. LinkIsNamed'
  BY <1>1, <1>2 DEF IndInv, LinkIsNamed, UnderWay
<1>8. UnlinkIsFinal'
  BY <1>1, <1>2 DEF IndInv, UnlinkIsFinal, InEffect, BothExist
<1>9. RepresentationIsSound'
  BY <1>2 DEF IndInv, RepresentationIsSound, InEffect, BothExist
<1>10. ObjectsMatchRows' /\ RightsAreStored'
  BY <1>2, <1>3 DEF IndInv, ObjectsMatchRows, RightsAreStored, InEffect, Operation
<1> QED
  BY <1>4, <1>5, <1>6, <1>7, <1>8, <1>9, <1>10 DEF IndInv

\* What a statement changes, whatever it is: its call is over.
LEMMA ExecuteCalls ==
    ASSUME IndInv, NEW t \in Thread, Execute(t)
    PROVE  /\ InAdapter(t)
           /\ call' \in [Thread -> Call] /\ call'[t].pc = "idle"
           /\ \A u \in Thread \ {t} : call'[u] = call[u]
           /\ UNCHANGED <<objects, links, created, lost, mixed, boots>>
BY ReturnCalls DEF Execute, IndInv, TypeOK

\* An insertion stores the object and gives it its id; a user loses what was granted before.
LEMMA InsertObjectKeeps ==
    ASSUME IndInv, NEW t \in Thread, Execute(t), call[t].op = "add", InsertObject(call[t].what)
    PROVE  IndInv'
<1> DEFINE o == call[t].what
<1>1. /\ InAdapter(t)
      /\ call' \in [Thread -> Call] /\ call'[t].pc = "idle"
      /\ \A u \in Thread \ {t} : call'[u] = call[u]
      /\ UNCHANGED <<objects, links, created, lost, mixed, boots>>
  BY ExecuteCalls
<1>2. /\ rows' = rows \cup {o}
      /\ numbered' = numbered \cup {o}
      /\ keyed' = keyed \ {o}
      /\ repr' = [l \in Link |-> IF l[1] = o THEN 0 ELSE repr[l]]
      /\ UNCHANGED <<linkRows, early>>
  BY DEF InsertObject
<1>3. o \in created /\ o \in Object
  BY <1>1 DEF InAdapter, IndInv, CallsAreTyped, TypeOK
<1>4. UnderWay(t, "add", o)
  BY <1>1 DEF InAdapter, UnderWay
<1>5. \A l \in Link : InEffect(l)' => InEffect(l) /\ l[1] # o /\ repr'[l] = repr[l]
  BY <1>2 DEF InEffect
<1>6. /\ o \in objects \cup lost \cup early \/ \E u \in Thread \ {t} : UnderWay(u, "remove", o)
      /\ \A u \in Thread \ {t} : ~ UnderWay(u, "add", o)
  BY <1>3, <1>4 DEF IndInv, AddIsFirst, UnderWay
<1> HIDE DEF o
<1>7. TypeOK'
  BY <1>1, <1>2, <1>3 DEF IndInv, TypeOK
<1>8. OnlyCreated' /\ CallsAreTyped'
  BY <1>1, <1>2, <1>3 DEF IndInv, OnlyCreated, CallsAreTyped
<1>9. FillingIsFresh'
  BY <1>1 DEF IndInv, FillingIsFresh, BothExist
<1>10. AddIsFirst'
  BY <1>1, <1>2, <1>6 DEF IndInv, AddIsFirst, UnderWay, InAdapter
<1>11. RemoveIsFinal'
  BY <1>1 DEF IndInv, RemoveIsFinal, UnderWay
<1>12. LinkIsNamed' /\ UnlinkIsFinal'
  BY <1>1, <1>2, <1>5 DEF IndInv, LinkIsNamed, UnlinkIsFinal, UnderWay, BothExist
<1>13. RepresentationIsSound'
  BY <1>1, <1>2, <1>5 DEF IndInv, RepresentationIsSound, BothExist
<1>14. ObjectsMatchRows'
  <2> SUFFICES ASSUME NEW p \in Object
               PROVE  /\ p \in objects' \ rows' => p \in lost' \/ \E u \in Thread : UnderWay(u, "add", p)'
                      /\ p \in rows' \ objects' =>
                            p \in lost' \cup early' \/ \E u \in Thread : UnderWay(u, "remove", p)'
    BY DEF ObjectsMatchRows
  <2>1. CASE p = o
    BY <1>1, <1>2, <1>6, <2>1 DEF UnderWay
  <2>2. CASE p # o
    BY <1>1, <1>2, <2>2 DEF IndInv, ObjectsMatchRows, UnderWay, o
  <2> QED
    BY <2>1, <2>2
<1>15. RightsAreStored'
  BY <1>1, <1>2, <1>5 DEF IndInv, RightsAreStored, UnderWay, InAdapter
<1> QED
  BY <1>7, <1>8, <1>9, <1>10, <1>11, <1>12, <1>13, <1>14, <1>15 DEF IndInv

\* A deletion takes the row of the object, unless the object was removed before it had an id.
LEMMA DeleteObjectKeeps ==
    ASSUME IndInv, NEW t \in Thread, Execute(t), call[t].op = "remove", DeleteObject(call[t].what)
    PROVE  IndInv'
<1> DEFINE o == call[t].what
<1>1. /\ InAdapter(t)
      /\ call' \in [Thread -> Call] /\ call'[t].pc = "idle"
      /\ \A u \in Thread \ {t} : call'[u] = call[u]
      /\ UNCHANGED <<objects, links, created, lost, mixed, boots>>
  BY ExecuteCalls
<1>2. /\ rows' = rows \ RowsGone(o)
      /\ early' = IF o \in numbered THEN early ELSE early \cup {o}
      /\ UNCHANGED <<numbered, keyed, repr, linkRows>>
  BY DEF DeleteObject
<1>3. rows' \subseteq rows /\ rows \subseteq rows' \cup {o} /\ (o \in rows' => o \in early')
  BY <1>2 DEF RowsGone
<1>4. o \in Object /\ o \notin objects
  BY <1>1 DEF InAdapter, IndInv, CallsAreTyped, TypeOK, RemoveIsFinal, UnderWay
<1>5. early \subseteq early' /\ early' \subseteq early \cup {o} /\ (o \notin numbered => o \in early')
  BY <1>2
<1> HIDE DEF o
<1>6. TypeOK' /\ OnlyCreated'
  BY <1>1, <1>2, <1>3, <1>4, <1>5 DEF IndInv, TypeOK, OnlyCreated
<1>7. CallsAreTyped' /\ FillingIsFresh'
  BY <1>1 DEF IndInv, CallsAreTyped, FillingIsFresh, BothExist
<1>8. AddIsFirst'
  <2> SUFFICES ASSUME NEW p \in Object, NEW u \in Thread, UnderWay(u, "add", p)'
               PROVE  /\ p \notin numbered' \cup rows'
                      /\ p \in objects' \cup lost' \cup early' \/ \E v \in Thread : UnderWay(v, "remove", p)'
                      /\ \A v \in Thread : UnderWay(v, "add", p)' => v = u
    BY DEF AddIsFirst
  <2>1. UnderWay(u, "add", p)
    BY <1>1 DEF UnderWay
  <2>2. p = o => p \in early'
    BY <1>5, <2>1 DEF IndInv, AddIsFirst
  <2> QED
    BY <1>1, <1>2, <1>3, <1>5, <2>1, <2>2 DEF IndInv, AddIsFirst, UnderWay, o
<1>9. RemoveIsFinal'
  BY <1>1 DEF IndInv, RemoveIsFinal, UnderWay
<1>10. LinkIsNamed' /\ UnlinkIsFinal'
  BY <1>1, <1>2, <1>5 DEF IndInv, LinkIsNamed, UnlinkIsFinal, UnderWay, InEffect, BothExist
<1>11. RepresentationIsSound'
  BY <1>1, <1>2, <1>5 DEF IndInv, RepresentationIsSound, InEffect, BothExist
<1>12. ObjectsMatchRows'
  <2> SUFFICES ASSUME NEW p \in Object
               PROVE  /\ p \in objects' \ rows' => p \in lost' \/ \E u \in Thread : UnderWay(u, "add", p)'
                      /\ p \in rows' \ objects' =>
                            p \in lost' \cup early' \/ \E u \in Thread : UnderWay(u, "remove", p)'
    BY DEF ObjectsMatchRows
  <2>1. CASE p = o
    BY <1>1, <1>3, <1>4, <2>1
  <2>2. CASE p # o
    BY <1>1, <1>3, <1>5, <2>2 DEF IndInv, ObjectsMatchRows, UnderWay, o
  <2> QED
    BY <2>1, <2>2
<1>13. RightsAreStored'
  BY <1>1, <1>2, <1>5 DEF IndInv, RightsAreStored, UnderWay, InEffect
<1> QED
  BY <1>6, <1>7, <1>8, <1>9, <1>10, <1>11, <1>12, <1>13 DEF IndInv

\* A statement about a link leaves the objects alone, and the link it deletes grants nothing.
LEMMA LinkStatementKeeps ==
    ASSUME IndInv, NEW t \in Thread, Execute(t),
           \/ call[t].op = "link" /\ InsertLink(call[t].ids)
           \/ call[t].op = "unlink" /\ DeleteLink(call[t].ids)
    PROVE  IndInv'
<1>1. /\ InAdapter(t)
      /\ call' \in [Thread -> Call] /\ call'[t].pc = "idle"
      /\ \A u \in Thread \ {t} : call'[u] = call[u]
      /\ UNCHANGED <<objects, links, created, lost, mixed, boots>>
  BY ExecuteCalls
<1>2. /\ UNCHANGED <<numbered, keyed, repr, rows, early>>
      /\ linkRows' \subseteq linkRows \cup {call[t].ids}
  BY DEF InsertLink, DeleteLink
<1>3. call[t].ids \in Ids
  BY DEF IndInv, TypeOK, Call
<1>4. TypeOK' /\ OnlyCreated'
  BY <1>1, <1>2, <1>3 DEF IndInv, TypeOK, OnlyCreated
<1>5. CallsAreTyped' /\ FillingIsFresh'
  BY <1>1 DEF IndInv, CallsAreTyped, FillingIsFresh, BothExist
<1>6. AddIsFirst' /\ RemoveIsFinal'
  BY <1>1, <1>2 DEF IndInv, AddIsFirst, RemoveIsFinal, UnderWay
<1>7. LinkIsNamed' /\ UnlinkIsFinal'
  BY <1>1, <1>2 DEF IndInv, LinkIsNamed, UnlinkIsFinal, UnderWay, InEffect, BothExist
<1>8. RepresentationIsSound'
  BY <1>1, <1>2 DEF IndInv, RepresentationIsSound, InEffect, BothExist
<1>9. ObjectsMatchRows'
  BY <1>1, <1>2 DEF IndInv, ObjectsMatchRows, UnderWay
<1>10. RightsAreStored'
  <2> SUFFICES ASSUME NEW l \in Link, InEffect(l), l \notin lost \cup early
               PROVE  l \in linkRows' \/ \E u \in Thread : UnderWay(u, "link", l)'
    BY <1>1, <1>2 DEF RightsAreStored, InEffect
  <2>1. CASE call[t].op = "link" /\ linkRows' = linkRows \cup {call[t].ids}
    <3>1. CASE UnderWay(t, "link", l)
      BY <2>1, <3>1 DEF IndInv, LinkIsNamed
    <3>2. CASE ~ UnderWay(t, "link", l)
      BY <1>1, <2>1, <3>2 DEF IndInv, RightsAreStored, UnderWay
    <3> QED
      BY <3>1, <3>2
  <2>2. CASE call[t].op = "unlink" /\ linkRows' = linkRows \ {call[t].ids}
    <3>1. l # call[t].ids
      BY <1>1, <2>2 DEF IndInv, UnlinkIsFinal, InAdapter
    <3> QED
      BY <1>1, <2>2, <3>1 DEF IndInv, RightsAreStored, UnderWay
  <2> QED
    BY <2>1, <2>2 DEF InsertLink, DeleteLink, LinkRowsGone
<1> QED
  BY <1>4, <1>5, <1>6, <1>7, <1>8, <1>9, <1>10 DEF IndInv

\* Each signal makes the statement of its operation.
LEMMA ExecuteKeeps ==
    ASSUME IndInv, NEW t \in Thread, Execute(t)
    PROVE  IndInv'
BY InsertObjectKeeps, DeleteObjectKeeps, LinkStatementKeeps DEF Execute

\* A statement that fails is known to be lost; of an object a row may be there all the same.
LEMMA FailKeeps ==
    ASSUME IndInv, NEW t \in Thread, Fail(t)
    PROVE  IndInv'
<1> DEFINE what == call[t].what
<1>1. /\ InAdapter(t)
      /\ call' \in [Thread -> Call] /\ call'[t].pc = "idle"
      /\ \A u \in Thread \ {t} : call'[u] = call[u]
      /\ UNCHANGED <<objects, numbered, links, keyed, repr, linkRows, created, early, mixed, boots>>
  BY ReturnCalls DEF Fail, IndInv, TypeOK
<1>2. /\ lost' = lost \cup {what}
      /\ rows' = rows \/ (call[t].op = "add" /\ rows' = rows \cup {what})
  BY DEF Fail
<1>3. \/ call[t].op \in {"add", "remove"} /\ what \in created
      \/ call[t].op \in {"link", "unlink"} /\ what \in Link
  BY <1>1 DEF InAdapter, IndInv, CallsAreTyped
<1>4. rows \subseteq rows' /\ rows' \subseteq rows \cup {what} /\ (call[t].op # "add" => rows' = rows)
  BY <1>2
<1>5. \A o \in Object, u \in Thread : UnderWay(u, "add", o)' => o # what \/ call[t].op # "add"
  BY <1>1 DEF IndInv, AddIsFirst, UnderWay, InAdapter
<1> HIDE DEF what
<1>6. TypeOK' /\ OnlyCreated'
  BY <1>1, <1>2, <1>3 DEF IndInv, TypeOK, OnlyCreated
<1>7. CallsAreTyped' /\ FillingIsFresh'
  BY <1>1 DEF IndInv, CallsAreTyped, FillingIsFresh, BothExist
<1>8. AddIsFirst'
  <2> SUFFICES ASSUME NEW o \in Object, NEW u \in Thread, UnderWay(u, "add", o)'
               PROVE  /\ o \notin numbered' \cup rows'
                      /\ o \in objects' \cup lost' \cup early' \/ \E v \in Thread : UnderWay(v, "remove", o)'
                      /\ \A v \in Thread : UnderWay(v, "add", o)' => v = u
    BY DEF AddIsFirst
  <2>1. UnderWay(u, "add", o)
    BY <1>1 DEF UnderWay
  <2>2. o \notin rows'
    BY <1>4, <1>5, <2>1 DEF IndInv, AddIsFirst
  <2>3. o \in objects' \cup lost' \cup early' \/ \E v \in Thread : UnderWay(v, "remove", o)'
    BY <1>1, <1>2, <2>1 DEF IndInv, AddIsFirst, UnderWay, what
  <2> QED
    BY <1>1, <2>1, <2>2, <2>3 DEF IndInv, AddIsFirst, UnderWay
<1>9. RemoveIsFinal'
  BY <1>1 DEF IndInv, RemoveIsFinal, UnderWay
<1>10. LinkIsNamed' /\ UnlinkIsFinal'
  BY <1>1 DEF IndInv, LinkIsNamed, UnlinkIsFinal, UnderWay, InEffect, BothExist
<1>11. RepresentationIsSound'
  BY <1>1 DEF IndInv, RepresentationIsSound, InEffect, BothExist
<1>12. ObjectsMatchRows'
  <2> SUFFICES ASSUME NEW o \in Object, o \notin lost'
               PROVE  /\ o \in objects' \ rows' => \E u \in Thread : UnderWay(u, "add", o)'
                      /\ o \in rows' \ objects' => o \in early' \/ \E u \in Thread : UnderWay(u, "remove", o)'
    BY DEF ObjectsMatchRows
  <2>1. o # what /\ o \notin lost
    BY <1>2
  <2> QED
    BY <1>1, <1>4, <2>1 DEF IndInv, ObjectsMatchRows, UnderWay, what
<1>13. RightsAreStored'
  <2> SUFFICES ASSUME NEW l \in Link, InEffect(l), l \notin lost' \cup early
               PROVE  l \in linkRows \/ \E u \in Thread : UnderWay(u, "link", l)'
    BY <1>1 DEF RightsAreStored, InEffect
  <2>1. l # what /\ l \notin lost
    BY <1>2
  <2> QED
    BY <1>1, <2>1 DEF IndInv, RightsAreStored, UnderWay, what
<1> QED
  BY <1>6, <1>7, <1>8, <1>9, <1>10, <1>11, <1>12, <1>13 DEF IndInv

\* After a restart the context is what the tables hold, and no signal is under way.
LEMMA RestartKeeps ==
    ASSUME IndInv, Restart
    PROVE  IndInv'
<1>1. call' \in [Thread -> Call] /\ \A u \in Thread : call'[u].pc = "idle"
  BY RestartCalls
<1>2. /\ repr' \in [Link -> Nat]
      /\ \A l \in Link : repr'[l] = IF l \in linkRows /\ l[1] \in rows /\ l[2] \in rows THEN 1 ELSE 0
  BY DEF Restart
<1>3. keyed' \subseteq User
  BY DEF Restart
<1>4. TypeOK'
  BY <1>1, <1>2, <1>3, ModelAssumption DEF IndInv, TypeOK, Restart
<1>5. OnlyCreated' /\ CallsAreTyped' /\ FillingIsFresh'
  BY <1>1 DEF IndInv, OnlyCreated, CallsAreTyped, FillingIsFresh, Restart
<1>6. AddIsFirst' /\ RemoveIsFinal' /\ LinkIsNamed' /\ UnlinkIsFinal'
  BY <1>1 DEF AddIsFirst, RemoveIsFinal, LinkIsNamed, UnlinkIsFinal, UnderWay
<1>7. ASSUME NEW l \in Link, InEffect(l)'
      PROVE  l \in linkRows /\ l \in links' /\ BothExist(l)' /\ l[1] \in keyed'
  <2>1. l \in linkRows /\ l[1] \in rows /\ l[2] \in rows
    BY <1>2, <1>7 DEF InEffect
  <2>2. PICK u \in User, g \in Target : l = <<u, g>>
    BY DEF Link
  <2> QED
    BY <2>1, <2>2 DEF Restart, BothExist
<1>8. RepresentationIsSound'
  BY <1>2, <1>7 DEF RepresentationIsSound
<1>9. ObjectsMatchRows'
  BY DEF ObjectsMatchRows, Restart
<1>10. RightsAreStored'
  BY <1>7 DEF RightsAreStored, Restart
<1> QED
  BY <1>4, <1>5, <1>6, <1>8, <1>9, <1>10 DEF IndInv

----------------------------------------------------------------------------
(* The invariant, and what follows from it.                                *)

\* Nothing was made yet: the invariant holds of empty tables and idle threads.
LEMMA InitHolds == Init => IndInv
<1> SUFFICES ASSUME Init PROVE IndInv
  OBVIOUS
<1>1. Idle \in Call /\ Idle.pc = "idle"
  BY DEF Idle, Call, Operation, Ids
<1>2. TypeOK
  <2>1. call \in [Thread -> Call] /\ repr \in [Link -> Nat]
    BY <1>1 DEF Init
  <2>2. boots \in 0 .. MaxBoots
    <3>1. MaxBoots \in Nat /\ boots = 0
      BY ModelAssumption DEF Init
    <3> QED
      BY <3>1
  <2>3. mixed \in BOOLEAN
    BY DEF Init
  <2> QED
    BY <2>1, <2>2, <2>3 DEF Init, TypeOK
<1>3. OnlyCreated /\ CallsAreTyped /\ FillingIsFresh
  BY <1>1 DEF Init, OnlyCreated, CallsAreTyped, FillingIsFresh
<1>4. AddIsFirst /\ RemoveIsFinal /\ LinkIsNamed /\ UnlinkIsFinal
  BY <1>1 DEF Init, AddIsFirst, RemoveIsFinal, LinkIsNamed, UnlinkIsFinal, UnderWay
<1>5. RepresentationIsSound /\ ObjectsMatchRows /\ RightsAreStored
  BY DEF Init, RepresentationIsSound, ObjectsMatchRows, RightsAreStored, InEffect
<1> QED
  BY <1>2, <1>3, <1>4, <1>5 DEF IndInv

\* A step that changes nothing keeps every part of the invariant.
LEMMA StutterKeeps ==
    ASSUME IndInv, UNCHANGED vars
    PROVE  IndInv'
<1> USE DEF vars
<1>1. TypeOK' /\ OnlyCreated' /\ CallsAreTyped' /\ FillingIsFresh'
  BY DEF IndInv, TypeOK, OnlyCreated, CallsAreTyped, FillingIsFresh, BothExist
<1>2. AddIsFirst' /\ RemoveIsFinal' /\ LinkIsNamed' /\ UnlinkIsFinal'
  BY DEF IndInv, AddIsFirst, RemoveIsFinal, LinkIsNamed, UnlinkIsFinal, UnderWay, InEffect, BothExist
<1>3. RepresentationIsSound' /\ ObjectsMatchRows' /\ RightsAreStored'
  BY DEF IndInv, RepresentationIsSound, ObjectsMatchRows, RightsAreStored, UnderWay, InEffect, BothExist
<1> QED
  BY <1>1, <1>2, <1>3 DEF IndInv

\* Every step keeps the invariant.
LEMMA NextKeeps == IndInv /\ [Next]_vars => IndInv'
<1> SUFFICES ASSUME IndInv, [Next]_vars PROVE IndInv'
  OBVIOUS
<1>1. ASSUME NEW t \in Thread, Step(t) PROVE IndInv'
  BY <1>1, RemoveKeeps, AddLinkKeeps, FillKeeps, RemoveLinkKeeps, EnterKeeps, ExecuteKeeps, FailKeeps
     DEF Step
<1>2. ASSUME NEW t \in Thread, NEW o \in Object, BeginRemove(t, o) PROVE IndInv'
  BY <1>2, LookUpKeeps DEF BeginRemove, Operation
<1>3. ASSUME NEW t \in Thread, NEW l \in Link, BeginLink(t, l) \/ BeginUnlink(t, l)
      PROVE  IndInv'
  BY <1>3, LookUpKeeps DEF BeginLink, BeginUnlink, Operation
<1> QED
  BY <1>1, <1>2, <1>3, AddKeeps, RestartKeeps, StutterKeeps DEF Next

\* The invariant holds in every behaviour.
THEOREM Invariance == Spec => []IndInv
BY InitHolds, NextKeeps, PTL DEF Spec

\* Every variable keeps its type, and no target is counted below zero in an entry.
THEOREM TypeCorrect == Spec => []TypeOK
<1>1. IndInv => TypeOK
  BY DEF IndInv
<1> QED
  BY <1>1, Invariance, PTL

\* A right in effect never names a removed object, whichever ids it was given or taken by; one that
\* was given by the ids of both ends is given once and has its link.
THEOREM RightsAreLive == Spec => []RepresentationIsSound
<1>1. IndInv => RepresentationIsSound
  BY DEF IndInv
<1> QED
  BY <1>1, Invariance, PTL

\* Objects and rows differ only by signals under way, failed statements, and removals by id 0.
THEOREM RowsConvergeToObjects == Spec => []ObjectsMatchRows
<1>1. IndInv => ObjectsMatchRows
  BY DEF IndInv
<1> QED
  BY <1>1, Invariance, PTL

\* A right in effect has its row or is about to get it, unless its statement failed or it was
\* given by id 0.
THEOREM RightsSurvive == Spec => []RightsAreStored
<1>1. IndInv => RightsAreStored
  BY DEF IndInv
<1> QED
  BY <1>1, Invariance, PTL
=============================================================================
