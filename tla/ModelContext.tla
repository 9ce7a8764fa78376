----------------------------- MODULE ModelContext -----------------------------
(***************************************************************************)
(* Users, the things they are given rights on, and the links between them, *)
(* as source/model/ModelContext.hpp keeps them for the HTTP handlers of    *)
(* source/schemas/http/http_schemas/Model.hpp, and the tables DBSubscriber *)
(* mirrors them in.                                                        *)
(*                                                                         *)
(* A Target is a camera or a permission: the code is one template for both *)
(* kinds of link.  Every operation is a region of the mutex of the         *)
(* context; its handler looked the objects up in regions before it, and    *)
(* its signal is answered after it, by the same thread but in no order     *)
(* with the signals of other threads.  An object has id 0 until its INSERT *)
(* was answered, outside that mutex, and an id 0 names it until then.      *)
(*                                                                         *)
(* Signals of one type are answered one at a time, those of two types may  *)
(* meet in the adapter and then exchange their statements: module Database *)
(* is about that, and this one follows the process up to the first time it *)
(* happens.  A statement may fail here as well.                            *)
(*                                                                         *)
(* early, lost and mixed record how the mirror can be lost; they are the   *)
(* only variables the program does not have.                               *)
(***************************************************************************)
EXTENDS Integers, FiniteSets

CONSTANTS
    Thread,     \* threads of the HTTP server
    User,       \* users, by the row they will have: ids are never reused
    Target,     \* cameras or permissions, likewise
    Zero,       \* the id of an object that waits for its own
    MaxLost,    \* bound: objects and links whose statements fail between two starts
    MaxBoots    \* bound: restarts of the process

ASSUME ModelAssumption ==
    /\ User \cap Target = {}
    /\ Zero \notin User \cup Target
    /\ MaxLost \in Nat /\ MaxBoots \in Nat

VARIABLES
    objects,    \* the vectors of users and of targets
    numbered,   \* the objects whose id the database has filled in
    links,      \* _usercameras or _userpermissions: pairs of ids
    keyed,      \* the users whose entry in _users_cameras_repr can be found
    repr,       \* how often a target is in the entry of a user
    rows,       \* the tables of users and targets
    linkRows,   \* the table of links
    created,    \* objects made so far
    call,       \* what each thread is doing
    early,      \* links made, and objects deleted, under id 0
    lost,       \* what a statement failed for
    mixed,      \* statements of two types were in the adapter at once
    boots       \* restarts so far

vars == <<objects, numbered, links, keyed, repr, rows, linkRows, created, call, early, lost,
          mixed, boots>>

----------------------------------------------------------------------------
Object == User \cup Target

Link == User \X Target

\* A link as it is stored.
Ids == (User \cup {Zero}) \X (Target \cup {Zero})

Nobody == "nobody"

Operation == {"add", "remove", "link", "unlink"}

Call == [pc : {"idle", "found", "filling", "signal", "statement"}, op : Operation,
         what : Object \cup Link \cup {Nobody}, ids : Ids]

Idle == [pc |-> "idle", op |-> "add", what |-> Nobody, ids |-> <<Zero, Zero>>]

Kind(o) == IF o \in User THEN User ELSE Target

\* The id an object has now; an object is called by the id of its row.
IdOf(o) == IF o \in numbered THEN o ELSE Zero

IdsOf(l) == <<IdOf(l[1]), IdOf(l[2])>>

BothExist(l) == l[1] \in objects /\ l[2] \in objects

LinksOf(o) == {l \in Link : o \in {l[1], l[2]}}

\* The stored links that have the id of the object in its place.
StoredLinksOf(o) == {i \in Ids : (o \in User /\ i[1] = IdOf(o)) \/ (o \in Target /\ i[2] = IdOf(o))}

\* The mutex of the context is free; one operation lets a number arrive in its midst.
Free == \A t \in Thread : call[t].pc # "filling"

At(t, pc, op) == call[t].pc = pc /\ call[t].op = op

Goto(t, pc) == call' = [call EXCEPT ![t].pc = pc]

Return(t) == call' = [call EXCEPT ![t] = Idle]

Begin(t, pc, op, what) ==
    /\ call[t].pc = "idle"
    /\ Free
    /\ call' = [call EXCEPT ![t] = [pc |-> pc, op |-> op, what |-> what, ids |-> <<Zero, Zero>>]]

----------------------------------------------------------------------------
(* Objects.                                                                *)

\* A handler makes an object with id 0 and Add takes it, unless another one waits for its id:
\* then IsSame says SameId, and the request changes nothing.
Add(t, o) ==
    /\ o \notin created
    /\ objects \cap Kind(o) \subseteq numbered
    /\ created' = created \cup {o}
    /\ objects' = objects \cup {o}
    /\ Begin(t, "signal", "add", o)
    /\ UNCHANGED <<numbered, links, keyed, repr, rows, linkRows, early, lost, mixed, boots>>

\* FindUserById, FindCameraById: any object has an id to name it by, 0 or its own.
LookUp(t, op, what) ==
    /\ Begin(t, "found", op, what)
    /\ UNCHANGED <<objects, numbered, links, keyed, repr, rows, linkRows, created, early, lost,
                   mixed, boots>>

BeginRemove(t, o) == o \in objects /\ LookUp(t, "remove", o)

\* Seeded fault: the representation is not cleaned.
RemoveKeepsRights(t) ==
    /\ At(t, "found", "remove")
    /\ Free
    /\ LET o == call[t].what IN
       \/ /\ o \in objects
          /\ objects' = objects \ {o}
          /\ links' = links \ StoredLinksOf(o)
          /\ Goto(t, "signal")
       \/ /\ o \notin objects
          /\ Return(t)
          /\ UNCHANGED <<objects, links>>
    /\ UNCHANGED <<numbered, keyed, repr, rows, linkRows, created, early, lost, mixed, boots>>

\* Remove, with the links that have the id of the object and its entries in the representation.
Remove(t) ==
    /\ At(t, "found", "remove")
    /\ Free
    /\ LET o == call[t].what IN
       \/ /\ o \in objects
          /\ objects' = objects \ {o}
          /\ links' = links \ StoredLinksOf(o)
          /\ repr' = [l \in Link |-> IF l \in LinksOf(o) THEN 0 ELSE repr[l]]
          /\ keyed' = keyed \ {o}
          /\ Goto(t, "signal")
       \/ /\ o \notin objects
          /\ Return(t)
          /\ UNCHANGED <<objects, links, repr, keyed>>
    /\ UNCHANGED <<numbered, rows, linkRows, created, early, lost, mixed, boots>>

----------------------------------------------------------------------------
(* Links.                                                                  *)

BeginLink(t, l) == BothExist(l) /\ LookUp(t, "link", l)

BeginUnlink(t, l) == BothExist(l) /\ LookUp(t, "unlink", l)

\* The objects that the ids of a stored link name.
Named(i) == {l \in Link : BothExist(l) /\ IdsOf(l) = i}

\* AddLink makes the link from the ids of the objects that were found and looks these up again:
\* SameBody if the link is there, NotFound if nothing has one of the ids.
AddLink(t) ==
    /\ At(t, "found", "link")
    /\ Free
    /\ LET i == IdsOf(call[t].what) IN
       \/ /\ i \notin links
          /\ \E l \in Named(i) :
                call' = [call EXCEPT ![t].pc = "filling", ![t].what = l, ![t].ids = i]
       \/ /\ i \in links \/ Named(i) = {}
          /\ Return(t)
    /\ UNCHANGED <<objects, numbered, links, keyed, repr, rows, linkRows, created, early, lost,
                   mixed, boots>>

\* _ImplFillData, and the rest of AddLink. An id that arrived meanwhile may have come before an
\* object was looked up by the old one: then that was NotFound.
Fill(t) ==
    /\ At(t, "filling", "link")
    /\ LET l == call[t].what
           i == call[t].ids
       IN \/ /\ repr' = [repr EXCEPT ![l] = @ + 1]
             /\ keyed' = keyed \cup {l[1]}
             /\ links' = links \cup {i}
             /\ early' = IF i = l THEN early ELSE early \cup {l}
             /\ Goto(t, "signal")
          \/ /\ i # IdsOf(l)
             /\ Return(t)
             /\ UNCHANGED <<links, keyed, repr, early>>
    /\ UNCHANGED <<objects, numbered, rows, linkRows, created, lost, mixed, boots>>

\* Seeded fault: RemoveLink counts down instead of removing every entry.
RemoveLinkOnce(t) ==
    /\ At(t, "found", "unlink")
    /\ Free
    /\ LET i == IdsOf(call[t].what)
           Live == {l \in Named(i) : i \in links /\ l[1] \in keyed}
       IN \/ \E l \in Live :
                /\ repr' = [repr EXCEPT ![l] = @ - 1]
                /\ call' = [call EXCEPT ![t].pc = "signal", ![t].what = l, ![t].ids = i]
          \/ Live = {} /\ Return(t) /\ UNCHANGED repr
    /\ UNCHANGED <<objects, numbered, links, keyed, rows, linkRows, created, early, lost, mixed,
                   boots>>

\* RemoveLink takes the target out of the entry of the user. The statements that would erase
\* the link itself compare the type of the target with that of a link, which never holds.
RemoveLink(t) ==
    /\ At(t, "found", "unlink")
    /\ Free
    /\ LET i == IdsOf(call[t].what)
           Live == {l \in Named(i) : i \in links /\ l[1] \in keyed}
       IN \/ \E l \in Live :
                /\ repr' = [repr EXCEPT ![l] = 0]
                /\ call' = [call EXCEPT ![t].pc = "signal", ![t].what = l, ![t].ids = i]
          \/ Live = {} /\ Return(t) /\ UNCHANGED repr
    /\ UNCHANGED <<objects, numbered, links, keyed, rows, linkRows, created, early, lost, mixed,
                   boots>>

----------------------------------------------------------------------------
(* The database.                                                           *)

\* The tables have one type of signal each.
TableOf(t) == IF call[t].op \in {"link", "unlink"} THEN Link ELSE Kind(call[t].what)

InAdapter(t) == call[t].pc = "statement"

\* The lock of the signal of the type.
Enter(t) ==
    /\ call[t].pc = "signal"
    /\ \A u \in Thread : InAdapter(u) => TableOf(u) # TableOf(t)
    /\ mixed' = \E u \in Thread : InAdapter(u)
    /\ Goto(t, "statement")
    /\ UNCHANGED <<objects, numbered, links, keyed, repr, rows, linkRows, created, early, lost, boots>>

\* The INSERT of an object fills in its id, which is part of the hash of a user: an entry made
\* under id 0 is where nobody looks for it any more.
InsertObject(o) ==
    /\ rows' = rows \cup {o}
    /\ numbered' = numbered \cup {o}
    /\ keyed' = keyed \ {o}
    /\ repr' = [l \in Link |-> IF l[1] = o THEN 0 ELSE repr[l]]
    /\ UNCHANGED <<linkRows, early>>

\* Seeded fault: DELETE takes every row of the table.
RowsGoneOfKind(o) == IF o \in numbered THEN Kind(o) ELSE {}

\* DELETE FROM user WHERE id = the id the object has now. The tables declare cascades that SQLite
\* does not apply unless foreign keys are switched on.
RowsGone(o) == IF o \in numbered THEN {o} ELSE {}

DeleteObject(o) ==
    /\ rows' = rows \ RowsGone(o)
    /\ early' = IF o \in numbered THEN early ELSE early \cup {o}
    /\ UNCHANGED <<numbered, keyed, repr, linkRows>>

InsertLink(i) ==
    /\ linkRows' = linkRows \cup {i}
    /\ UNCHANGED <<numbered, keyed, repr, rows, early>>

\* Seeded fault: the row of a link is looked for by its target alone.
LinkRowsGoneOfTarget(i) == {r \in Ids : r[2] = i[2]}

\* DELETE FROM user_cameras WHERE every column is like that of the link.
LinkRowsGone(i) == {i}

DeleteLink(i) ==
    /\ linkRows' = linkRows \ LinkRowsGone(i)
    /\ UNCHANGED <<numbered, keyed, repr, rows, early>>

\* DBSubscriber: one statement per signal, two for an object that is inserted.
Execute(t) ==
    /\ InAdapter(t)
    /\ \/ call[t].op = "add" /\ InsertObject(call[t].what)
       \/ call[t].op = "remove" /\ DeleteObject(call[t].what)
       \/ call[t].op = "link" /\ InsertLink(call[t].ids)
       \/ call[t].op = "unlink" /\ DeleteLink(call[t].ids)
    /\ Return(t)
    /\ UNCHANGED <<objects, links, created, lost, mixed, boots>>

\* A statement fails, which is logged; after an INSERT it may be the SELECT that failed.
Fail(t) ==
    /\ InAdapter(t)
    /\ Cardinality(lost) < MaxLost
    /\ lost' = lost \cup {call[t].what}
    /\ \/ call[t].op = "add" /\ rows' = rows \cup {call[t].what}
       \/ UNCHANGED rows
    /\ Return(t)
    /\ UNCHANGED <<objects, numbered, links, keyed, repr, linkRows, created, early, mixed, boots>>

\* The process ends and comes up with what the tables hold; FillRepresentations takes the
\* links whose ends were loaded.
Restart ==
    /\ boots < MaxBoots
    /\ boots' = boots + 1
    /\ objects' = rows
    /\ numbered' = rows
    /\ links' = linkRows
    /\ repr' = [l \in Link |-> IF l \in linkRows /\ l[1] \in rows /\ l[2] \in rows THEN 1 ELSE 0]
    /\ keyed' = {u \in User : \E g \in Target : <<u, g>> \in linkRows /\ u \in rows /\ g \in rows}
    /\ call' = [t \in Thread |-> Idle]
    /\ early' = {} /\ lost' = {}
    /\ UNCHANGED <<rows, linkRows, created, mixed>>

----------------------------------------------------------------------------
Init ==
    /\ objects = {} /\ numbered = {} /\ links = {} /\ keyed = {}
    /\ repr = [l \in Link |-> 0]
    /\ rows = {} /\ linkRows = {} /\ created = {}
    /\ call = [t \in Thread |-> Idle]
    /\ early = {} /\ lost = {} /\ mixed = FALSE
    /\ boots = 0

Step(t) == Remove(t) \/ AddLink(t) \/ Fill(t) \/ RemoveLink(t) \/ Enter(t) \/ Execute(t) \/ Fail(t)

\* Up to the first time that statements of two types meet.
Next ==
    /\ ~ mixed
    /\ \/ \E t \in Thread : Step(t)
       \/ \E t \in Thread, o \in Object : Add(t, o) \/ BeginRemove(t, o)
       \/ \E t \in Thread, l \in Link : BeginLink(t, l) \/ BeginUnlink(t, l)
       \/ Restart

Spec == Init /\ [][Next]_vars

----------------------------------------------------------------------------
(* Properties.                                                             *)

TypeOK ==
    /\ {objects, numbered, rows, created} \subseteq SUBSET Object
    /\ {links, linkRows} \subseteq SUBSET Ids
    /\ keyed \subseteq User
    /\ repr \in [Link -> Nat]
    /\ call \in [Thread -> Call]
    /\ {early, lost} \subseteq SUBSET (Object \cup Link)
    /\ mixed \in BOOLEAN
    /\ boots \in 0 .. MaxBoots

\* A signal is on its way, or in the adapter.
UnderWay(t, op, what) ==
    call[t].pc \in {"signal", "statement"} /\ call[t].op = op /\ call[t].what = what

\* The right of a user on a target is in effect.
InEffect(l) == repr[l] > 0

\* A right in effect is about live objects: what GetPermissionsByUser hands out has not expired
\* when it is handed out. One that was given by the ids of both is given once, and is a link.
RepresentationIsSound ==
    \A l \in Link :
        /\ InEffect(l) => BothExist(l) /\ l[1] \in keyed
        /\ l \notin early => repr[l] <= 1 /\ (InEffect(l) => l \in links)

\* Objects and their rows differ only by signals under way, though signals overtake each other;
\* but a failed statement leaves a difference, and so does a removal by id 0, before the INSERT.
ObjectsMatchRows ==
    \A o \in Object :
        /\ o \in objects \ rows => o \in lost \/ \E t \in Thread : UnderWay(t, "add", o)
        /\ o \in rows \ objects => o \in lost \cup early \/ \E t \in Thread : UnderWay(t, "remove", o)

\* A right in effect survives the next start: it has its row, or is about to get it. A failed
\* statement loses it, and it is stored for nobody when it was given by id 0.
RightsAreStored ==
    \A l \in Link : InEffect(l) =>
        \/ l \in linkRows
        \/ l \in lost \cup early
        \/ \E t \in Thread : UnderWay(t, "link", l)
=============================================================================
