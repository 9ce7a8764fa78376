------------------------------ MODULE Database ------------------------------
(***************************************************************************)
(* How the tables mirror the model.  A thread that adds an object to       *)
(* ModelContext, or removes one, sends a signal when it has left the mutex *)
(* of the model; DBSubscriber answers it in the same thread and puts SQL   *)
(* statements through one adapter.  The signals of one type come one after *)
(* the other; those of two types may be answered at the same time, and the *)
(* adapter keeps the statement, and the blobs for it, in members that      *)
(* nothing guards.                                                         *)
(*                                                                         *)
(* Links, which have no id, are left to ModelContext.  Any other object    *)
(* gets its id from the row that looks like it: the columns of a row,      *)
(* without the id, are one value here, its body.                           *)
(*                                                                         *)
(* overlapped and muddled record how the mirror can be lost; they are the  *)
(* only variables the program does not have.                               *)
(***************************************************************************)
EXTENDS Integers, FiniteSets

CONSTANTS
    Thread,     \* threads of the HTTP server
    Object,     \* objects a request may make
    Body,       \* contents of an object, without its id
    Mix         \* what may be asked for together: the types of some of the objects

----------------------------------------------------------------------------
(* The statements of each type: whether a blob is bound to the INSERT and  *)
(* to the SELECT, whether ids are never reused.                            *)

CameraStatements == [blob |-> FALSE, auto |-> TRUE]

UserStatements == [blob |-> FALSE, auto |-> TRUE]

PermissionStatements == [blob |-> FALSE, auto |-> TRUE]

CameraActionStatements == [blob |-> FALSE, auto |-> TRUE]

SettingsStatements == [blob |-> TRUE, auto |-> TRUE]

EventArchiveSettingsStatements == [blob |-> FALSE, auto |-> FALSE]

Statements ==
    [camera |-> CameraStatements,
     user |-> UserStatements,
     permission |-> PermissionStatements,
     camera_action |-> CameraActionStatements,
     settings |-> SettingsStatements,
     event_archive_settings |-> EventArchiveSettingsStatements]

Kind == DOMAIN Statements

ASSUME DatabaseAssumption == Mix \subseteq UNION {[S -> Kind] : S \in SUBSET Object}

VARIABLES
    kind,       \* the type of each object that may be asked for
    objects,    \* the objects of ModelContext
    made,       \* objects that were ever added
    body,       \* contents of each object, as its request gives them
    id,         \* id of each object, 0 until its row was found
    rows,       \* the tables
    given,      \* the greatest id each table ever gave
    current,    \* _current_command of the adapter
    blobs,      \* _blobs of the adapter, how many there are
    call,       \* what each thread is doing
    overlapped, \* a statement was begun while one of another thread was in the adapter
    muddled     \* contents that were added twice, removed too early, or complained about

vars == <<kind, objects, made, body, id, rows, given, current, blobs, call, overlapped, muddled>>

----------------------------------------------------------------------------
Row == [kind : Kind, id : Nat, body : Body]

Nothing == [op |-> "nothing"]

Text == {Nothing} \cup [op : {"insert", "select", "delete"}, row : Row]

Call == {[pc |-> "idle"]} \cup
    [pc : {"write", "bind", "prepare", "clear", "run"}, step : {"insert", "select", "delete"},
     object : Object, text : Text]

Idle == [pc |-> "idle"]

Busy(t) == call[t] # Idle

At(t, pc) == call[t].pc = pc

Goto(t, pc) == call' = [call EXCEPT ![t].pc = pc]

Return(t) == call' = [call EXCEPT ![t] = Idle]

Begin(t, step, o) ==
    call' = [call EXCEPT ![t] = [pc |-> "write", step |-> step, object |-> o, text |-> Nothing]]

Uses(k) == Statements[k]

HasBlob(text) == text # Nothing /\ text.op # "delete" /\ Uses(text.row.kind).blob

RowOf(o) == [kind |-> kind[o], id |-> id[o], body |-> body[o]]

Like(r, o) == r.kind = kind[o] /\ r.body = body[o]

Alike(o, p) == kind[o] = kind[p] /\ body[o] = body[p]

Content(o) == <<kind[o], body[o]>>

\* A thread answers, or is about to answer, a signal about an object.
UnderWay(o, Step) == \E t \in Thread : Busy(t) /\ call[t].object = o /\ call[t].step \in Step

----------------------------------------------------------------------------
(* Requests.                                                               *)

\* IsSame.
Same(o, p) == kind[o] = kind[p] /\ id[o] = id[p]

\* Something that looks like the object is there already, or still there.
Repeated(o) ==
    \/ \E r \in rows : Like(r, o)
    \/ \E p \in objects : Alike(o, p)
    \/ \E p \in made : Alike(o, p) /\ UnderWay(p, {"delete"})

Add(t, o) ==
    /\ ~ Busy(t)
    /\ o \notin made
    /\ \A p \in objects : ~ Same(o, p)
    /\ objects' = objects \cup {o}
    /\ made' = made \cup {o}
    /\ muddled' = IF Repeated(o) THEN muddled \cup {Content(o)} ELSE muddled
    /\ Begin(t, "insert", o)
    /\ UNCHANGED <<kind, body, id, rows, given, current, blobs, overlapped>>

\* Seeded fault: what is removed is not signalled.
RemoveSilently(t, o) ==
    /\ ~ Busy(t)
    /\ o \in objects
    /\ objects' = {p \in objects : ~ (Alike(o, p) /\ id[o] = id[p])}
    /\ UNCHANGED <<kind, made, body, id, rows, given, current, blobs, call, overlapped, muddled>>

\* Everything equal to the object goes, its signal is sent.
Remove(t, o) ==
    /\ ~ Busy(t)
    /\ o \in objects
    /\ objects' = {p \in objects : ~ (Alike(o, p) /\ id[o] = id[p])}
    /\ muddled' = IF UnderWay(o, {"insert", "select"}) THEN muddled \cup {Content(o)} ELSE muddled
    /\ Begin(t, "delete", o)
    /\ UNCHANGED <<kind, made, body, id, rows, given, current, blobs, overlapped>>

\* The handlers make an object of their type from the request, or find one by its id.
AddCamera(t, o) == kind[o] = "camera" /\ Add(t, o)
AddUser(t, o) == kind[o] = "user" /\ Add(t, o)
AddSettings(t, o) == kind[o] = "settings" /\ Add(t, o)
AddPermission(t, o) == kind[o] = "permission" /\ Add(t, o)
AddCameraAction(t, o) == kind[o] = "camera_action" /\ Add(t, o)
AddEventArchiveSettings(t, o) == kind[o] = "event_archive_settings" /\ Add(t, o)

RemoveCamera(t, o) == kind[o] = "camera" /\ Remove(t, o)
RemoveUser(t, o) == kind[o] = "user" /\ Remove(t, o)
RemoveSettings(t, o) == kind[o] = "settings" /\ Remove(t, o)
RemovePermission(t, o) == kind[o] = "permission" /\ Remove(t, o)
RemoveCameraAction(t, o) == kind[o] = "camera_action" /\ Remove(t, o)
RemoveEventArchiveSettings(t, o) == kind[o] = "event_archive_settings" /\ Remove(t, o)

----------------------------------------------------------------------------
(* The adapter.                                                            *)

\* The lock of the signal of the type, which a thread keeps for all its statements.
Answering(t) == Busy(t) /\ ~ (At(t, "write") /\ call[t].step # "select")

MayAnswer(t) ==
    \A u \in Thread \ {t} : Answering(u) => kind[call[u].object] # kind[call[t].object]

\* A statement was put into the adapter and not yet taken out of it.
Open(t) ==
    \/ call[t].pc \in {"bind", "prepare", "clear"}
    \/ At(t, "run") /\ call[t].step = "select"

\* operator << of a statement, put together from the object as it is now.
Write(t) ==
    /\ At(t, "write")
    /\ MayAnswer(t)
    /\ LET o == call[t].object
           text == [op |-> call[t].step, row |-> RowOf(o)]
       IN /\ current' = text
          /\ Goto(t, IF HasBlob(text) THEN "bind" ELSE "prepare")
    /\ overlapped' = (overlapped \/ \E u \in Thread \ {t} : Open(u))
    /\ UNCHANGED <<kind, objects, made, body, id, rows, given, blobs, muddled>>

\* Seeded fault: a blob is taken where one should be added.
BindFront(t) ==
    /\ At(t, "bind")
    /\ blobs' = blobs - 1
    /\ Goto(t, "prepare")
    /\ UNCHANGED <<kind, objects, made, body, id, rows, given, current, overlapped, muddled>>

\* operator << of a blob.
Bind(t) ==
    /\ At(t, "bind")
    /\ blobs' = blobs + 1
    /\ Goto(t, "prepare")
    /\ UNCHANGED <<kind, objects, made, body, id, rows, given, current, overlapped, muddled>>

\* An exception ends the answer; only an error is logged.
Complain(t) ==
    /\ muddled' = muddled \cup {Content(call[t].object)}
    /\ Return(t)

\* operator >>: the statement is prepared and takes the first blob, which it must have a place for.
\* Another thread that is writing the statement meanwhile may spoil it.
Prepare(t) ==
    /\ At(t, "prepare")
    /\ \/ /\ blobs > 0 => HasBlob(current)
          /\ call' = [call EXCEPT ![t].text = current,
                                  ![t].pc = IF call[t].step = "select" THEN "run" ELSE "clear"]
          /\ UNCHANGED muddled
       \/ /\ \/ blobs > 0 /\ ~ HasBlob(current)
             \/ \E u \in Thread \ {t} : call[u].pc \in {"write", "clear"} /\ MayAnswer(u)
          /\ Complain(t)
    /\ UNCHANGED <<kind, objects, made, body, id, rows, given, current, blobs, overlapped>>

\* The end of operator >> for ids; for other statements, before they are executed.
Clear(t) ==
    /\ At(t, "clear")
    /\ current' = Nothing
    /\ blobs' = 0
    /\ IF call[t].step = "select" THEN Return(t) ELSE Goto(t, "run")
    /\ UNCHANGED <<kind, objects, made, body, id, rows, given, overlapped, muddled>>

----------------------------------------------------------------------------
(* The engine.                                                             *)

\* Seeded fault: any row of the table will do.
FoundAny(text) == {r \in rows : r.kind = text.row.kind /\ ~ HasBlob(text)}

\* The rows a SELECT finds: one that compares a column with NULL, as an empty blob is, finds none.
Found(text) ==
    {r \in rows : r.kind = text.row.kind /\ r.body = text.row.body /\ ~ HasBlob(text)}

Greatest(k) ==
    LET ids == {r.id : r \in {q \in rows : q.kind = k}} IN
    IF ids = {} THEN 0 ELSE CHOOSE n \in ids : \A m \in ids : m <= n

NextId(k) == 1 + (IF Uses(k).auto THEN given[k] ELSE Greatest(k))

Insert(text) ==
    LET k == text.row.kind IN
    /\ rows' = rows \cup {[text.row EXCEPT !.id = NextId(k)]}
    /\ given' = [given EXCEPT ![k] = NextId(k)]

\* Seeded fault: a DELETE without a condition.
DeleteAll(text) ==
    /\ rows' = {r \in rows : r.kind # text.row.kind}
    /\ UNCHANGED given

Delete(text) ==
    /\ rows' = {r \in rows : ~ (r.kind = text.row.kind /\ r.id = text.row.id)}
    /\ UNCHANGED given

\* INSERT and DELETE; what the statement was when it was prepared.
Affect(text) ==
    \/ text.op = "insert" /\ Insert(text)
    \/ text.op = "delete" /\ Delete(text)

\* A statement without a result: a row that comes all the same is an error, as is no statement.
Execute(t) ==
    /\ At(t, "run") /\ call[t].step # "select"
    /\ LET text == call[t].text
           o == call[t].object
           Proceed ==
               /\ UNCHANGED muddled
               /\ IF call[t].step = "insert" THEN Begin(t, "select", o) ELSE Return(t)
       IN \/ Affect(text) /\ Proceed
          \/ text.op = "select" /\ Found(text) = {} /\ Proceed /\ UNCHANGED <<rows, given>>
          \/ text.op = "select" /\ Found(text) # {} /\ Complain(t) /\ UNCHANGED <<rows, given>>
          \/ text.op = "nothing" /\ Complain(t) /\ UNCHANGED <<rows, given>>
    /\ UNCHANGED <<kind, objects, made, body, id, current, blobs, overlapped>>

\* A statement with a result: the first column of a row that is found becomes the id of the object;
\* no row is an error, and more than one may be.
Extract(t) ==
    /\ At(t, "run") /\ call[t].step = "select"
    /\ LET text == call[t].text IN
       \/ Affect(text) /\ Complain(t) /\ UNCHANGED id
       \/ /\ text.op = "nothing" \/ (text.op = "select" /\ Found(text) = {})
          /\ Complain(t)
          /\ UNCHANGED <<id, rows, given>>
       \/ /\ text.op = "select"
          /\ \E r \in Found(text) :
                /\ id' = [id EXCEPT ![call[t].object] = r.id]
                /\ \/ Goto(t, "clear") /\ UNCHANGED muddled
                   \/ Found(text) # {r} /\ Complain(t)
          /\ UNCHANGED <<rows, given>>
    /\ UNCHANGED <<kind, objects, made, body, current, blobs, overlapped>>

----------------------------------------------------------------------------
Init ==
    /\ kind \in Mix
    /\ objects = {} /\ made = {} /\ rows = {} /\ muddled = {}
    /\ body \in [Object -> Body]
    /\ id = [o \in Object |-> 0]
    /\ given = [k \in Kind |-> 0]
    /\ current = Nothing
    /\ blobs = 0
    /\ call = [t \in Thread |-> Idle]
    /\ overlapped = FALSE

Step(t) == Write(t) \/ Bind(t) \/ Prepare(t) \/ Clear(t) \/ Execute(t) \/ Extract(t)

Request(t, o) ==
    \/ AddCamera(t, o) \/ AddUser(t, o) \/ AddSettings(t, o)
    \/ AddPermission(t, o) \/ AddCameraAction(t, o) \/ AddEventArchiveSettings(t, o)
    \/ RemoveCamera(t, o) \/ RemoveUser(t, o) \/ RemoveSettings(t, o)
    \/ RemovePermission(t, o) \/ RemoveCameraAction(t, o) \/ RemoveEventArchiveSettings(t, o)

Next ==
    \E t \in Thread :
        \/ Step(t)
        \/ \E o \in DOMAIN kind : Request(t, o)

Spec == Init /\ [][Next]_vars

----------------------------------------------------------------------------
(* Properties.                                                             *)

TypeOK ==
    /\ kind \in Mix
    /\ objects \subseteq made /\ made \subseteq DOMAIN kind
    /\ body \in [Object -> Body]
    /\ id \in [Object -> Nat]
    /\ rows \subseteq Row
    /\ given \in [Kind -> Nat]
    /\ current \in Text
    /\ blobs \in Nat
    /\ call \in [Thread -> Call]
    /\ overlapped \in BOOLEAN
    /\ muddled \subseteq Kind \X Body

Lost(k, b) == overlapped \/ <<k, b>> \in muddled

\* An object of the model is in its table, under its id.
ObjectsHaveRows ==
    \A o \in objects :
        RowOf(o) \in rows \/ UnderWay(o, {"insert", "select"}) \/ Lost(kind[o], body[o])

\* A row is about an object of the model: nothing that was removed comes back at the next start.
RowsHaveObjects ==
    \A r \in rows :
        \/ \E o \in objects : RowOf(o) = r
        \/ \E o \in made : Like(r, o) /\ UnderWay(o, {"insert", "select", "delete"})
        \/ Lost(r.kind, r.body)

\* The id a client names says which object is meant.
IdsTellApart ==
    \A o, p \in objects :
        (o # p /\ kind[o] = kind[p] /\ id[o] = id[p])
            => Lost(kind[o], body[o])

\* An object whose adding was logged as a success, and as nothing else, is in its table under its id.
SuccessfulAddsAreStored ==
    \A o \in objects :
        \/ UnderWay(o, {"insert", "select"})
        \/ RowOf(o) \in rows
        \/ Content(o) \in muddled
=============================================================================
